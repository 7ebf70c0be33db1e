---------------------------- MODULE ConsoleProofs ----------------------------
(* The invariants of Console for any number of files, lines, limits and list *)
(* blocks, and commands timed any number of times.                           *)
EXTENDS Console, SequenceTheorems, TLAPS

\* What has been given back: the lists go when the interpreter is to stop, with
\* every file on the stack, and nothing is opened after that.
GivenBack ==
  /\ cmd_list = "freed" => quit_flag /\ buf_stack = <<>>
  /\ pc = "start" => cmd_list = "live" /\ ~quit_flag
  /\ logfile = "open" => logs > 0

\* An error is counted when a command fails and never forgotten, and nothing but
\* an error or quit stops the interpreter.
Counted ==
  /\ status = "running" => (failed <=> err_cnt > 0)
  /\ quit_flag /\ err_cnt = 0 => cmd_list = "freed"

\* Until the interpreter is to stop, the errors are below some limit: the one in
\* force when the last of them was counted.
BelowSome == ~quit_flag => \E limit \in Limits : err_cnt < limit

IInv ==
  /\ Balanced /\ QuitsOnce /\ ExitTellsErrors /\ ErrorsAreLimited
  /\ GivenBack /\ Counted /\ BelowSome

LEMMA Bounds ==
  /\ MaxFiles \in Nat /\ MaxFiles > 0 /\ MaxLines \in Nat /\ MaxTimes \in Nat /\ ListBlocks \in Nat
  BY ConsoleAssumption

USE Bounds

LEMMA SumFits ==
  ASSUME NEW i \in Nat, NEW j \in Nat, NEW k \in Nat, NEW l \in Nat, NEW m \in Nat,
         i + j <= m, k <= i, l <= j
  PROVE  k + l <= m
  OBVIOUS

-----------------------------------------------------------------------------
\* What printing has left: the log file and the descriptors, and the process.
LogIsHeld == logs = lost + (IF logfile = "open" THEN 1 ELSE 0)
LogKept ==
  /\ logfile' \in {"none", "open", "closed"} /\ logs' \in Nat /\ logs' <= logs /\ lost' \in Nat
  /\ logfile' = "open" => logs' > 0
  /\ LogIsHeld'
StillRuns == status' = "running" \/ (status' = "undefined" /\ logfile' = "closed")

\* What a command says to the log file.
LEMMA SaysLemma ==
  ASSUME IInv, NEW talk \in Talk, Says(talk), status = "running"
  PROVE  LogKept
<1>1. /\ logs \in Nat /\ lost \in Nat /\ logs = lost + (IF logfile = "open" THEN 1 ELSE 0)
      /\ logfile \in {"none", "open", "closed"}
  BY DEF IInv, Balanced, TypeOK
<1>2. CASE talk = "event" /\ logfile = "open"
  BY <1>1, <1>2 DEF Says, LogKept, LogIsHeld
<1>3. CASE ~(talk = "event" /\ logfile = "open")
  BY <1>1, <1>3 DEF Says, LogKept, LogIsHeld
<1> QED BY <1>2, <1>3

\* While the lists are there, only a closed log file leaves nothing defined.
LEMMA AfterLemma ==
  ASSUME NEW talk \in Talk, Says(talk), NEW next, After(talk, next), cmd_list = "live"
  PROVE  status' = next \/ (status' = "undefined" /\ logfile' = "closed")
  BY DEF Says, Talk, After

\* Errors are counted up to the limit, and past it at most by one timed command.
LEMMA RecordLemma ==
  ASSUME IInv, NEW ok \in BOOLEAN, NEW times \in 0..MaxTimes, NEW quits \in BOOLEAN,
         status = "running", ~quit_flag, err_limit' \in Limits,
         record_errors(ok, times, quits), quits => cmd_list' = "freed"
  PROVE  /\ err_cnt' \in Nat /\ quit_flag' \in BOOLEAN /\ failed' \in BOOLEAN
         /\ failed' <=> err_cnt' > 0
         /\ quit_flag' /\ err_cnt' = 0 => cmd_list' = "freed"
         /\ BelowSome' /\ ErrorsAreLimited'
         /\ quits => quit_flag'
<1>0. /\ failed \in BOOLEAN /\ err_cnt \in Nat /\ err_limit' \in Nat
      /\ failed <=> err_cnt > 0
  BY ConsoleAssumption DEF IInv, Balanced, TypeOK, Counted
<1>1. /\ err_cnt' = (IF ok THEN err_cnt ELSE err_cnt + times + 1)
      /\ quit_flag' <=> (quits \/ (~ok /\ err_cnt' >= err_limit'))
      /\ failed' <=> (failed \/ ~ok)
      /\ quit_flag' \in BOOLEAN /\ failed' \in BOOLEAN
  BY <1>0 DEF record_errors, Count, Exceeded
<1>2. times \in Nat /\ MaxTimes \in Nat /\ times <= MaxTimes /\ err_cnt \in Nat /\ err_limit' \in Nat
  BY <1>0
<1>3. PICK limit \in Limits : err_cnt < limit /\ limit \in Nat
  BY ConsoleAssumption DEF IInv, BelowSome
<1>4. CASE ok
  <2>1. err_cnt' = err_cnt /\ (failed' <=> failed)
    BY <1>1, <1>4
  <2>2. failed <=> err_cnt > 0
    BY <1>0
  <2>3. ErrorsAreLimited'
    BY <1>2, <1>3, <2>1 DEF ErrorsAreLimited
  <2> QED BY <1>1, <1>2, <1>3, <1>4, <2>1, <2>2, <2>3 DEF BelowSome
<1>5. CASE ~ok
  <2>1. err_cnt' = err_cnt + times + 1 /\ failed'
    BY <1>1, <1>5
  <2>2. err_cnt' \in Nat /\ err_cnt' > 0 /\ err_cnt' <= limit + MaxTimes
    BY <1>2, <1>3, <2>1
  <2>3. ~quit_flag' => err_cnt' < err_limit'
    BY <1>1, <1>2, <1>5, <2>2
  <2> QED BY <1>1, <1>3, <2>1, <2>2, <2>3 DEF BelowSome, ErrorsAreLimited
<1> QED BY <1>4, <1>5

-----------------------------------------------------------------------------
LEMMA InitIInv == Init => IInv
<1> SUFFICES ASSUME Init
             PROVE  IInv
  OBVIOUS
<1>1. TypeOK
  <2>1. fds = 0 /\ logs \in {0, 1} /\ fds + logs <= MaxFiles
    BY DEF Init
  <2>2. {fds, held, logs, lost, helpers, err_cnt} \subseteq Nat
    BY <2>1 DEF Init
  <2>3. buf_stack \in Seq(0..MaxLines)
    BY DEF Init
  <2>4. /\ err_limit \in Limits /\ quit_flag \in BOOLEAN /\ failed \in BOOLEAN
        /\ cmd_list \in {"live", "freed"} /\ logfile \in {"none", "open", "closed"}
        /\ pc \in {"start", "loop", "interpret", "last", "back", "main"}
        /\ status \in {"running", "exit_0", "exit_1", "undefined"}
    BY ConsoleAssumption DEF Init
  <2> QED BY <2>1, <2>2, <2>3, <2>4 DEF TypeOK
<1>2. Balanced /\ QuitsOnce /\ ExitTellsErrors /\ GivenBack /\ Counted
  <2>1. Balanced /\ QuitsOnce /\ ExitTellsErrors /\ GivenBack
    BY <1>1 DEF Init, Balanced, QuitsOnce, ExitTellsErrors, GivenBack
  <2>2. ~failed /\ ~(err_cnt > 0) /\ ~quit_flag
    BY DEF Init
  <2> QED BY <2>1, <2>2 DEF Counted
<1>3. ErrorsAreLimited /\ BelowSome
  <2>1. err_cnt = 0 /\ ErrLimit \in Limits /\ 0 < ErrLimit /\ 0 <= ErrLimit + MaxTimes
    BY ConsoleAssumption DEF Init
  <2> QED BY <2>1 DEF ErrorsAreLimited, BelowSome
<1> QED BY <1>2, <1>3 DEF IInv

\* The interpreter opens and reads its files: nothing is counted or given back.
LEMMA LoopInv ==
  ASSUME IInv, start \/ start_fails \/ Loop
  PROVE  IInv'
<1>1. /\ UNCHANGED <<cmd_list, errors, helpers, log>>
      /\ status = "running"
  BY DEF start, start_fails, Loop, readline, read_on, read_eof, leave, interpret_nothing, Interpreting, At
<1>0. {fds, held, logs} \subseteq Nat /\ fds + logs <= MaxFiles
  BY DEF IInv, Balanced, TypeOK
<1>2. /\ ErrorsAreLimited' /\ BelowSome'
      /\ quit_flag' /\ err_cnt' = 0 => cmd_list' = "freed"
      /\ failed' <=> err_cnt' > 0
  BY <1>1 DEF IInv, Balanced, ErrorsAreLimited, BelowSome, Counted, errors
<1>3. CASE start
  <2>1. /\ buf_stack' \in Seq(0..MaxLines) /\ Len(buf_stack') = Len(buf_stack) + 1
        /\ fds' = fds + 1 /\ held' = held + 1 /\ fds + logs < MaxFiles
        /\ pc = "start" /\ pc' = "loop" /\ status' = "running"
    <3>1. 0 \in 0..MaxLines /\ buf_stack \in Seq(0..MaxLines)
      BY DEF IInv, Balanced, TypeOK
    <3> QED BY <1>1, <1>3, <3>1 DEF start, push_file, CanOpen, At
  <2>2. {fds', held'} \subseteq Nat /\ fds' + logs' <= MaxFiles
    BY <1>1, <1>0, <2>1, SMTT(40) DEF log
  <2>3. TypeOK'
    BY <1>1, <2>1, <2>2 DEF IInv, Balanced, TypeOK, errors, log
  <2>4. Balanced'
    <3>1. /\ fds = Len(buf_stack) /\ held = Len(buf_stack) + (IF cmd_list = "live" THEN ListBlocks ELSE 0)
          /\ LogIsHeld
      BY <1>1 DEF IInv, Balanced, LogIsHeld
    <3>2. /\ fds' = Len(buf_stack') /\ held' = Len(buf_stack') + (IF cmd_list' = "live" THEN ListBlocks ELSE 0)
      <4>1. Len(buf_stack) \in Nat
        BY DEF IInv, Balanced, TypeOK
      <4> QED BY <1>1, <2>1, <3>1, <4>1
    <3> QED BY <1>1, <2>3, <3>1, <3>2 DEF Balanced, LogIsHeld, log
  <2> QED BY <1>1, <1>2, <2>1, <2>4 DEF IInv, Balanced, QuitsOnce, ExitTellsErrors, GivenBack, Counted, errors, log
<1>4. CASE start_fails
  BY <1>1, <1>2, <1>4 DEF IInv, Balanced, start_fails, input, At, TypeOK, QuitsOnce, ExitTellsErrors, GivenBack,
     Counted, errors, log
<1>5. CASE readline
  BY <1>1, <1>2, <1>5 DEF IInv, Balanced, readline, read_ready, Echo, At, TypeOK, QuitsOnce, ExitTellsErrors, GivenBack,
     Counted, errors, log
<1>6. CASE read_on
  BY <1>1, <1>2, <1>6 DEF IInv, Balanced, read_on, cmd_done, Echo, At, TypeOK, QuitsOnce, ExitTellsErrors, GivenBack,
     Counted, errors, log
<1>7. CASE read_eof
  <2>1. /\ buf_stack' \in Seq(0..MaxLines) /\ Len(buf_stack) > 0 /\ Len(buf_stack') = Len(buf_stack) - 1
        /\ fds' = fds - 1 /\ held' = held - 1 /\ ~quit_flag
        /\ pc' \in {"back", "last"}
        /\ status' = "running" \/ (status' = "undefined" /\ logfile = "closed")
    <3>1. buf_stack \in Seq(0..MaxLines) /\ buf_stack # <<>>
      BY <1>7 DEF IInv, Balanced, TypeOK, read_eof, cmd_done
    <3>2. Len(buf_stack) > 0 /\ Tail(buf_stack) \in Seq(0..MaxLines)
          /\ Len(Tail(buf_stack)) = Len(buf_stack) - 1
      BY <3>1
    <3> QED BY <1>1, <1>7, <3>2 DEF read_eof, pop_file, cmd_done, Echo, At
  <2>2. {fds', held'} \subseteq Nat /\ fds' + logs' <= MaxFiles
    <3>1. fds = Len(buf_stack) /\ held \in Nat /\ held >= Len(buf_stack) /\ Len(buf_stack) \in Nat
      BY <1>1 DEF IInv, Balanced, TypeOK
    <3> QED BY <1>1, <1>0, <2>1, <3>1 DEF log
  <2>3. TypeOK'
    BY <1>1, <2>1, <2>2 DEF IInv, Balanced, TypeOK, errors, log
  <2>4. Balanced'
    <3>1. /\ fds = Len(buf_stack) /\ held = Len(buf_stack) + (IF cmd_list = "live" THEN ListBlocks ELSE 0)
          /\ LogIsHeld
      BY <1>1 DEF IInv, Balanced, LogIsHeld
    <3>2. /\ fds' = Len(buf_stack') /\ held' = Len(buf_stack') + (IF cmd_list' = "live" THEN ListBlocks ELSE 0)
      <4>1. Len(buf_stack) \in Nat
        BY DEF IInv, Balanced, TypeOK
      <4> QED BY <1>1, <2>1, <3>1, <4>1
    <3> QED BY <1>1, <2>3, <3>1, <3>2 DEF Balanced, LogIsHeld, log
  <2> QED BY <1>1, <1>2, <2>1, <2>4 DEF IInv, Balanced, QuitsOnce, ExitTellsErrors, GivenBack, Counted, errors, log
<1>8. CASE leave \/ interpret_nothing
  BY <1>1, <1>2, <1>8 DEF IInv, Balanced, leave, interpret_nothing, Interpreting, input, At, TypeOK, QuitsOnce, ExitTellsErrors,
     GivenBack, Counted, errors, log
<1> QED BY <1>3, <1>4, <1>5, <1>6, <1>7, <1>8 DEF Loop

-----------------------------------------------------------------------------
LEMMA PrintsLemma ==
  ASSUME IInv, NEW talk \in Talk, Says(talk), After(talk, "running"), Interprets
  PROVE  LogKept /\ StillRuns
<1>1. cmd_list = "live" /\ status = "running"
  BY DEF IInv, Balanced, TypeOK, GivenBack, Interprets, Interpreting, At
<1> QED BY <1>1, SaysLemma, AfterLemma DEF StillRuns

\* A command that opens and gives back nothing.
LEMMA CommandInv ==
  ASSUME IInv, Interprets, LogKept, StillRuns, UNCHANGED <<input, held, cmd_list, helpers>>,
         NEW ok \in BOOLEAN, NEW times \in 0..MaxTimes, err_limit' \in Limits,
         record_errors(ok, times, FALSE)
  PROVE  IInv'
<1>1. status = "running" /\ ~quit_flag /\ cmd_list = "live" /\ pc' \in {"loop", "back"}
  BY DEF IInv, Balanced, Interprets, Interpreting, At, GivenBack, TypeOK
<1>2. /\ err_cnt' \in Nat /\ quit_flag' \in BOOLEAN /\ failed' \in BOOLEAN
      /\ failed' <=> err_cnt' > 0
      /\ quit_flag' /\ err_cnt' = 0 => cmd_list' = "freed"
      /\ BelowSome' /\ ErrorsAreLimited'
  BY <1>1, RecordLemma
<1>3. {fds', held', helpers'} \subseteq Nat /\ fds' + logs' <= MaxFiles
  <2>1. {fds, held, helpers, logs, MaxFiles} \subseteq Nat /\ fds + logs <= MaxFiles
    BY DEF IInv, Balanced, TypeOK
  <2> QED BY <2>1 DEF LogKept, input
<1>4. TypeOK'
  BY <1>1, <1>2, <1>3 DEF IInv, Balanced, TypeOK, LogKept, StillRuns, input
<1>5. Balanced'
  BY <1>1, <1>4 DEF IInv, Balanced, LogKept, LogIsHeld, input
<1> QED BY <1>1, <1>2, <1>5 DEF IInv, Balanced, LogKept, StillRuns, QuitsOnce, ExitTellsErrors, GivenBack, Counted, input

LEMMA SourceInv ==
  ASSUME IInv, NEW talk \in Talk, do_source_cmd(talk)
  PROVE  IInv'
<1>1. /\ status = "running" /\ ~quit_flag /\ cmd_list = "live" /\ pc' \in {"loop", "back"}
      /\ UNCHANGED <<cmd_list, errors, helpers>>
  BY DEF IInv, Balanced, do_source_cmd, Interprets, Interpreting, At, GivenBack, TypeOK
<1>2. LogKept /\ StillRuns
  BY PrintsLemma DEF do_source_cmd
<1>3. /\ buf_stack' \in Seq(0..MaxLines) /\ Len(buf_stack') = Len(buf_stack) + 1
      /\ fds' = fds + 1 /\ held' = held + 1 /\ fds + logs < MaxFiles
  <2>1. 0 \in 0..MaxLines /\ buf_stack \in Seq(0..MaxLines)
    BY DEF IInv, Balanced, TypeOK
  <2> QED BY <2>1 DEF do_source_cmd, push_file, CanOpen
<1>4. {fds', held'} \subseteq Nat /\ fds' + logs' <= MaxFiles
  <2>1. {fds, held, logs, MaxFiles} \subseteq Nat
    BY DEF IInv, Balanced, TypeOK
  <2>2. logs' \in Nat /\ logs' <= logs
    BY <1>2 DEF LogKept
  <2> QED BY <1>3, <2>1, <2>2, SMTT(40)
<1>5. TypeOK'
  BY <1>1, <1>2, <1>3, <1>4 DEF IInv, Balanced, TypeOK, LogKept, StillRuns, errors
<1>6. Balanced'
  <2>1. {fds, held, logs, ListBlocks} \subseteq Nat /\ Len(buf_stack) \in Nat
    BY DEF IInv, Balanced, TypeOK
  <2> QED BY <1>1, <1>3, <1>5, <1>2, <2>1 DEF IInv, Balanced, LogKept, LogIsHeld
<1>7. Counted' /\ BelowSome' /\ ErrorsAreLimited'
  BY <1>1 DEF IInv, Balanced, Counted, BelowSome, ErrorsAreLimited, errors
<1> QED BY <1>1, <1>2, <1>6, <1>7 DEF IInv, Balanced, LogKept, StillRuns, QuitsOnce, ExitTellsErrors, GivenBack, errors

LEMMA LogInv ==
  ASSUME IInv, do_log_cmd
  PROVE  IInv'
<1>1. /\ status = "running" /\ ~quit_flag /\ cmd_list = "live" /\ pc' \in {"loop", "back"}
      /\ UNCHANGED <<input, held, cmd_list, errors, helpers>>
      /\ logfile' = "open" /\ logs' = logs + 1
  BY DEF IInv, Balanced, do_log_cmd, Interprets, Interpreting, At, GivenBack, TypeOK
<1>2. status' = "running"
  BY <1>1 DEF do_log_cmd, After
<1>3. {logs', lost', fds} \subseteq Nat /\ fds + logs' <= MaxFiles /\ logs' > 0 /\ LogIsHeld'
  <2>1. {fds, logs, lost, MaxFiles} \subseteq Nat /\ fds + logs < MaxFiles
    BY DEF IInv, Balanced, do_log_cmd, CanOpen, TypeOK
  <2>2. logs = lost + (IF logfile = "open" THEN 1 ELSE 0)
    BY <1>1 DEF IInv, Balanced
  <2>3. lost' = lost + (IF logfile = "open" THEN 1 ELSE 0)
    BY <2>1 DEF do_log_cmd, Overwrites
  <2>4. lost' = logs /\ logs' = lost' + 1
    BY <1>1, <2>2, <2>3
  <2> QED BY <1>1, <2>1, <2>4 DEF LogIsHeld
<1>4. TypeOK'
  BY <1>1, <1>2, <1>3 DEF IInv, Balanced, TypeOK, errors, input
<1>5. Counted' /\ BelowSome' /\ ErrorsAreLimited'
  BY <1>1, <1>2 DEF IInv, Balanced, Counted, BelowSome, ErrorsAreLimited, errors
<1>6. Balanced'
  BY <1>1, <1>3, <1>4 DEF IInv, Balanced, LogIsHeld, input
<1> QED BY <1>1, <1>2, <1>3, <1>5, <1>6 DEF IInv, Balanced, QuitsOnce, ExitTellsErrors, GivenBack, errors, input

\* do_quit gives back what there is, once.
LEMMA QuitLemma ==
  ASSUME IInv, NEW talk \in Talk, do_quit(talk), status = "running", ~quit_flag
  PROVE  /\ cmd_list = "live"
         /\ buf_stack' = <<>> /\ fds' = 0 /\ held' = 0 /\ cmd_list' = "freed" /\ helpers' = 1
         /\ LogKept /\ fds' + logs' <= MaxFiles
<1>1. cmd_list = "live" /\ helpers = 0
  <2>1. cmd_list = "live" /\ helpers \in Nat /\ helpers <= 1 /\ ~(helpers = 1)
    BY DEF IInv, Balanced, GivenBack, TypeOK, QuitsOnce
  <2> QED BY <2>1
<1>2. fds' = 0 /\ held' = 0
  <2>1. Len(buf_stack) \in Nat /\ fds = Len(buf_stack) /\ held = Len(buf_stack) + ListBlocks
    BY <1>1 DEF IInv, Balanced, TypeOK
  <2> QED BY <2>1 DEF do_quit
<1>3. LogKept
  BY SaysLemma DEF do_quit, LogKept
<1>4. fds' + logs' <= MaxFiles
  <2>1. fds \in Nat /\ logs \in Nat /\ MaxFiles \in Nat /\ fds + logs <= MaxFiles
    BY DEF IInv, Balanced, TypeOK
  <2>2. logs' \in Nat /\ logs' <= logs
    BY <1>3 DEF LogKept
  <2>3. fds' \in Nat /\ fds' <= fds
    BY <1>2, <2>1
  <2> QED BY <2>1, <2>2, <2>3, SumFits
<1> QED BY <1>1, <1>2, <1>3, <1>4 DEF do_quit

LEMMA QuitInv ==
  ASSUME IInv, NEW ok \in BOOLEAN, NEW talk \in Talk, NEW times \in 0..MaxTimes,
         do_quit_cmd(ok, talk, times)
  PROVE  IInv'
<1>1. status = "running" /\ ~quit_flag /\ pc' \in {"loop", "back"} /\ err_limit' \in Limits
  BY DEF do_quit_cmd, Interprets, Interpreting, At, IInv, Balanced, TypeOK
<1>2. /\ cmd_list = "live" /\ buf_stack' = <<>> /\ fds' = 0 /\ held' = 0 /\ cmd_list' = "freed"
      /\ helpers' = 1 /\ LogKept /\ fds' + logs' <= MaxFiles
  BY <1>1, QuitLemma DEF do_quit_cmd
<1>3. StillRuns
  BY PrintsLemma DEF do_quit_cmd, do_quit
<1>4. /\ err_cnt' \in Nat /\ quit_flag' \in BOOLEAN /\ failed' \in BOOLEAN /\ quit_flag'
      /\ failed' <=> err_cnt' > 0
      /\ BelowSome' /\ ErrorsAreLimited'
  BY <1>1, <1>2, RecordLemma DEF do_quit_cmd
<1>5. TypeOK'
  <2>1. {fds', held', helpers', err_cnt', logs'} \subseteq Nat /\ buf_stack' \in Seq(0..MaxLines)
    BY <1>2, <1>4 DEF LogKept
  <2> QED BY <1>1, <1>2, <1>3, <1>4, <2>1 DEF TypeOK, LogKept, StillRuns
<1>6. Balanced'
  BY <1>2, <1>5 DEF Balanced, LogKept, LogIsHeld
<1> QED BY <1>1, <1>2, <1>3, <1>4, <1>6 DEF IInv, LogKept, StillRuns, QuitsOnce, ExitTellsErrors,
        GivenBack, Counted

LEMMA InterpretInv ==
  ASSUME IInv, Interpret
  PROVE  IInv'
<1>1. ASSUME NEW talk \in Talk, NEW times \in 0..MaxTimes, NEW ok \in BOOLEAN, any_cmd(ok, talk, times)
      PROVE  IInv'
  BY <1>1, PrintsLemma, CommandInv DEF any_cmd, IInv, Balanced, TypeOK
<1>2. ASSUME NEW talk \in Talk, NEW times \in 0..MaxTimes, NEW ok \in BOOLEAN, NEW limit \in Limits,
             do_option_cmd(limit, ok, talk, times)
      PROVE  IInv'
  BY <1>2, PrintsLemma, CommandInv DEF do_option_cmd
<1>3. ASSUME NEW times \in 0..MaxTimes, log_fails(times)
      PROVE  IInv'
  <2>1. cmd_list = "live" /\ err_limit \in Limits /\ logs \in Nat
    BY <1>3 DEF log_fails, Interprets, Interpreting, At, IInv, Balanced, TypeOK, GivenBack
  <2>2. LogKept /\ StillRuns
    <3>1. /\ logfile' = "none" /\ logs' = logs /\ status' = "running"
          /\ lost' = lost + (IF logfile = "open" THEN 1 ELSE 0)
      <4>1. lost \in Nat
        BY DEF IInv, Balanced, TypeOK
      <4> QED BY <1>3, <2>1, <4>1 DEF log_fails, After, Overwrites
    <3>2. logs = lost + (IF logfile = "open" THEN 1 ELSE 0)
      BY <1>3 DEF IInv, Balanced, log_fails, Interprets, Interpreting, At
    <3> QED BY <2>1, <3>1, <3>2 DEF LogKept, LogIsHeld, StillRuns
  <2> QED BY <1>3, <2>1, <2>2, CommandInv DEF log_fails
<1>4. ASSUME NEW talk \in {"nothing", "report"}, do_source_cmd(talk)
      PROVE  IInv'
  BY <1>4, SourceInv DEF Talk
<1> QED BY <1>1, <1>2, <1>3, <1>4, QuitInv, LogInv DEF Interpret

\* The end of main: the exit status is what the errors and the last quit say.
LEMMA EndInv ==
  ASSUME IInv, End
  PROVE  IInv'
<1>1. CASE main_fails
  <2>1. /\ status' = "exit_1" /\ UNCHANGED <<input, held, cmd_list, errors, helpers, log, pc>>
        /\ failed /\ status = "running"
    <3>1. err_cnt \in Nat /\ err_cnt # 0 /\ status = "running"
      BY <1>1 DEF IInv, Balanced, main_fails, At, TypeOK
    <3> QED BY <1>1, <3>1 DEF IInv, Balanced, main_fails, Counted
  <2>2. TypeOK'
    BY <2>1 DEF IInv, Balanced, TypeOK, input, errors, log
  <2> QED BY <2>1, <2>2 DEF IInv, Balanced, input, errors, log, QuitsOnce, ExitTellsErrors, ErrorsAreLimited, GivenBack,
          Counted, BelowSome
<1>2. ASSUME NEW ok \in BOOLEAN, NEW talk \in Talk, finish_cmd(ok, talk)
      PROVE  IInv'
  <2>1. /\ status = "running" /\ pc = "main" /\ err_cnt = 0 /\ ~failed
        /\ UNCHANGED <<err_cnt, err_limit, pc>>
    <3>1. status = "running" /\ pc = "main" /\ err_cnt = 0 /\ UNCHANGED <<err_cnt, err_limit, pc>>
      BY <1>2 DEF finish_cmd, At
    <3> QED BY <3>1 DEF IInv, Balanced, Counted
  <2>2. ErrorsAreLimited'
    BY <2>1 DEF IInv, Balanced, ErrorsAreLimited
  <2>3. CASE ~quit_flag
    <3>1. do_quit(talk) /\ (failed' <=> ~ok) /\ failed' \in BOOLEAN /\ quit_flag' = TRUE
      BY <1>2, <2>1, <2>3 DEF finish_cmd, NeedsQuit
    <3>2. After(talk, IF ok THEN "exit_0" ELSE "exit_1")
      BY <1>2, <2>3 DEF finish_cmd, NeedsQuit
    <3>3. /\ cmd_list = "live" /\ buf_stack' = <<>> /\ fds' = 0 /\ held' = 0 /\ cmd_list' = "freed"
          /\ helpers' = 1 /\ LogKept /\ fds' + logs' <= MaxFiles
      BY <2>1, <2>3, <3>1, QuitLemma
    <3>4. \/ status' = (IF ok THEN "exit_0" ELSE "exit_1")
          \/ status' = "undefined" /\ logfile' = "closed"
      BY <3>1, <3>2, <3>3, AfterLemma DEF do_quit
    <3>5. TypeOK'
      <4>1. {fds', held', helpers', err_cnt', logs'} \subseteq Nat /\ buf_stack' \in Seq(0..MaxLines)
        BY <2>1, <3>3 DEF LogKept
      <4>2. failed' \in BOOLEAN /\ quit_flag' \in BOOLEAN
        BY <3>1
      <4>3. err_limit' \in Limits /\ pc' = "main"
        BY <2>1 DEF IInv, Balanced, TypeOK
      <4> QED BY <3>3, <3>4, <4>1, <4>2, <4>3 DEF IInv, Balanced, TypeOK, LogKept
    <3>6. Balanced'
      BY <3>3, <3>5 DEF Balanced, LogKept, LogIsHeld
    <3>7. QuitsOnce' /\ ExitTellsErrors'
      BY <2>1, <3>1, <3>3, <3>4 DEF QuitsOnce, ExitTellsErrors
    <3>8. GivenBack' /\ Counted' /\ BelowSome'
      BY <2>1, <3>1, <3>3, <3>4 DEF LogKept, GivenBack, Counted, BelowSome
    <3> QED BY <2>2, <3>6, <3>7, <3>8 DEF IInv
  <2>4. CASE quit_flag
    <3>1. status' = "exit_0" /\ UNCHANGED <<input, held, cmd_list, helpers, log, failed, quit_flag>>
      BY <1>2, <2>4 DEF finish_cmd, NeedsQuit
    <3>2. cmd_list = "freed" /\ buf_stack = <<>> /\ helpers = 1 /\ fds = 0 /\ held = 0
      BY <2>1, <2>4 DEF IInv, Balanced, Counted, GivenBack, QuitsOnce
    <3>3. TypeOK'
      BY <2>1, <3>1 DEF IInv, Balanced, TypeOK, input, log
    <3> QED BY <2>1, <2>2, <2>4, <3>1, <3>2, <3>3 DEF IInv, Balanced, input, log, QuitsOnce, ExitTellsErrors, GivenBack,
            Counted, BelowSome
  <2> QED BY <2>3, <2>4
<1> QED BY <1>1, <1>2 DEF End

LEMMA NextIInv == IInv /\ [Next]_vars => IInv'
<1> SUFFICES ASSUME IInv, [Next]_vars
             PROVE  IInv'
  OBVIOUS
<1>1. CASE Next
  BY <1>1, LoopInv, InterpretInv, EndInv DEF Next
<1>2. CASE UNCHANGED vars
  BY <1>2 DEF IInv, Balanced, TypeOK, QuitsOnce, ExitTellsErrors, ErrorsAreLimited, GivenBack, Counted,
     BelowSome, vars, input, errors, log
<1> QED BY <1>1, <1>2

-----------------------------------------------------------------------------
LEMMA SpecIInv == Spec => []IInv
  BY InitIInv, NextIInv, PTL DEF Spec

\* Whatever is sourced, logged, timed or quit, at every moment each descriptor for
\* input and each block is that of a file on the stack (push_file, pop_file) or of
\* the lists; each one for a log file is that of logfile, or one that set_logfile
\* has written over.  Nothing is said once a closed log file has been written to.
THEOREM BalancedCorrect == Spec => []Balanced
<1>1. IInv => Balanced
  BY DEF IInv
<1> QED BY <1>1, SpecIInv, PTL

\* do_quit_cmd and finish_cmd together run the quit helpers at most once.
THEOREM QuitsOnceCorrect == Spec => []QuitsOnce
<1>1. IInv => QuitsOnce
  BY DEF IInv
<1> QED BY <1>1, SpecIInv, PTL

\* The exit status of main is 0 only after a run without errors that has given
\* everything back.
THEOREM ExitTellsErrorsCorrect == Spec => []ExitTellsErrors
<1>1. IInv => ExitTellsErrors
  BY DEF IInv
<1> QED BY <1>1, SpecIInv, PTL

\* record_error stops the interpreter before the errors pass every limit by more
\* than one timed command.
THEOREM ErrorsAreLimitedCorrect == Spec => []ErrorsAreLimited
<1>1. IInv => ErrorsAreLimited
  BY DEF IInv
<1> QED BY <1>1, SpecIInv, PTL
=============================================================================
