------------------------------ MODULE Console ------------------------------
(* The interpreter loop of queue/handout/console.c with the log file of      *)
(* report.c, as main of qtest.c starts and ends it: commands come from a     *)
(* stack of input files, errors are counted, and quit hands back what was    *)
(* taken.                                                                    *)
(*                                                                           *)
(* Input is any sequence of lines: a buffer is the number of complete lines  *)
(* in it, and a line is the command it is found to hold when it is run.  The *)
(* words of a line are freed where they are split, so that they are left     *)
(* out.  There is memory for every block.  Nothing here blocks the console:  *)
(* block_flag stays false.                                                   *)
(* KeepsBuffer, OnlyAtLimit, ForgetsFlag, CountsPlain and QuitsAgain are not *)
(* used: they are mistakes to try TLC on.                                    *)
EXTENDS Integers, Sequences

CONSTANTS MaxFiles,   \* descriptors the process can have for input and log files
          MaxLines,   \* bound on the complete lines in one buffer
          Limits,     \* error limits that "option error" sets
          MaxTimes,   \* bound on the "time" in front of a command
          ListBlocks, \* blocks in the lists of commands and parameters
          ErrLimit    \* the error limit at the start

ASSUME ConsoleAssumption ==
  /\ MaxFiles \in Nat \ {0} /\ MaxLines \in Nat /\ MaxTimes \in Nat /\ ListBlocks \in Nat
  /\ ErrLimit \in Limits \ {0} /\ Limits \subseteq Nat

VARIABLES
  buf_stack, \* the input files, the current one first: complete lines in the buffer
  fds,       \* descriptors open for input
  held,      \* blocks allocated through report.c
  cmd_list,  \* the lists of commands and parameters: "live" or "freed"
  err_cnt, err_limit, quit_flag,
  helpers,   \* how often the quit helpers have run
  logfile,   \* "none", "open", or "closed" with the pointer still set
  logs,      \* descriptors open for log files
  lost,      \* auxiliary: those of log files to which nothing points any more
  failed,    \* auxiliary: some command has returned false
  pc,        \* in cmd_select: "loop", "interpret" a line of its loop, or the "last"
             \* line; in run_console: "start", "back"; in main: "main"
  status     \* of the process: "running", "exit_0", "exit_1", "undefined"

errors == <<err_cnt, err_limit, quit_flag, failed>>
log == <<logfile, logs, lost>>
input == <<buf_stack, fds>>
vars == <<input, held, cmd_list, errors, helpers, log, pc, status>>

At(p) == status = "running" /\ pc = p

Init ==
  /\ buf_stack = <<>> /\ fds = 0 /\ held = ListBlocks /\ cmd_list = "live"
  /\ err_cnt = 0 /\ err_limit = ErrLimit /\ quit_flag = FALSE /\ failed = FALSE
  /\ helpers = 0 /\ logfile \in {"none", "open"} /\ logs = IF logfile = "open" THEN 1 ELSE 0
  /\ lost = 0 /\ pc = "start" /\ status = "running"

-----------------------------------------------------------------------------
CanOpen == fds + logs < MaxFiles

push_file ==
  /\ CanOpen
  /\ buf_stack' = <<0>> \o buf_stack /\ fds' = fds + 1 /\ held' = held + 1

KeepsBuffer ==
  /\ buf_stack' = Tail(buf_stack) /\ fds' = fds - 1 /\ UNCHANGED held

pop_file ==
  /\ buf_stack' = Tail(buf_stack) /\ fds' = fds - 1 /\ held' = held - 1

\* A command prints nothing, a report, or a warning or an error.  The latter
\* closes the log file and leaves the pointer to it, through which whatever is
\* printed next goes.
Talk == {"nothing", "report", "event"}

Says(talk) ==
  /\ logfile' = IF talk = "event" /\ logfile = "open" THEN "closed" ELSE logfile
  /\ logs' = IF talk = "event" /\ logfile = "open" THEN logs - 1 ELSE logs
  /\ UNCHANGED lost

\* set_logfile writes over the pointer to an open log file without closing it.
Overwrites == lost' = IF logfile = "open" THEN lost + 1 ELSE lost

\* The process when that is done.  A closed log file is written to by what is
\* printed later, perhaps by the same command; and the list of commands has
\* been read.
After(talk, next) ==
  \/ /\ cmd_list = "live" /\ (talk = "nothing" \/ logfile # "closed")
     /\ status' = next
  \/ /\ \/ cmd_list = "freed" \/ (talk # "nothing" /\ logfile = "closed")
        \/ talk = "event" /\ logfile = "open"
     /\ status' = "undefined"

\* The line that was read is printed, if the option echo is on.
Echo == status' = "running" \/ (logfile = "closed" /\ status' = "undefined")

OnlyAtLimit(count) == count = err_limit'
Exceeded(count) == count >= err_limit'

CountsPlain(ok, times) == IF ok \/ times > 0 THEN err_cnt ELSE err_cnt + 1

\* A command behind `times' words "time" has returned ok: each of the nested
\* calls of interpret_cmda records an error of its own.
Count(ok, times) == IF ok THEN err_cnt ELSE err_cnt + times + 1

record_errors(ok, times, quits) ==
  /\ err_cnt' = Count(ok, times)
  /\ quit_flag' = (quits \/ (~ok /\ Exceeded(Count(ok, times))))
  /\ failed' = (failed \/ ~ok)

-----------------------------------------------------------------------------
\* run_console opens the first file, or standard input.
start ==
  /\ At("start")
  /\ push_file
  /\ pc' = "loop"
  /\ UNCHANGED <<cmd_list, errors, helpers, log, status>>

start_fails ==
  /\ At("start")
  /\ status' = "exit_1"
  /\ UNCHANGED <<input, held, cmd_list, errors, helpers, log, pc>>

\* A complete line waits in the buffer of the current file.
read_ready == buf_stack # <<>> /\ Head(buf_stack) > 0

ForgetsFlag == buf_stack = <<>>
cmd_done == buf_stack = <<>> \/ quit_flag

readline ==
  /\ At("loop") /\ read_ready
  /\ buf_stack' = [buf_stack EXCEPT ![1] = @ - 1]
  /\ pc' = "interpret" /\ Echo
  /\ UNCHANGED <<fds, held, cmd_list, errors, helpers, log>>

\* No line is ready: select, and read on from the file.
read_on ==
  /\ At("loop") /\ ~read_ready /\ ~cmd_done
  /\ \E more \in 0..MaxLines : buf_stack' = [buf_stack EXCEPT ![1] = more]
  /\ pc' = "last" /\ Echo
  /\ UNCHANGED <<fds, held, cmd_list, errors, helpers, log>>

\* The end of the file, perhaps after a last line without its newline.
read_eof ==
  /\ At("loop") /\ ~read_ready /\ ~cmd_done
  /\ pop_file
  /\ \/ pc' = "back" /\ UNCHANGED status
     \/ pc' = "last" /\ Echo
  /\ UNCHANGED <<cmd_list, errors, helpers, log>>

\* cmd_select returns, at once or after its last line, and run_console calls it
\* again or returns too.
leave ==
  /\ At("back") \/ (At("loop") /\ ~read_ready /\ cmd_done)
  /\ pc' = IF cmd_done THEN "main" ELSE "loop"
  /\ UNCHANGED <<input, held, cmd_list, errors, helpers, log, status>>

-----------------------------------------------------------------------------
\* What cmd_select does with a line it has read.
Interpreting ==
  \/ At("interpret") /\ pc' = "loop"
  \/ At("last") /\ pc' = "back"

\* interpret_cmd does nothing with a line once the interpreter is to stop.
interpret_nothing ==
  /\ Interpreting /\ quit_flag
  /\ UNCHANGED <<input, held, cmd_list, errors, helpers, log, status>>

\* A line that is interpreted; `time' prints a report.
Interprets == Interpreting /\ ~quit_flag

\* A blank line, an unknown command, one that cannot open its file, or one that
\* is not about the interpreter.
any_cmd(ok, talk, times) ==
  /\ Interprets
  /\ UNCHANGED err_limit
  /\ record_errors(ok, times, FALSE) /\ Says(talk) /\ After(talk, "running")
  /\ UNCHANGED <<input, held, cmd_list, helpers>>

\* The limit is set even when a later argument of the command is wrong.
do_option_cmd(limit, ok, talk, times) ==
  /\ Interprets
  /\ err_limit' = limit
  /\ record_errors(ok, times, FALSE) /\ Says(talk) /\ After(talk, "running")
  /\ UNCHANGED <<input, held, cmd_list, helpers>>

do_source_cmd(talk) ==
  /\ Interprets
  /\ push_file
  /\ Says(talk) /\ After(talk, "running")
  /\ UNCHANGED <<cmd_list, errors, helpers>>

do_log_cmd ==
  /\ Interprets /\ CanOpen
  /\ logfile' = "open" /\ logs' = logs + 1 /\ Overwrites /\ After("nothing", "running")
  /\ UNCHANGED <<input, held, cmd_list, errors, helpers>>

log_fails(times) ==
  /\ Interprets
  /\ UNCHANGED err_limit
  /\ logfile' = "none" /\ Overwrites /\ record_errors(FALSE, times, FALSE) /\ After("nothing", "running")
  /\ UNCHANGED <<input, held, cmd_list, helpers, logs>>

\* Everything is given back; the lists are freed and the pointers to them kept.
do_quit(talk) ==
  /\ buf_stack' = <<>> /\ fds' = fds - Len(buf_stack)
  /\ held' = held - Len(buf_stack) - ListBlocks
  /\ cmd_list' = "freed"
  /\ helpers' = helpers + 1
  /\ Says(talk)

do_quit_cmd(ok, talk, times) ==
  /\ Interprets
  /\ UNCHANGED err_limit
  /\ do_quit(talk) /\ record_errors(ok, times, TRUE) /\ After(talk, "running")

-----------------------------------------------------------------------------
QuitsAgain == TRUE
NeedsQuit == ~quit_flag

\* After run_console: an error ends the process as it is.
main_fails ==
  /\ At("main") /\ err_cnt # 0
  /\ status' = "exit_1"
  /\ UNCHANGED <<input, held, cmd_list, errors, helpers, log, pc>>

finish_cmd(ok, talk) ==
  /\ At("main") /\ err_cnt = 0
  /\ \/ /\ NeedsQuit
        /\ do_quit(talk) /\ After(talk, IF ok THEN "exit_0" ELSE "exit_1")
        /\ failed' = (failed \/ ~ok) /\ quit_flag' = TRUE
     \/ /\ ~NeedsQuit
        /\ status' = "exit_0"
        /\ UNCHANGED <<input, held, cmd_list, helpers, log, failed, quit_flag>>
  /\ UNCHANGED <<err_cnt, err_limit, pc>>

Loop == readline \/ read_on \/ read_eof \/ leave \/ interpret_nothing

Interpret ==
  \/ \E talk \in Talk, times \in 0..MaxTimes, ok \in BOOLEAN :
       \/ any_cmd(ok, talk, times) \/ do_quit_cmd(ok, talk, times)
       \/ \E limit \in Limits : do_option_cmd(limit, ok, talk, times)
  \/ \E talk \in {"nothing", "report"} : do_source_cmd(talk)
  \/ do_log_cmd
  \/ \E times \in 0..MaxTimes : log_fails(times)

End == main_fails \/ \E ok \in BOOLEAN, talk \in Talk : finish_cmd(ok, talk)

Next == start \/ start_fails \/ Loop \/ Interpret \/ End

Spec == Init /\ [][Next]_vars

\* One process runs the interpreter; that a line ever comes is not its doing,
\* and a line that is there is interpreted.
FairSpec ==
  Spec /\ WF_vars(readline) /\ WF_vars(leave) /\ WF_vars(interpret_nothing) /\ WF_vars(End)

-----------------------------------------------------------------------------
\* The variables have the types of the C program, and no more descriptors are
\* open than there are.
TypeOK ==
  /\ buf_stack \in Seq(0..MaxLines)
  /\ {fds, held, logs, lost, helpers, err_cnt} \subseteq Nat /\ fds + logs <= MaxFiles
  /\ err_limit \in Limits
  /\ quit_flag \in BOOLEAN /\ failed \in BOOLEAN
  /\ cmd_list \in {"live", "freed"} /\ logfile \in {"none", "open", "closed"}
  /\ pc \in {"start", "loop", "interpret", "last", "back", "main"}
  /\ status \in {"running", "exit_0", "exit_1", "undefined"}

\* In every nesting of sourced files, each descriptor open for input and each
\* block is that of a file on the stack, or of the lists while they are there.
\* Each descriptor open for a log file is that of logfile, but for those that a
\* log command has written over (report.c:53), which nothing closes any more.
Balanced ==
  /\ TypeOK
  /\ status # "undefined" =>
       /\ fds = Len(buf_stack)
       /\ held = Len(buf_stack) + (IF cmd_list = "live" THEN ListBlocks ELSE 0)
       /\ logs = lost + (IF logfile = "open" THEN 1 ELSE 0)

\* quit, timed or not, in whatever file, and the end of main never free the
\* lists twice, run the quit helpers twice or look a command up in freed lists.
QuitsOnce ==
  /\ helpers <= 1 /\ (helpers = 1 <=> cmd_list = "freed")
  /\ status = "undefined" => logfile = "closed"

\* A process that ends well has had no failure, has closed its input files, freed
\* its blocks and run the quit helpers; one that ends badly has failed somewhere.
ExitTellsErrors ==
  /\ status = "exit_0" => ~failed /\ fds = 0 /\ held = 0 /\ helpers = 1
  /\ status = "exit_1" => failed \/ pc = "start"

\* However the limit is moved about and however errors are nested, the errors
\* recorded never get past the largest limit by more than one timed command.
ErrorsAreLimited == \E limit \in Limits : err_cnt <= limit + MaxTimes

\* Once it is to stop, the interpreter stops, though the loop of cmd_select first
\* goes through the lines that wait in its buffer.
StopEnds == quit_flag ~> status # "running"
=============================================================================
