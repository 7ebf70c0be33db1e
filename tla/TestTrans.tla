------------------------------ MODULE TestTrans ------------------------------
(* cachelab/handout/test-trans.c: for each function of trans.c it has        *)
(* tracegen write a trace under valgrind and csim-ref count the misses, and  *)
(* at the end it prints one line for driver.py, which reads the first.       *)
(*                                                                           *)
(* tracegen and csim-ref are processes of their own, started through a       *)
(* shell: either may fail or be killed, the alarm may go off at any time,    *)
(* and what a timed-out run has left in the directory may still be there, or *)
(* still be at work.  Only the faults that function 0, the submission, meets *)
(* are kept in faults.  FlagsAny and NoAlarmInSim are not used: they are     *)
(* mistakes to try TLC on.                                                   *)
EXTENDS Transpose

VARIABLES shape,        \* M and N of the command line
          stage, f,
          results,
          trace,        \* the misses that csim-ref will count in trace.f<f>
          csim_results, \* the count in .csim_results
          leftover,     \* what an earlier run has left at work
          lines,        \* the TEST_TRANS_RESULTS lines
          counted,      \* auxiliary: the misses of the submission
          faults        \* auxiliary

test_vars == <<shape, stage, f, results, trace, csim_results, leftover, lines, counted, faults>>
eval_vars == <<tracegen_vars, test_vars>>

INT_MAX == 2147483647
None == -1
Partial == -2 \* some count of an incomplete or mixed trace
Earlier == -3 \* the count of an earlier run

func_counter == 2
submit == 0

EvalInit ==
  /\ Off
  /\ shape \in Shapes
  /\ stage = "next" /\ f = 0
  /\ results = [correct |-> 0, misses |-> INT_MAX]
  /\ trace = None /\ csim_results \in {None, Earlier}
  /\ leftover \in {"nothing", "tracegen", "csim-ref"}
  /\ lines = <<>> /\ counted = None /\ faults = {}

Fault(fault) == faults' = IF f = submit THEN faults \cup {fault} ELSE faults

TracegenEnds ==
  /\ M' = 0 /\ N' = 0 /\ fn' = 0 /\ B' = <<>>
  /\ rows' = 0 /\ cols' = 0 /\ x' = 0 /\ y' = 0 /\ temp' = 0 /\ i' = 0 /\ element' = 0
  /\ ahead' = <<>> /\ at' = "off"
  /\ EmptyCache

-----------------------------------------------------------------------------
\* system() starts tracegen for the next function, or the shell finds no valgrind.
starts_tracegen ==
  /\ stage = "next" /\ f < func_counter
  /\ main(shape, f) /\ stage' = "tracing"
  /\ UNCHANGED <<shape, f, results, trace, csim_results, leftover, lines, counted, faults>>

no_valgrind ==
  /\ stage = "next" /\ f < func_counter
  /\ f' = f + 1 /\ Fault("no valgrind")
  /\ UNCHANGED <<tracegen_vars, shape, stage, results, trace, csim_results, leftover,
                 lines, counted>>

traces == stage = "tracing" /\ tracegen /\ UNCHANGED test_vars

\* The exit status of tracegen.
Status == IF validate THEN 0 ELSE fn + 1

\* A status other than 0 skips the function.
tracegen_exits ==
  /\ stage = "tracing" /\ at = "exit"
  /\ counted' = IF f = submit THEN misses ELSE counted
  /\ IF Status = 0
     THEN /\ \/ trace' = misses /\ UNCHANGED faults
             \/ leftover = "tracegen" /\ trace' = Partial /\ Fault("leftover")
          /\ stage' = "traced" /\ UNCHANGED f
     ELSE stage' = "next" /\ f' = f + 1 /\ UNCHANGED <<trace, faults>>
  /\ TracegenEnds
  /\ UNCHANGED <<shape, results, csim_results, leftover, lines>>

\* WEXITSTATUS of what a signal has ended is 0: of tracegen, when the shell has
\* become it, and of a shell that is ended with it.  A shell that is still there
\* reports the signal in a status of its own.  When there is no .marker yet,
\* test-trans asserts.
tracegen_killed ==
  /\ stage = "tracing"
  /\ Fault("killed")
  /\ \/ /\ trace' = IF at = "exit" THEN misses ELSE Partial
        /\ stage' = "traced" \/ (hits + misses = 0 /\ stage' = "aborted")
        /\ UNCHANGED f
     \/ stage' = "next" /\ f' = f + 1 /\ UNCHANGED trace
  /\ TracegenEnds
  /\ UNCHANGED <<shape, results, csim_results, leftover, lines, counted>>

FlagsAny(r) == [r EXCEPT !.correct = 1]

\* The status was 0: the function is correct.
Correct(r) == IF f = submit THEN [r EXCEPT !.correct = 1] ELSE r

filters ==
  /\ stage = "traced"
  /\ results' = Correct(results) /\ stage' = "simulate"
  /\ UNCHANGED <<tracegen_vars, shape, f, trace, csim_results, leftover, lines,
                 counted, faults>>

\* csim-ref writes its file or, when it fails, does not; nobody looks.
csim_ref ==
  /\ stage = "simulate"
  /\ \/ csim_results' = trace /\ UNCHANGED faults
     \/ UNCHANGED csim_results /\ Fault("csim-ref failed")
  /\ stage' = "collect"
  /\ UNCHANGED <<tracegen_vars, shape, f, results, trace, leftover, lines, counted>>

collects ==
  /\ stage = "collect" /\ csim_results # None
  /\ results' = IF f = submit THEN [results EXCEPT !.misses = csim_results] ELSE results
  /\ trace' = None
  /\ stage' = "next" /\ f' = f + 1
  /\ UNCHANGED <<tracegen_vars, shape, csim_results, leftover, lines, counted, faults>>

collects_nothing ==
  /\ stage = "collect" /\ csim_results = None
  /\ stage' = "aborted"
  /\ UNCHANGED <<tracegen_vars, shape, f, results, trace, csim_results, leftover,
                 lines, counted, faults>>

\* The end of main.
summary ==
  /\ stage = "next" /\ f = func_counter
  /\ lines' = Append(lines, results) /\ stage' = "summary"
  /\ UNCHANGED <<tracegen_vars, shape, f, results, trace, csim_results, leftover,
                 counted, faults>>

main_returns ==
  /\ stage = "summary" /\ stage' = "exited"
  /\ UNCHANGED <<tracegen_vars, shape, f, results, trace, csim_results, leftover,
                 lines, counted, faults>>

-----------------------------------------------------------------------------
NoAlarmInSim == stage \notin {"exited", "aborted", "simulate"}
Running == stage \notin {"exited", "aborted"}

\* SIGALRM, 120 seconds after the start.
sigalrm_handler ==
  /\ Running
  /\ lines' = Append(lines, [correct |-> 0, misses |-> 0]) /\ stage' = "exited"
  /\ TracegenEnds
  /\ UNCHANGED <<shape, f, results, trace, csim_results, leftover, counted, faults>>

\* The process that an earlier run left at work ends, csim-ref with its file.  (A
\* tracegen that ends while another runs has done what it does when it ends after.)
leftover_ends ==
  /\ Running /\ leftover # "nothing" /\ (leftover = "tracegen" => stage # "tracing")
  /\ leftover' = "nothing"
  /\ IF leftover = "csim-ref" THEN csim_results' = Earlier /\ Fault("leftover")
                              ELSE UNCHANGED <<csim_results, faults>>
  /\ UNCHANGED <<tracegen_vars, shape, stage, f, results, trace, lines, counted>>

EvalNext ==
  \/ starts_tracegen \/ no_valgrind \/ traces
  \/ tracegen_exits \/ tracegen_killed \/ filters \/ csim_ref \/ collects \/ collects_nothing
  \/ summary \/ main_returns \/ sigalrm_handler \/ leftover_ends

\* The alarm goes off unless the program has ended; the children may hang.
EvalSpec == EvalInit /\ [][EvalNext]_eval_vars /\ WF_eval_vars(sigalrm_handler)

-----------------------------------------------------------------------------
ShapeIsGood == (shape[1] = 32 => shape[2] % 8 = 0) /\ (shape[1] = 64 => shape[2] % 4 = 0)

\* What driver.py reads is the truth about the submission.  A function is taken for
\* correct that is not, or was not validated, only when a signal ended tracegen or
\* the shell that ran it; a count that is not its own comes only
\* from that, from a csim-ref that failed or from a run that went before; and no
\* other fault, and nothing that happens to the other function, changes the line.
VerdictIsTrue ==
  lines # <<>> /\ lines[1] # [correct |-> 0, misses |-> 0] =>
    /\ lines[1].correct = 1 => ShapeIsGood \/ "killed" \in faults
    /\ lines[1].misses \notin {counted, INT_MAX} =>
         faults \cap {"killed", "csim-ref failed", "leftover"} # {}
    /\ faults = {} => lines[1] = IF ShapeIsGood THEN [correct |-> 1, misses |-> counted]
                                                  ELSE [correct |-> 0, misses |-> INT_MAX]

\* Every run comes to an end, with a line for driver.py or an assertion that has
\* failed, also when valgrind or csim-ref hangs.
EveryRunEnds == <>(stage = "aborted" \/ (stage = "exited" /\ lines # <<>>))
=============================================================================
