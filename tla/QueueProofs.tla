---------------------------- MODULE QueueProofs ----------------------------
(* What holds of the queue for any number of blocks, values and repetitions: *)
(* wherever alarms fall, the variables keep their types, no alarm is pending *)
(* between commands, and only q_insert_tail breaks the list; without alarms, *)
(* the blocks and the counters agree and Queue implements Fifo.              *)
EXTENDS Queue, FiniteSetTheorems, SequenceTheorems, WellFoundedInduction, TLAPS

-----------------------------------------------------------------------------
(* With alarms.                                                              *)

Cmds == {"new", "free", "ih", "it", "rh", "other", "reverse", "quit"}

Pcs == {"prompt", "malloc", "count", "new_queue", "insert", "link_head", "head_tail", "head_head",
        "link_tail", "tail_tail", "tail_head", "tail_element", "grow", "remove", "unlink", "free",
        "uncount", "shrink", "free_queue", "free_next", "returned", "show"}

\* The statements of each command.
Statements ==
  /\ run.cmd = "none" => run.pc = "prompt"
  /\ run.cmd = "new" => run.pc \in {"malloc", "count", "new_queue", "returned", "show"}
  /\ run.cmd = "ih" => run.pc \in {"insert", "malloc", "count", "link_head", "head_tail", "head_head",
                                   "grow", "returned", "show"}
  /\ run.cmd = "it" => run.pc \in {"insert", "malloc", "count", "link_tail", "tail_tail", "tail_head",
                                   "tail_element", "grow", "returned", "show"}
  /\ run.cmd = "rh" => run.pc \in {"remove", "unlink", "free", "uncount", "shrink", "returned", "show"}
  /\ run.cmd = "free" => run.pc \in {"free_queue", "uncount", "free_next", "free", "returned", "show"}
  /\ run.cmd = "quit" => run.pc \in {"free_queue", "uncount", "free_next", "free", "returned"}
  /\ run.cmd \in {"other", "reverse"} => run.pc \in {"returned", "show"}

\* At these statements run.blk is a block.
Pointing == {"count", "new_queue", "link_head", "head_tail", "head_head", "link_tail", "tail_tail",
             "tail_head", "tail_element", "grow", "unlink", "free"}

Run == [cmd : Cmds \cup {"none"}, pc : Pcs, v : Values \cup {FILL}, reps : 0..MaxReps,
        blk : Blocks \cup {NULL}, tmp : Pointer, rval : BOOLEAN, renew : BOOLEAN]

RunOK ==
  /\ run \in Run
  /\ Statements
  /\ run.pc \in Pointing => run.blk \in Blocks
  /\ run.cmd = "new" /\ run.pc = "returned" /\ run.rval => run.blk \in Blocks

\* What a statement relies on that the statements before it have done.
Prepared ==
  /\ run.cmd = "new" /\ run.pc # "show" => q = NULL
  /\ run.cmd = "new" /\ run.pc = "returned" /\ run.rval => head = NULL
  /\ run.pc \in {"count", "link_head"} => run.blk \in allocated /\ next[run.blk] = FILL
  /\ run.pc \in {"head_tail", "head_head"} => run.blk \in allocated /\ next[run.blk] = head
  /\ run.pc = "unlink" => run.blk = head
  /\ run.cmd = "rh" /\ run.pc = "free" => next[run.blk] = head

\* The alarm is set from the first statement of a command to its last.
Timed == run.pc \in {"prompt", "show"} => ~jmp_ready /\ ~time_limited

AInv == TypeOK /\ RunOK /\ Prepared /\ Timed

LEMMA CountersFit == SizeT \in Nat /\ Cardinality(Blocks) \in Nat /\ Cardinality(Blocks) + 1 <= SizeT
BY QueueAssumption, FS_CardinalityType

LEMMA AInvInit == Init => AInv
<1> SUFFICES ASSUME Init
             PROVE  AInv
  OBVIOUS
<1>1. TypeOK
  <2>1. NULL \in Pointer /\ 0 \in 0..(SizeT - 1)
    BY CountersFit DEF Pointer
  <2>2. jmp_ready \in BOOLEAN /\ time_limited \in BOOLEAN
    BY DEF Init
  <2>3. QED
    BY <2>1, <2>2 DEF Init, TypeOK
<1>2. RunOK
  <2>1. FILL \in Pointer /\ NULL \in Pointer /\ 0 \in 0..MaxReps
    BY QueueAssumption DEF Pointer
  <2>2. QED
    BY <2>1 DEF Init, RunOK, Run, Run, Statements, Prompt, Pointing, Cmds, Pcs
<1>3. Prepared /\ Timed
  BY DEF Init, Prepared, Timed, Prompt
<1>4. QED
  BY <1>1, <1>2, <1>3 DEF AInv

LEMMA BeginKeeps ==
  ASSUME AInv, jmp_ready' = TRUE, time_limited' = TRUE, UNCHANGED <<queue, qcnt, memory, status>>,
         run' \in Run, Statements', run'.cmd = "new" => q = NULL, run'.pc = "returned" => run'.cmd # "new",
         run'.pc \in {"malloc", "free_queue", "insert", "remove", "returned"}
  PROVE  AInv'
<1>1. TypeOK'
  <2>1. jmp_ready' \in BOOLEAN /\ time_limited' \in BOOLEAN
    OBVIOUS
  <2>2. QED
    BY <2>1 DEF queue, memory, AInv, TypeOK
<1>2. RunOK'
  BY DEF RunOK, Pointing
<1>3. Prepared'
  BY DEF Prepared, queue
<1>4. Timed'
  BY DEF Timed
<1>5. QED
  BY <1>1, <1>2, <1>3, <1>4 DEF AInv

LEMMA CancelTypes == exception_cancel \/ Exception => jmp_ready' \in BOOLEAN /\ time_limited' \in BOOLEAN
BY DEF exception_cancel, Exception

LEMMA PromptIsRun == Prompt \in Run
BY QueueAssumption DEF Prompt, Run, Pointer, Pcs, Cmds

LEMMA CommandKeeps == AInv /\ Command => AInv'
<1> SUFFICES ASSUME AInv, Command
             PROVE  AInv'
  OBVIOUS
<1> USE DEF Run, Cmds, Pcs, Statements
<1>0. FILL \in Values \cup {FILL} /\ 0 \in 0..MaxReps /\ NULL \in Pointer
  BY QueueAssumption DEF Pointer
<1>1. CASE do_new
  <2>1. run' = [cmd |-> "new", pc |-> "malloc", v |-> FILL, reps |-> 0, blk |-> NULL, tmp |-> NULL,
                rval |-> FALSE, renew |-> FALSE]
    BY <1>1 DEF do_new, Begin, Prompt
  <2>2. run' \in Run /\ Statements'
    BY <2>1, <1>0
  <2>3. jmp_ready' = TRUE /\ time_limited' = TRUE /\ UNCHANGED <<queue, qcnt, memory, status>>
    BY <1>1 DEF do_new, Begin
  <2>4. QED
    BY <1>1, <2>1, <2>2, <2>3, BeginKeeps DEF do_new
<1>2. CASE do_free
  <2>1. run' = [cmd |-> "free", pc |-> "free_queue", v |-> FILL, reps |-> 0, blk |-> NULL, tmp |-> NULL,
                rval |-> FALSE, renew |-> FALSE]
    BY <1>2 DEF do_free, Begin, Prompt
  <2>2. run' \in Run /\ Statements'
    BY <2>1, <1>0
  <2>3. jmp_ready' = TRUE /\ time_limited' = TRUE /\ UNCHANGED <<queue, qcnt, memory, status>>
    BY <1>2 DEF do_free, Begin
  <2>4. QED
    BY <1>2, <2>1, <2>2, <2>3, BeginKeeps DEF do_free
<1>3. CASE do_remove_head
  <2>1. run' = [cmd |-> "rh", pc |-> "remove", v |-> FILL, reps |-> 0, blk |-> NULL, tmp |-> NULL,
                rval |-> FALSE, renew |-> FALSE]
    BY <1>3 DEF do_remove_head, Begin, Prompt
  <2>2. run' \in Run /\ Statements'
    BY <2>1, <1>0
  <2>3. jmp_ready' = TRUE /\ time_limited' = TRUE /\ UNCHANGED <<queue, qcnt, memory, status>>
    BY <1>3 DEF do_remove_head, Begin
  <2>4. QED
    BY <1>3, <2>1, <2>2, <2>3, BeginKeeps DEF do_remove_head
<1>4. CASE do_size \/ do_reverse
  <2>1. PICK cmd \in {"other", "reverse"} :
          run' = [cmd |-> cmd, pc |-> "returned", v |-> FILL, reps |-> 0, blk |-> NULL, tmp |-> NULL,
                  rval |-> FALSE, renew |-> FALSE]
    BY <1>4 DEF do_size, do_reverse, Begin, Prompt
  <2>2. run' \in Run /\ Statements'
    BY <2>1, <1>0
  <2>3. jmp_ready' = TRUE /\ time_limited' = TRUE /\ UNCHANGED <<queue, qcnt, memory, status>>
    BY <1>4 DEF do_size, do_reverse, Begin
  <2>4. QED
    BY <1>4, <2>1, <2>2, <2>3, BeginKeeps DEF do_size, do_reverse
<1>5. CASE queue_quit
  <2>1. run' = [cmd |-> "quit", pc |-> "free_queue", v |-> FILL, reps |-> 0, blk |-> NULL, tmp |-> NULL,
                rval |-> FALSE, renew |-> FALSE]
    BY <1>5 DEF queue_quit, Begin, Prompt
  <2>2. run' \in Run /\ Statements'
    BY <2>1, <1>0
  <2>3. jmp_ready' = TRUE /\ time_limited' = TRUE /\ UNCHANGED <<queue, qcnt, memory, status>>
    BY <1>5 DEF queue_quit, Begin
  <2>4. QED
    BY <1>5, <2>1, <2>2, <2>3, BeginKeeps DEF queue_quit
<1>6. CASE do_new_frees
  <2>1. run' = [cmd |-> "free", pc |-> "free_queue", v |-> FILL, reps |-> 0, blk |-> NULL, tmp |-> NULL,
                rval |-> FALSE, renew |-> TRUE]
    BY <1>6 DEF do_new_frees, Begin, Prompt
  <2>2. run' \in Run /\ Statements'
    BY <2>1, <1>0
  <2>3. jmp_ready' = TRUE /\ time_limited' = TRUE /\ UNCHANGED <<queue, qcnt, memory, status>>
    BY <1>6 DEF do_new_frees, Begin
  <2>4. QED
    BY <1>6, <2>1, <2>2, <2>3, BeginKeeps DEF do_new_frees
<1>7. ASSUME NEW v \in Values, NEW reps \in 1..MaxReps, do_insert_head(v, reps) \/ do_insert_tail(v, reps)
      PROVE  AInv'
  <2>1. PICK cmd \in {"ih", "it"} :
          run' = [cmd |-> cmd, pc |-> "insert", v |-> v, reps |-> reps, blk |-> NULL, tmp |-> NULL,
                  rval |-> FALSE, renew |-> FALSE]
    BY <1>7 DEF do_insert_head, do_insert_tail, Begin, Prompt
  <2>2. run' \in Run /\ Statements'
    BY <2>1, <1>0, QueueAssumption
  <2>3. jmp_ready' = TRUE /\ time_limited' = TRUE /\ UNCHANGED <<queue, qcnt, memory, status>>
    BY <1>7 DEF do_insert_head, do_insert_tail, Begin
  <2>4. QED
    BY <2>1, <2>2, <2>3, BeginKeeps
<1>8. QED
  BY <1>1, <1>2, <1>3, <1>4, <1>5, <1>6, <1>7 DEF Command

LEMMA AInvStep == AInv /\ [Work \/ sigalrmhandler]_program => AInv'
<1> SUFFICES ASSUME AInv, [Work \/ sigalrmhandler]_program
             PROVE  AInv'
  OBVIOUS
<1> USE QueueAssumption DEF AInv, At, queue, memory, harness,
        RunOK, Run, Statements, Prepared, Timed, Cmds, Pcs, Pointing, Pointer
<1>1. CASE UNCHANGED program
  BY <1>1 DEF program, TypeOK
<1>2. CASE malloc_fails
  BY <1>2 DEF malloc_fails, Return, Goto, TypeOK
<1>3. CASE malloc
  <2>1. jmp_ready' \in BOOLEAN /\ time_limited' \in BOOLEAN
    BY <1>3, CancelTypes DEF malloc, TypeOK
  <2>2. TypeOK'
    BY <1>3, <2>1 DEF malloc, Return, Goto, TypeOK
  <2>3. RunOK'
    BY <1>3, PromptIsRun, ZenonT(60) DEF malloc, Return, Goto, TypeOK
  <2>4. Prepared' /\ Timed'
    BY <1>3 DEF malloc, Return, Goto, TypeOK
  <2>5. QED
    BY <2>2, <2>3, <2>4 DEF AInv
<1>4. CASE count
  BY <1>4, CountersFit DEF count, Up, Return, Goto, TypeOK
<1>5. CASE new_queue
  <2>1. jmp_ready' \in BOOLEAN /\ time_limited' \in BOOLEAN
    BY <1>5, CancelTypes DEF new_queue, TypeOK
  <2>2. TypeOK'
    BY <1>5, <2>1, CountersFit DEF new_queue, Return, Goto, TypeOK
  <2>3. RunOK'
    BY <1>5, PromptIsRun DEF new_queue, Return, Goto, TypeOK
  <2>4. Prepared' /\ Timed'
    BY <1>5 DEF new_queue, Return, Goto, TypeOK
  <2>5. QED
    BY <2>2, <2>3, <2>4 DEF AInv
<1>6. CASE insert
  <2>1. CASE q = NULL
    <3>1. run' = [run EXCEPT !.pc = "returned", !.rval = FALSE]
      BY <1>6, <2>1 DEF insert, Return, Goto
    <3>2. jmp_ready' \in BOOLEAN /\ time_limited' \in BOOLEAN
      BY <1>6, <2>1, CancelTypes DEF insert, TypeOK
    <3>3. TypeOK'
      BY <1>6, <2>1, <3>2 DEF insert, TypeOK
    <3>4. run' \in Run
      BY <1>6, <2>1, <3>1, PromptIsRun DEF insert, TypeOK
    <3>5. RunOK'
      BY <1>6, <2>1, <3>1, <3>4 DEF insert, Prompt, TypeOK, Bad
    <3>6. Prepared' /\ Timed'
      BY <1>6, <2>1, <3>1 DEF insert, Prompt, TypeOK
    <3>7. QED
      BY <3>3, <3>5, <3>6
  <2>2. CASE q # NULL
    <3>1. run' = [run EXCEPT !.pc = "malloc"]
      BY <1>6, <2>2 DEF insert, Return, Goto
    <3>2. jmp_ready' \in BOOLEAN /\ time_limited' \in BOOLEAN
      BY <1>6, <2>2, CancelTypes DEF insert, TypeOK
    <3>3. TypeOK'
      BY <1>6, <2>2, <3>2 DEF insert, TypeOK
    <3>4. run' \in Run
      BY <1>6, <2>2, <3>1, PromptIsRun DEF insert, TypeOK
    <3>5. RunOK'
      BY <1>6, <2>2, <3>1, <3>4 DEF insert, Prompt, TypeOK, Bad
    <3>6. Prepared' /\ Timed'
      BY <1>6, <2>2, <3>1 DEF insert, Prompt, TypeOK
    <3>7. QED
      BY <3>3, <3>5, <3>6
  <2>3. QED
    BY <1>6, <2>1, <2>2 DEF insert, Return, Goto
<1>7. CASE link_head
  BY <1>7 DEF link_head, Return, Goto, TypeOK
<1>8. CASE head_tail
  BY <1>8 DEF head_tail, Return, Goto, TypeOK
<1>9. CASE head_head
  BY <1>9 DEF head_head, Return, Goto, TypeOK
<1>10. CASE link_tail
  BY <1>10 DEF link_tail, Return, Goto, TypeOK
<1>11. CASE tail_tail
  BY <1>11 DEF tail_tail, Return, Goto, TypeOK
<1>12. CASE tail_head
  BY <1>12 DEF tail_head, Return, Goto, TypeOK
<1>13. CASE tail_element
  BY <1>13 DEF tail_element, Return, Goto, TypeOK
<1>14. CASE grow
  <2>1. jmp_ready' \in BOOLEAN /\ time_limited' \in BOOLEAN
    BY <1>14, CancelTypes DEF grow, TypeOK
  <2>2. TypeOK'
    BY <1>14, <2>1, CountersFit DEF grow, Up, Return, Goto, TypeOK
  <2>3. RunOK'
    BY <1>14, PromptIsRun DEF grow, Up, Return, Goto, TypeOK
  <2>4. Prepared' /\ Timed'
    BY <1>14 DEF grow, Up, Return, Goto, TypeOK
  <2>5. QED
    BY <2>2, <2>3, <2>4 DEF AInv
<1>15. CASE remove
  <2>1. CASE q # NULL /\ head = NULL
    <3>1. run' = [run EXCEPT !.pc = "returned", !.rval = FALSE]
      BY <1>15, <2>1 DEF remove, Exception, Bad, Return, Goto
    <3>2. jmp_ready' \in BOOLEAN /\ time_limited' \in BOOLEAN
      BY <1>15, <2>1, CancelTypes DEF remove, TypeOK
    <3>8. UNCHANGED <<queue, qcnt, memory, status>>
      BY <1>15, <2>1 DEF remove, Exception, Bad
    <3>3. TypeOK'
      BY <3>2, <3>8 DEF TypeOK, queue, memory
    <3>4. run' \in Run
      BY <1>15, <2>1, <3>1, PromptIsRun DEF remove, Bad, TypeOK
    <3>5. RunOK'
      BY <1>15, <2>1, <3>1, <3>4 DEF remove, Prompt, TypeOK, Bad
    <3>6. Prepared' /\ Timed'
      BY <1>15, <2>1, <3>1 DEF remove, Exception, Bad, Prompt, TypeOK
    <3>7. QED
      BY <3>3, <3>5, <3>6
  <2>2. CASE q # NULL /\ ~Bad(head)
    <3>1. run' = [run EXCEPT !.blk = head, !.pc = "unlink"]
      BY <1>15, <2>2 DEF remove, Exception, Bad, Return, Goto
    <3>2. UNCHANGED <<queue, qcnt, memory, harness, status>>
      BY <1>15, <2>2 DEF remove, Exception, Bad
    <3>3. TypeOK'
      BY <3>2 DEF TypeOK
    <3>4. run' \in Run
      BY <1>15, <2>2, <3>1, PromptIsRun DEF remove, Bad, TypeOK
    <3>5. RunOK'
      BY <1>15, <2>2, <3>1, <3>4 DEF remove, Prompt, TypeOK, Bad
    <3>6. Prepared' /\ Timed'
      BY <1>15, <2>2, <3>1 DEF remove, Exception, Bad, Prompt, TypeOK
    <3>7. QED
      BY <3>3, <3>5, <3>6
  <2>3. CASE q = NULL \/ head = FILL
    <3>1. run' = [run EXCEPT !.pc = "returned", !.rval = FALSE]
      BY <1>15, <2>3 DEF remove, Exception, Bad, Return, Goto
    <3>2. jmp_ready' \in BOOLEAN /\ time_limited' \in BOOLEAN
      BY <1>15, <2>3, CancelTypes DEF remove, TypeOK
    <3>8. UNCHANGED <<queue, qcnt, memory, status>>
      BY <1>15, <2>3 DEF remove, Exception, Bad
    <3>3. TypeOK'
      BY <3>2, <3>8 DEF TypeOK, queue, memory
    <3>4. run' \in Run
      BY <1>15, <2>3, <3>1, PromptIsRun DEF remove, Bad, TypeOK
    <3>5. RunOK'
      BY <1>15, <2>3, <3>1, <3>4 DEF remove, Prompt, TypeOK, Bad
    <3>6. Prepared' /\ Timed'
      BY <1>15, <2>3, <3>1 DEF remove, Exception, Bad, Prompt, TypeOK
    <3>7. QED
      BY <3>3, <3>5, <3>6
  <2>4. QED
    BY <1>15, <2>1, <2>2, <2>3 DEF remove
<1>16. CASE unlink
  BY <1>16 DEF unlink, Return, Goto, TypeOK
<1>17. CASE free
  BY <1>17 DEF free, test_free, Return, Goto, TypeOK
<1>18. CASE uncount
  BY <1>18, CountersFit DEF uncount, Down, Return, Goto, TypeOK
<1>19. CASE shrink
  <2>1. jmp_ready' \in BOOLEAN /\ time_limited' \in BOOLEAN
    BY <1>19, CancelTypes DEF shrink, TypeOK
  <2>2. TypeOK'
    BY <1>19, <2>1, CountersFit DEF shrink, Down, Return, Goto, TypeOK
  <2>3. RunOK'
    BY <1>19, PromptIsRun DEF shrink, Down, Return, Goto, TypeOK
  <2>4. Prepared' /\ Timed'
    BY <1>19 DEF shrink, Down, Return, Goto, TypeOK
  <2>5. QED
    BY <2>2, <2>3, <2>4 DEF AInv
<1>20. CASE free_queue
  <2>1. CASE q = NULL
    <3>1. run' = [run EXCEPT !.pc = "returned", !.rval = TRUE]
      BY <1>20, <2>1 DEF free_queue, test_free, Return, Goto
    <3>2. jmp_ready' \in BOOLEAN /\ time_limited' \in BOOLEAN
      BY <1>20, <2>1, CancelTypes DEF free_queue, TypeOK
    <3>3. TypeOK'
      BY <1>20, <2>1, <3>2 DEF free_queue, test_free, TypeOK
    <3>4. run' \in Run
      BY <1>20, <2>1, <3>1, PromptIsRun DEF free_queue, TypeOK
    <3>5. RunOK'
      BY <1>20, <2>1, <3>1, <3>4 DEF free_queue, Prompt, TypeOK, Bad
    <3>6. Prepared' /\ Timed'
      BY <1>20, <2>1, <3>1 DEF free_queue, test_free, Prompt, TypeOK
    <3>7. QED
      BY <3>3, <3>5, <3>6
  <2>2. CASE q # NULL
    <3>1. run' = [run EXCEPT !.tmp = head, !.pc = "uncount"]
      BY <1>20, <2>2 DEF free_queue, test_free, Return, Goto
    <3>2. jmp_ready' \in BOOLEAN /\ time_limited' \in BOOLEAN
      BY <1>20, <2>2, CancelTypes DEF free_queue, TypeOK
    <3>3. TypeOK'
      <4>1. UNCHANGED <<queue, qcnt>> /\ test_free(q) /\ q \in Blocks
        BY <1>20, <2>2 DEF free_queue, TypeOK
      <4>2. QED
        BY <3>2, <4>1 DEF test_free, TypeOK
    <3>4. run' \in Run
      BY <1>20, <2>2, <3>1, PromptIsRun DEF free_queue, TypeOK
    <3>5. RunOK'
      BY <1>20, <2>2, <3>1, <3>4 DEF free_queue, Prompt, TypeOK, Bad
    <3>6. Prepared' /\ Timed'
      BY <1>20, <2>2, <3>1 DEF free_queue, test_free, Prompt, TypeOK
    <3>7. QED
      BY <3>3, <3>5, <3>6
  <2>3. QED
    BY <1>20, <2>1, <2>2 DEF free_queue, test_free, Return, Goto
<1>21. CASE free_next
  <2>1. CASE run.tmp = NULL
    <3>1. run' = [run EXCEPT !.pc = "returned", !.rval = TRUE]
      BY <1>21, <2>1 DEF free_next, Exception, Bad, Return, Goto
    <3>2. jmp_ready' \in BOOLEAN /\ time_limited' \in BOOLEAN
      BY <1>21, <2>1, CancelTypes DEF free_next, TypeOK
    <3>3. TypeOK'
      <4>1. UNCHANGED <<queue, qcnt, memory, status>>
        BY <1>21, <2>1 DEF free_next, Exception
      <4>2. QED
        BY <3>2, <4>1 DEF TypeOK
    <3>4. run' \in Run
      BY <1>21, <2>1, <3>1, PromptIsRun, ZenonT(60) DEF free_next, Bad, TypeOK
    <3>5. RunOK'
      BY <1>21, <2>1, <3>1, <3>4 DEF free_next, Prompt, TypeOK, Bad
    <3>6. Prepared' /\ Timed'
      BY <1>21, <2>1, <3>1 DEF free_next, Exception, Bad, Prompt, TypeOK
    <3>7. QED
      BY <3>3, <3>5, <3>6
  <2>2. CASE run.tmp = FILL
    <3>1. run' = [run EXCEPT !.pc = "returned", !.rval = FALSE]
      BY <1>21, <2>2 DEF free_next, Exception, Bad, Return, Goto
    <3>2. jmp_ready' \in BOOLEAN /\ time_limited' \in BOOLEAN
      BY <1>21, <2>2, CancelTypes DEF free_next, TypeOK
    <3>3. TypeOK'
      <4>1. UNCHANGED <<queue, qcnt, memory, status>>
        BY <1>21, <2>2 DEF free_next, Exception
      <4>2. QED
        BY <3>2, <4>1 DEF TypeOK
    <3>4. run' \in Run
      BY <1>21, <2>2, <3>1, PromptIsRun, ZenonT(60) DEF free_next, Bad, TypeOK
    <3>5. RunOK'
      BY <1>21, <2>2, <3>1, <3>4 DEF free_next, Prompt, TypeOK, Bad
    <3>6. Prepared' /\ Timed'
      BY <1>21, <2>2, <3>1 DEF free_next, Exception, Bad, Prompt, TypeOK
    <3>7. QED
      BY <3>3, <3>5, <3>6
  <2>3. CASE ~Bad(run.tmp)
    <3>1. run' = [run EXCEPT !.blk = run.tmp, !.tmp = next[run.tmp], !.pc = "free"]
      BY <1>21, <2>3 DEF free_next, Exception, Bad, Return, Goto
    <3>2. jmp_ready' \in BOOLEAN /\ time_limited' \in BOOLEAN
      BY <1>21, <2>3, CancelTypes DEF free_next, TypeOK
    <3>3. TypeOK'
      <4>1. UNCHANGED <<queue, qcnt, memory, status>>
        BY <1>21, <2>3 DEF free_next, Exception
      <4>2. QED
        BY <3>2, <4>1 DEF TypeOK
    <3>4. run' \in Run
      BY <1>21, <2>3, <3>1, PromptIsRun DEF free_next, Bad, TypeOK
    <3>5. RunOK'
      BY <1>21, <2>3, <3>1, <3>4 DEF free_next, Prompt, TypeOK, Bad
    <3>6. Prepared' /\ Timed'
      BY <1>21, <2>3, <3>1 DEF free_next, Exception, Bad, Prompt, TypeOK
    <3>7. QED
      BY <3>3, <3>5, <3>6
  <2>4. QED
    BY <1>21, <2>1, <2>2, <2>3 DEF free_next, Exception, Bad, Return, Goto
<1>22. CASE new_returned
  <2>1. jmp_ready' \in BOOLEAN /\ time_limited' \in BOOLEAN
    BY <1>22, CancelTypes DEF new_returned, TypeOK
  <2>2. TypeOK'
    BY <1>22, <2>1, CountersFit DEF new_returned, exception_cancel, Return, Goto, TypeOK
  <2>3. RunOK'
    BY <1>22, PromptIsRun DEF new_returned, exception_cancel, Return, Goto, TypeOK
  <2>4. Prepared' /\ Timed'
    BY <1>22 DEF new_returned, exception_cancel, Return, Goto, TypeOK
  <2>5. QED
    BY <2>2, <2>3, <2>4 DEF AInv
<1>23. CASE free_returned
  <2>1. CASE run.renew
    <3>1. run' = [Prompt EXCEPT !.cmd = "new", !.pc = "malloc"]
      BY <1>23, <2>1 DEF free_returned, exception_cancel, Prompt, Return, Goto
    <3>2. jmp_ready' \in BOOLEAN /\ time_limited' \in BOOLEAN
      BY <1>23, <2>1, CancelTypes DEF free_returned, TypeOK
    <3>3. TypeOK'
      BY <1>23, <2>1, <3>2, CountersFit DEF free_returned, exception_cancel, Prompt, TypeOK
    <3>4. run' \in Run
      BY <1>23, <2>1, <3>1, PromptIsRun DEF free_returned, TypeOK
    <3>5. RunOK'
      BY <1>23, <2>1, <3>1, <3>4 DEF free_returned, Prompt, TypeOK, Bad
    <3>6. Prepared' /\ Timed'
      BY <1>23, <2>1, <3>1 DEF free_returned, exception_cancel, Prompt, Prompt, TypeOK
    <3>7. QED
      BY <3>3, <3>5, <3>6
  <2>2. CASE ~run.renew
    <3>1. run' = [run EXCEPT !.pc = "show"]
      BY <1>23, <2>2 DEF free_returned, exception_cancel, Prompt, Return, Goto
    <3>2. jmp_ready' \in BOOLEAN /\ time_limited' \in BOOLEAN
      BY <1>23, <2>2, CancelTypes DEF free_returned, TypeOK
    <3>3. TypeOK'
      BY <1>23, <2>2, <3>2, CountersFit DEF free_returned, exception_cancel, Prompt, TypeOK
    <3>4. run' \in Run
      BY <1>23, <2>2, <3>1, PromptIsRun DEF free_returned, TypeOK
    <3>5. RunOK'
      BY <1>23, <2>2, <3>1, <3>4 DEF free_returned, Prompt, TypeOK, Bad
    <3>6. Prepared' /\ Timed'
      BY <1>23, <2>2, <3>1 DEF free_returned, exception_cancel, Prompt, Prompt, TypeOK
    <3>7. QED
      BY <3>3, <3>5, <3>6
  <2>3. QED
    BY <1>23, <2>1, <2>2 DEF free_returned, exception_cancel, Prompt, Return, Goto
<1>24. CASE insert_returned
  <2>1. CASE jmp_ready /\ run.reps > 1 /\ run' = Again /\ UNCHANGED harness
    <3>1. run' = [run EXCEPT !.pc = "insert", !.reps = @ - 1, !.blk = NULL]
      BY <1>24, <2>1 DEF insert_returned, Again, exception_cancel, Up, Return, Goto
    <3>2. jmp_ready' \in BOOLEAN /\ time_limited' \in BOOLEAN
      BY <1>24, <2>1, CancelTypes DEF insert_returned, TypeOK
    <3>3. TypeOK'
      BY <1>24, <2>1, <3>2, CountersFit DEF insert_returned, Again, exception_cancel, Up, TypeOK
    <3>4. run' \in Run
      <4>1. run.reps - 1 \in 0..MaxReps
        BY <2>1
      <4>2. QED
        BY <3>1, <4>1
    <3>5. RunOK'
      BY <1>24, <2>1, <3>1, <3>4 DEF insert_returned, Prompt, TypeOK, Bad
    <3>6. Prepared' /\ Timed'
      BY <1>24, <2>1, <3>1 DEF insert_returned, Again, exception_cancel, Up, Prompt, TypeOK
    <3>7. QED
      BY <3>3, <3>5, <3>6
  <2>2. CASE exception_cancel /\ Goto("show")
    <3>1. run' = [run EXCEPT !.pc = "show"]
      BY <1>24, <2>2 DEF insert_returned, Again, exception_cancel, Up, Return, Goto
    <3>2. jmp_ready' \in BOOLEAN /\ time_limited' \in BOOLEAN
      BY <1>24, <2>2, CancelTypes DEF insert_returned, TypeOK
    <3>3. TypeOK'
      BY <1>24, <2>2, <3>2, CountersFit DEF insert_returned, Again, exception_cancel, Up, TypeOK
    <3>4. run' \in Run
      BY <1>24, <2>2, <3>1, PromptIsRun DEF insert_returned, TypeOK
    <3>5. RunOK'
      BY <1>24, <2>2, <3>1, <3>4 DEF insert_returned, Prompt, TypeOK, Bad
    <3>6. Prepared' /\ Timed'
      BY <1>24, <2>2, <3>1 DEF insert_returned, Again, exception_cancel, Up, Prompt, TypeOK
    <3>7. QED
      BY <3>3, <3>5, <3>6
  <2>3. QED
    BY <1>24, <2>1, <2>2 DEF insert_returned
<1>25. CASE remove_returned
  <2>1. jmp_ready' \in BOOLEAN /\ time_limited' \in BOOLEAN
    BY <1>25, CancelTypes DEF remove_returned, TypeOK
  <2>2. TypeOK'
    BY <1>25, <2>1, CountersFit DEF remove_returned, exception_cancel, Down, Return, Goto, TypeOK
  <2>3. RunOK'
    BY <1>25, PromptIsRun DEF remove_returned, exception_cancel, Down, Return, Goto, TypeOK
  <2>4. Prepared' /\ Timed'
    BY <1>25 DEF remove_returned, exception_cancel, Down, Return, Goto, TypeOK
  <2>5. QED
    BY <2>2, <2>3, <2>4 DEF AInv
<1>26. CASE quit_returned
  BY <1>26 DEF quit_returned, exception_cancel, Return, Goto, TypeOK
<1>27. CASE show
  <2>1. jmp_ready' \in BOOLEAN /\ time_limited' \in BOOLEAN
    BY <1>27, CancelTypes DEF show, TypeOK
  <2>2. TypeOK'
    BY <1>27, <2>1 DEF show, Prompt, Return, Goto, TypeOK
  <2>3. RunOK'
    BY <1>27, PromptIsRun, ZenonT(60) DEF show, Prompt, Return, Goto, TypeOK
  <2>4. Prepared' /\ Timed'
    BY <1>27 DEF show, Prompt, Return, Goto, TypeOK
  <2>5. QED
    BY <2>2, <2>3, <2>4 DEF AInv
<1>28. CASE sigalrmhandler
  BY <1>28, ZenonT(60) DEF sigalrmhandler, Exception, Return, Goto, TypeOK
<1>29. QED
  BY <1>1, <1>2, <1>3, <1>4, <1>5, <1>6, <1>7, <1>8, <1>9, <1>10, <1>11, <1>12, <1>13, <1>14, <1>15, <1>16, <1>17, <1>18, <1>19, <1>20, <1>21, <1>22, <1>23, <1>24, <1>25, <1>26, <1>27, <1>28, CommandKeeps DEF Work, Step

LEMMA ProgramStep == [Next]_vars => [Work \/ sigalrmhandler]_program
BY DEF Next, vars

LEMMA AInvAlways == Spec => []AInv
BY AInvInit, AInvStep, ProgramStep, PTL DEF Spec

\* The variables keep their types wherever alarms fall, in particular the two
\* counters that an alarm makes disagree with the blocks.
THEOREM TypeCorrect == Spec => []TypeOK
<1>1. AInv => TypeOK
  BY DEF AInv
<1>2. QED
  BY <1>1, AInvAlways, PTL

\* Between commands no alarm is set and no jump is possible.
THEOREM DisarmedCorrect == Spec => []Disarmed
<1>1. AInv => Disarmed
  BY DEF AInv, Timed, Disarmed, At
<1>2. QED
  BY <1>1, AInvAlways, PTL

-----------------------------------------------------------------------------
(* Walks along a list, and what Hop has to do with them.                     *)

LEMMA Induction ==
  ASSUME NEW S, 0 \in S, \A n \in Nat : n \in S => n + 1 \in S
  PROVE  \A n \in Nat : n \in S
<1> DEFINE T == Nat \ S
<1> SUFFICES ASSUME T # {}
             PROVE  FALSE
  OBVIOUS
<1>1. PICK x \in T : \A y \in T : ~(<<y, x>> \in OpToRel(<, Nat))
  BY NatLessThanWellFounded, WFMin
<1>2. x # 0 /\ x \in Nat /\ x - 1 \in Nat /\ x - 1 < x
  OBVIOUS
<1>3. x - 1 \in T
  BY <1>2
<1>4. <<x - 1, x>> \in OpToRel(<, Nat)
  BY <1>2 DEF OpToRel
<1>5. QED
  BY <1>1, <1>3, <1>4

\* The element after the one at p.
After(nx, p) == IF p \in Blocks THEN nx[p] ELSE p

\* Hop as a function of the two variables it reads.
HopOf(h, nx) ==
  CHOOSE f : f = [k \in 0..SizeT |-> IF k = 0 THEN h
                                     ELSE IF f[k - 1] \in Blocks THEN nx[f[k - 1]] ELSE f[k - 1]]

LEMMA HopIs == Hop = HopOf(head, next) /\ Hop' = HopOf(head', next')
BY DEF Hop, HopOf

\* Hop is well defined.
LEMMA HopUnfolds ==
  ASSUME NEW h \in Pointer, NEW nx \in [Blocks -> Pointer]
  PROVE  /\ HopOf(h, nx)[0] = h
         /\ \A k \in 0..(SizeT - 1) : HopOf(h, nx)[k + 1] = After(nx, HopOf(h, nx)[k])
         /\ HopOf(h, nx) \in [0..SizeT -> Pointer]
<1> DEFINE S == {n \in Nat : \E f \in [0..n -> Pointer] :
                   f[0] = h /\ \A k \in 0..(n - 1) : f[k + 1] = After(nx, f[k])}
<1>1. 0 \in S
  <2> DEFINE f == [k \in 0..0 |-> h]
  <2>1. f \in [0..0 -> Pointer] /\ f[0] = h
    OBVIOUS
  <2>2. \A k \in 0..(0 - 1) : f[k + 1] = After(nx, f[k])
    OBVIOUS
  <2> HIDE DEF f
  <2>3. QED
    BY <2>1, <2>2
<1>2. ASSUME NEW n \in Nat, n \in S
      PROVE  n + 1 \in S
  <2>1. PICK f \in [0..n -> Pointer] : f[0] = h /\ \A k \in 0..(n - 1) : f[k + 1] = After(nx, f[k])
    BY <1>2
  <2>2. \A k \in 0..n : f[k] \in Pointer /\ After(nx, f[k]) \in Pointer
    BY DEF After
  <2> DEFINE g == [k \in 0..(n + 1) |-> IF k = 0 THEN h ELSE After(nx, f[k - 1])]
  <2>3. g \in [0..(n + 1) -> Pointer]
    <3>1. ASSUME NEW k \in 0..(n + 1)
          PROVE  (IF k = 0 THEN h ELSE After(nx, f[k - 1])) \in Pointer
      BY <2>2
    <3>2. QED
      BY <3>1
  <2>4. \A k \in 0..n : g[k] = f[k]
    <3>1. ASSUME NEW k \in 0..n, k # 0
          PROVE  g[k] = f[k]
      <4>1. k - 1 \in 0..(n - 1) /\ k - 1 + 1 = k /\ k \in 0..(n + 1)
        BY <3>1
      <4>2. f[k - 1 + 1] = After(nx, f[k - 1])
        BY <2>1, <4>1
      <4>3. QED
        BY <3>1, <4>1, <4>2
    <3>2. QED
      BY <2>1, <3>1
  <2>5. \A k \in 0..n : g[k + 1] = After(nx, g[k])
    <3>1. ASSUME NEW k \in 0..n
          PROVE  g[k + 1] = After(nx, f[k])
      <4>1. k + 1 \in 0..(n + 1) /\ k + 1 # 0 /\ k + 1 - 1 = k
        OBVIOUS
      <4>2. QED
        BY <4>1
    <3>2. QED
      BY <2>4, <3>1
  <2>6. g[0] = h
    OBVIOUS
  <2> HIDE DEF g
  <2>7. QED
    BY <2>3, <2>5, <2>6
<1>3. SizeT \in S
  <2> HIDE DEF S
  <2>1. QED
    BY <1>1, <1>2, Induction, CountersFit
<1>4. PICK f \in [0..SizeT -> Pointer] : f[0] = h /\ \A k \in 0..(SizeT - 1) : f[k + 1] = After(nx, f[k])
  BY <1>3
<1> DEFINE Rule(g) == [k \in 0..SizeT |-> IF k = 0 THEN h
                                          ELSE IF g[k - 1] \in Blocks THEN nx[g[k - 1]] ELSE g[k - 1]]
<1>5. f = Rule(f)
  <2>1. ASSUME NEW k \in 0..SizeT
        PROVE  f[k] = Rule(f)[k]
    <3>1. CASE k = 0
      BY <3>1, <1>4
    <3>2. CASE k # 0
      <4>1. k - 1 \in 0..(SizeT - 1) /\ k - 1 + 1 = k
        BY <3>2, CountersFit
      <4>2. f[k] = After(nx, f[k - 1])
        BY <4>1, <1>4
      <4>3. QED
        BY <3>2, <4>2 DEF After
    <3>3. QED
      BY <3>1, <3>2
  <2>2. QED
    BY <2>1
<1>6. HopOf(h, nx) = Rule(HopOf(h, nx))
  <2>1. HopOf(h, nx) = CHOOSE g : g = Rule(g)
    BY DEF HopOf
  <2> HIDE DEF Rule
  <2>2. QED
    BY <1>5, <2>1
<1>7. ASSUME NEW k \in 0..(SizeT - 1)
      PROVE  HopOf(h, nx)[k + 1] = After(nx, HopOf(h, nx)[k])
  <2>1. k + 1 \in 0..SizeT /\ k + 1 # 0 /\ k + 1 - 1 = k
    BY CountersFit
  <2>2. Rule(HopOf(h, nx))[k + 1] = After(nx, HopOf(h, nx)[k])
    BY <2>1 DEF After
  <2>3. QED
    BY <1>6, <2>2
<1>8. HopOf(h, nx)[0] = h
  <2>1. Rule(HopOf(h, nx))[0] = h
    BY CountersFit
  <2>2. QED
    BY <2>1, <1>6
<1>9. HopOf(h, nx) \in [0..SizeT -> Pointer]
  <2> DEFINE U == {n \in Nat : n <= SizeT => HopOf(h, nx)[n] \in Pointer}
  <2>1. 0 \in U
    BY <1>8
  <2>2. ASSUME NEW n \in Nat, n \in U
        PROVE  n + 1 \in U
    <3>1. CASE n + 1 <= SizeT
      <4>1. n \in 0..(SizeT - 1) /\ HopOf(h, nx)[n] \in Pointer
        BY <3>1, <2>2, CountersFit
      <4>2. QED
        BY <4>1, <1>7 DEF After
    <3>2. QED
      BY <3>1
  <2>3. \A n \in Nat : n \in U
    <3> HIDE DEF U
    <3>1. QED
      BY <2>1, <2>2, Induction
  <2>4. \A n \in 0..SizeT : HopOf(h, nx)[n] \in Pointer
    BY <2>3, CountersFit
  <2>5. \E g : HopOf(h, nx) = [k \in 0..SizeT |-> g[k]]
    <3>1. HopOf(h, nx) = [k \in 0..SizeT |-> Rule(HopOf(h, nx))[k]]
      BY <1>6
    <3>2. QED
      BY <3>1
  <2>6. QED
    BY <2>4, <2>5
<1>10. QED
  BY <1>7, <1>8, <1>9

\* t is the walk of n steps from h along nx to e.
Walk(t, n, h, nx, e) ==
  /\ n \in Nat /\ t \in [0..n -> Pointer]
  /\ t[0] = h /\ t[n] = e
  /\ \A k \in 0..(n - 1) : t[k] \in Blocks /\ t[k + 1] = nx[t[k]]

\* A walk that does not come back to its end goes through each element once.
LEMMA WalkDistinct ==
  ASSUME NEW t, NEW n, NEW h, NEW nx, NEW e, Walk(t, n, h, nx, e),
         \A k \in 0..(n - 1) : t[k] # e
  PROVE  \A j, k \in 0..n : t[j] = t[k] => j = k
<1>1. ASSUME NEW j \in 0..n, NEW k \in 0..n, j < k, t[j] = t[k]
      PROVE  FALSE
  <2>0. n \in Nat
    BY DEF Walk
  <2> DEFINE S == {i \in Nat : k + i <= n => t[j + i] = t[k + i]}
  <2>1. 0 \in S
    BY <1>1
  <2>2. ASSUME NEW i \in Nat, i \in S
        PROVE  i + 1 \in S
    <3>1. CASE k + (i + 1) <= n
      <4>1. /\ k + i \in 0..(n - 1) /\ j + i \in 0..(n - 1) /\ k + i <= n
            /\ k + i + 1 = k + (i + 1) /\ j + i + 1 = j + (i + 1)
        BY <1>1, <3>1, <2>0
      <4>2. t[j + i] = t[k + i]
        BY <2>2, <4>1
      <4>3. t[k + i + 1] = nx[t[k + i]] /\ t[j + i + 1] = nx[t[j + i]]
        BY <4>1 DEF Walk
      <4>4. QED
        BY <4>1, <4>2, <4>3
    <3>2. QED
      BY <3>1
  <2>3. \A i \in Nat : i \in S
    <3> HIDE DEF S
    <3>1. QED
      BY <2>1, <2>2, Induction
  <2>4. n - k \in Nat /\ k + (n - k) = n /\ j + (n - k) \in 0..(n - 1)
    BY <1>1, <2>0
  <2>5. t[j + (n - k)] = t[n]
    BY <2>3, <2>4
  <2>6. QED
    BY <2>4, <2>5 DEF Walk
<1>2. n \in Nat
  BY DEF Walk
<1>3. QED
  BY <1>1, <1>2

\* Hop follows a walk that is not too long.
LEMMA HopWalks ==
  ASSUME NEW t, NEW n, NEW h \in Pointer, NEW nx \in [Blocks -> Pointer], NEW e,
         Walk(t, n, h, nx, e), n <= SizeT
  PROVE  \A k \in 0..n : HopOf(h, nx)[k] = t[k]
<1>0. n \in Nat
  BY DEF Walk
<1> DEFINE S == {k \in Nat : k <= n => HopOf(h, nx)[k] = t[k]}
<1>1. 0 \in S
  BY HopUnfolds DEF Walk
<1>2. ASSUME NEW k \in Nat, k \in S
      PROVE  k + 1 \in S
  <2>1. CASE k + 1 <= n
    <3>1. k \in 0..(n - 1) /\ k \in 0..(SizeT - 1) /\ HopOf(h, nx)[k] = t[k]
      BY <1>0, <1>2, <2>1, CountersFit
    <3>2. t[k] \in Blocks /\ t[k + 1] = nx[t[k]]
      BY <3>1 DEF Walk
    <3>3. HopOf(h, nx)[k + 1] = After(nx, HopOf(h, nx)[k])
      BY <3>1, HopUnfolds
    <3>4. QED
      BY <3>1, <3>2, <3>3 DEF After
  <2>2. QED
    BY <2>1
<1>3. \A k \in Nat : k \in S
  <2> HIDE DEF S
  <2>1. QED
    BY <1>1, <1>2, Induction
<1>4. QED
  BY <1>0, <1>3

Used(t, n) == {t[k] : k \in 0..(n - 1)}

\* The walk t with b before it, and without its first element.
Push(b, t, n) == [k \in 0..(n + 1) |-> IF k = 0 THEN b ELSE t[k - 1]]
Rest(t, n) == [k \in 0..(n - 1) |-> t[k + 1]]

LEMMA UsedPush ==
  ASSUME NEW t, NEW n \in Nat, NEW b
  PROVE  Used(Push(b, t, n), n + 1) = {b} \cup Used(t, n)
<1> DEFINE u == Push(b, t, n)
<1>1. u[0] = b /\ \A k \in 1..n : u[k] = t[k - 1]
  BY DEF Push
<1>2. Used(u, n + 1) = {u[k] : k \in 0..n}
  <2>1. n + 1 - 1 = n
    OBVIOUS
  <2>2. QED
    BY <2>1 DEF Used
<1> HIDE DEF u
<1>3. ASSUME NEW k \in 0..n
      PROVE  u[k] \in {b} \cup Used(t, n)
  <2>1. CASE k = 0
    BY <1>1, <2>1
  <2>2. CASE k # 0
    <3>1. k \in 1..n /\ k - 1 \in 0..(n - 1)
      BY <2>2
    <3>2. QED
      BY <1>1, <3>1 DEF Used
  <2>3. QED
    BY <2>1, <2>2
<1>4. ASSUME NEW k \in 0..(n - 1)
      PROVE  \E j \in 0..n : u[j] = t[k]
  <2>1. k + 1 \in 1..n /\ k + 1 \in 0..n /\ k + 1 - 1 = k
    OBVIOUS
  <2>2. QED
    BY <1>1, <2>1
<1>5. \E j \in 0..n : u[j] = b
  BY <1>1
<1>6. QED
  BY <1>2, <1>3, <1>4, <1>5 DEF Used, u

LEMMA WalkPush ==
  ASSUME NEW t, NEW n \in Nat, NEW h, NEW nx, NEW e, NEW b \in Blocks, Walk(t, n, h, nx, e), nx[b] = h
  PROVE  Walk(Push(b, t, n), n + 1, b, nx, e)
<1> DEFINE u == Push(b, t, n)
<1>0. n \in Nat
  BY DEF Walk
<1>1. u \in [0..(n + 1) -> Pointer]
  <2>1. ASSUME NEW k \in 0..(n + 1)
        PROVE  (IF k = 0 THEN b ELSE t[k - 1]) \in Pointer
    BY <1>0 DEF Pointer, Walk
  <2>2. QED
    BY <2>1 DEF Push
<1>2. u[0] = b /\ u[n + 1] = e
  BY <1>0 DEF Walk, Push
<1>3. ASSUME NEW k \in 0..n, k # 0
      PROVE  /\ u[k] = t[k - 1] /\ u[k] \in Blocks /\ u[k + 1] = nx[u[k]]
  <2>1. k - 1 \in 0..(n - 1) /\ k + 1 - 1 = k /\ k - 1 + 1 = k /\ k + 1 # 0 /\ k + 1 \in 0..(n + 1) /\ k \in 0..(n + 1)
    BY <1>0, <1>3
  <2>2. u[k] = t[k - 1] /\ u[k + 1] = t[k]
    BY <1>3, <2>1 DEF Push
  <2>3. t[k - 1] \in Blocks /\ t[k - 1 + 1] = nx[t[k - 1]]
    BY <2>1 DEF Walk
  <2>4. QED
    BY <2>1, <2>2, <2>3
<1>4. u[0 + 1] = nx[u[0]] /\ n + 1 - 1 = n /\ n + 1 \in Nat
  BY <1>0, <1>2 DEF Walk, Push
<1> HIDE DEF u
<1>5. Walk(u, n + 1, b, nx, e)
  <2>1. \A k \in 0..n : u[k] \in Blocks /\ u[k + 1] = nx[u[k]]
    BY <1>2, <1>3, <1>4
  <2>2. QED
    BY <1>1, <1>2, <1>4, <2>1 DEF Walk
<1>6. QED
  BY <1>5 DEF u

LEMMA WalkRest ==
  ASSUME NEW t, NEW n \in Nat, NEW h \in Blocks, NEW nx, Walk(t, n, h, nx, NULL)
  PROVE  /\ n \in Nat \ {0}
         /\ Walk(Rest(t, n), n - 1, nx[h], nx, NULL)
         /\ Used(t, n) = {h} \cup Used(Rest(t, n), n - 1) /\ h \notin Used(Rest(t, n), n - 1)
<1> DEFINE u == Rest(t, n)
<1>1. n \in Nat /\ n # 0 /\ n - 1 \in Nat /\ n - 1 + 1 = n
  BY QueueAssumption DEF Walk
<1>2. u \in [0..(n - 1) -> Pointer] /\ u[n - 1] = NULL
  BY <1>1 DEF Walk, Rest
<1>3. u[0] = nx[h]
  <2>1. u[0] = t[0 + 1]
    BY <1>1 DEF Rest
  <2>2. QED
    BY <2>1, <1>1 DEF Walk
<1>4. ASSUME NEW k \in 0..(n - 1 - 1)
      PROVE  u[k] = t[k + 1] /\ k + 1 \in 0..(n - 1) /\ u[k] \in Blocks /\ u[k + 1] = nx[u[k]]
  <2>1. k + 1 \in 0..(n - 1) /\ k \in 0..(n - 1)
    BY <1>1
  <2>2. u[k] = t[k + 1] /\ u[k + 1] = t[k + 1 + 1]
    BY <2>1 DEF Rest
  <2>3. QED
    BY <2>1, <2>2 DEF Walk
<1>5. ASSUME NEW k \in 0..(n - 1), k # 0
      PROVE  \E j \in 0..(n - 1 - 1) : u[j] = t[k]
  <2>1. k - 1 \in 0..(n - 1 - 1) /\ k - 1 + 1 = k
    BY <1>1, <1>5
  <2>2. QED
    BY <2>1, <1>4
<1> HIDE DEF u
<1>6. Walk(u, n - 1, nx[h], nx, NULL)
  BY <1>1, <1>2, <1>3, <1>4 DEF Walk
<1>7. t[0] = h /\ 0 \in 0..(n - 1)
  BY <1>1 DEF Walk
<1>8. Used(t, n) = {h} \cup Used(u, n - 1)
  BY <1>4, <1>5, <1>7 DEF Used
<1>9. h \notin Used(u, n - 1)
  <2>1. \A k \in 0..(n - 1) : t[k] # NULL
    BY QueueAssumption DEF Walk
  <2>2. ASSUME NEW k \in 0..(n - 1 - 1), u[k] = h
        PROVE  FALSE
    <3>1. t[k + 1] = t[0] /\ k + 1 \in 0..n /\ 0 \in 0..n /\ k + 1 # 0
      BY <1>1, <1>4, <1>7, <2>2
    <3>2. QED
      BY <2>1, <3>1, WalkDistinct
  <2>3. QED
    BY <2>2 DEF Used
<1>10. QED
  BY <1>1, <1>6, <1>8, <1>9 DEF u

\* A block that is not on the walk may be written to.
LEMMA WalkAround ==
  ASSUME NEW t, NEW n, NEW h, NEW nx \in [Blocks -> Pointer], NEW e, NEW b, NEW x,
         Walk(t, n, h, nx, e), b \notin Used(t, n)
  PROVE  Walk(t, n, h, [nx EXCEPT ![b] = x], e)
<1>1. \A k \in 0..(n - 1) : t[k] # b
  BY DEF Used
<1>2. \A k \in 0..(n - 1) : [nx EXCEPT ![b] = x][t[k]] = nx[t[k]]
  BY <1>1 DEF Walk
<1>3. QED
  BY <1>2 DEF Walk

\* The last element is given another end.
LEMMA WalkBend ==
  ASSUME NEW t, NEW n \in Nat \ {0}, NEW h, NEW nx \in [Blocks -> Pointer], NEW e, NEW x \in Pointer,
         Walk(t, n, h, nx, e), e \notin Used(t, n)
  PROVE  Walk([t EXCEPT ![n] = x], n, h, [nx EXCEPT ![t[n - 1]] = x], x)
<1> DEFINE u == [t EXCEPT ![n] = x]
           ny == [nx EXCEPT ![t[n - 1]] = x]
<1>1. \A k \in 0..(n - 1) : t[k] # e
  BY DEF Used
<1>2. t[n - 1] \in Blocks /\ ny[t[n - 1]] = x
  BY DEF Walk
<1>3. ASSUME NEW k \in 0..(n - 1), k # n - 1
      PROVE  ny[t[k]] = nx[t[k]]
  <2>1. t[k] # t[n - 1]
    <3>1. k \in 0..n /\ n - 1 \in 0..n
      OBVIOUS
    <3>2. QED
      BY <1>1, <1>3, <3>1, WalkDistinct
  <2>2. QED
    BY <1>2, <2>1 DEF Walk
<1>4. u \in [0..n -> Pointer] /\ u[0] = h /\ u[n] = x /\ \A k \in 0..(n - 1) : u[k] = t[k]
  BY DEF Walk
<1>5. ASSUME NEW k \in 0..(n - 1)
      PROVE  u[k] \in Blocks /\ u[k + 1] = ny[u[k]]
  <2>1. CASE k = n - 1
    BY <1>2, <1>4, <2>1
  <2>2. CASE k # n - 1
    <3>1. k + 1 \in 0..(n - 1) /\ t[k] \in Blocks /\ t[k + 1] = nx[t[k]]
      BY <2>2 DEF Walk
    <3>2. QED
      BY <1>3, <1>4, <2>2, <3>1
  <2>3. QED
    BY <2>1, <2>2
<1> HIDE DEF u, ny
<1>6. Walk(u, n, h, ny, x)
  BY <1>4, <1>5 DEF Walk
<1>7. QED
  BY <1>6 DEF u, ny

\* The walk t with NULL after its end.
Long(t, n) == [k \in 0..(n + 1) |-> IF k = n + 1 THEN NULL ELSE t[k]]

LEMMA UsedLong ==
  ASSUME NEW t, NEW n \in Nat
  PROVE  Used(Long(t, n), n + 1) = {t[n]} \cup Used(t, n)
<1> DEFINE u == Long(t, n)
<1>1. \A k \in 0..n : u[k] = t[k]
  BY DEF Long
<1>2. Used(u, n + 1) = {u[k] : k \in 0..n}
  <2>1. n + 1 - 1 = n
    OBVIOUS
  <2>2. QED
    BY <2>1 DEF Used
<1> HIDE DEF u
<1>3. ASSUME NEW k \in 0..n
      PROVE  u[k] \in {t[n]} \cup Used(t, n)
  BY <1>1 DEF Used
<1>4. ASSUME NEW k \in 0..n
      PROVE  \E j \in 0..n : u[j] = t[k]
  BY <1>1
<1>5. QED
  BY <1>2, <1>3, <1>4 DEF Used, u

LEMMA WalkLong ==
  ASSUME NEW t, NEW n \in Nat, NEW h, NEW nx, NEW e \in Blocks, Walk(t, n, h, nx, e), nx[e] = NULL
  PROVE  Walk(Long(t, n), n + 1, h, nx, NULL)
<1> DEFINE u == Long(t, n)
<1>1. /\ u \in [0..(n + 1) -> Pointer] /\ u[n + 1] = NULL /\ u[n] = e
      /\ \A k \in 0..n : u[k] = t[k]
  <2>1. ASSUME NEW k \in 0..(n + 1)
        PROVE  (IF k = n + 1 THEN NULL ELSE t[k]) \in Pointer
    BY DEF Pointer, Walk
  <2>2. QED
    BY <2>1 DEF Long, Walk
<1>2. ASSUME NEW k \in 0..n
      PROVE  u[k] \in Blocks /\ u[k + 1] = nx[u[k]]
  <2>1. CASE k = n
    BY <1>1, <2>1
  <2>2. CASE k # n
    <3>1. k \in 0..(n - 1) /\ k + 1 \in 0..n
      BY <2>2
    <3>2. QED
      BY <1>1, <3>1 DEF Walk
  <2>3. QED
    BY <2>1, <2>2
<1> HIDE DEF u
<1>3. n + 1 - 1 = n /\ n + 1 \in Nat /\ u[0] = h
  BY <1>1 DEF Walk
<1>4. Walk(u, n + 1, h, nx, NULL)
  BY <1>1, <1>2, <1>3 DEF Walk
<1>5. QED
  BY <1>4 DEF u

-----------------------------------------------------------------------------
(* Lists that can be walked to their end through blocks in use.              *)

\* There is a walk from h to NULL through al.
CanWalk(h, nx, al) ==
  \E n \in Nat : \E t \in [0..n -> Pointer] :
    Walk(t, n, h, nx, NULL) /\ \A k \in 0..(n - 1) : t[k] \in al

\* A walk to NULL is shorter than a counter can count.
LEMMA WalkFits ==
  ASSUME NEW t, NEW n, NEW h, NEW nx, Walk(t, n, h, nx, NULL)
  PROVE  n < SizeT
<1>0. n \in Nat /\ \A k \in 0..(n - 1) : t[k] # NULL
  BY QueueAssumption DEF Walk
<1> DEFINE f == [k \in 0..(n - 1) |-> t[k]]
<1>1. f \in Injection(0..(n - 1), Blocks)
  <2>1. \A j, k \in 0..(n - 1) : t[j] = t[k] => j = k
    BY <1>0, WalkDistinct
  <2>2. QED
    BY <2>1 DEF Injection, Walk, IsInjective
<1>2. Cardinality(0..(n - 1)) <= Cardinality(Blocks)
  BY <1>1, QueueAssumption, FS_Injection
<1>3. CASE n = 0
  BY <1>3, CountersFit
<1>4. CASE n # 0
  <2>1. Cardinality(0..(n - 1)) = n
    BY <1>0, <1>4, FS_Interval
  <2>2. QED
    BY <1>0, <1>2, <2>1, CountersFit
<1>5. QED
  BY <1>3, <1>4

\* A list that Hop goes through to the end can be walked, and no other.
LEMMA HopCanWalk ==
  ASSUME NEW h \in Pointer, NEW nx \in [Blocks -> Pointer], NEW al \in SUBSET Blocks
  PROVE  (\E n \in 0..SizeT : /\ HopOf(h, nx)[n] = NULL
                              /\ \A k \in 0..(n - 1) : HopOf(h, nx)[k] \in al)
         <=> CanWalk(h, nx, al)
<1>1. ASSUME NEW n \in 0..SizeT, HopOf(h, nx)[n] = NULL,
             \A k \in 0..(n - 1) : HopOf(h, nx)[k] \in al
      PROVE  CanWalk(h, nx, al)
  <2> DEFINE t == [k \in 0..n |-> HopOf(h, nx)[k]]
  <2>0. \A k \in 0..n : HopOf(h, nx)[k] \in Pointer
    BY HopUnfolds, CountersFit
  <2>1. t \in [0..n -> Pointer] /\ t[0] = h /\ t[n] = NULL
    BY <1>1, <2>0, HopUnfolds
  <2>2. ASSUME NEW k \in 0..(n - 1)
        PROVE  t[k] \in al /\ t[k] \in Blocks /\ t[k + 1] = nx[t[k]]
    <3>1. k \in 0..(SizeT - 1) /\ k \in 0..n /\ k + 1 \in 0..n
      BY CountersFit
    <3>2. t[k] \in al /\ t[k + 1] = After(nx, t[k])
      BY <3>1, <1>1, HopUnfolds
    <3>3. QED
      BY <3>2 DEF After
  <2> HIDE DEF t
  <2>3. QED
    BY <2>1, <2>2 DEF CanWalk, Walk
<1>2. ASSUME NEW n \in Nat, NEW t \in [0..n -> Pointer], Walk(t, n, h, nx, NULL),
             \A k \in 0..(n - 1) : t[k] \in al
      PROVE  \E m \in 0..SizeT : /\ HopOf(h, nx)[m] = NULL
                                 /\ \A k \in 0..(m - 1) : HopOf(h, nx)[k] \in al
  <2>1. n \in 0..SizeT /\ n <= SizeT
    BY <1>2, WalkFits, CountersFit
  <2>2. \A k \in 0..n : HopOf(h, nx)[k] = t[k]
    BY <1>2, <2>1, HopWalks
  <2>3. HopOf(h, nx)[n] = NULL /\ \A k \in 0..(n - 1) : HopOf(h, nx)[k] \in al
    BY <1>2, <2>2 DEF Walk
  <2>4. QED
    BY <2>1, <2>3
<1>3. QED
  BY <1>1, <1>2 DEF CanWalk

LEMMA WalkableIs ==
  /\ TypeOK => (Walkable <=> q = NULL \/ CanWalk(head, next, allocated))
  /\ TypeOK' => (Walkable' <=> q' = NULL \/ CanWalk(head', next', allocated'))
<1>1. TypeOK => (Walkable <=> q = NULL \/ CanWalk(head, next, allocated))
  BY HopIs, HopCanWalk DEF Walkable, TypeOK
<1>2. TypeOK' => (Walkable' <=> q' = NULL \/ CanWalk(head', next', allocated'))
  BY HopIs, HopCanWalk DEF Walkable, TypeOK
<1>3. QED
  BY <1>1, <1>2

\* A block that is linked before the head.
LEMMA CanWalkPush ==
  ASSUME NEW h, NEW nx, NEW al \in SUBSET Blocks, NEW b \in al, nx[b] = h, CanWalk(h, nx, al)
  PROVE  CanWalk(b, nx, al)
<1>1. PICK n \in Nat : \E t \in [0..n -> Pointer] :
        Walk(t, n, h, nx, NULL) /\ \A k \in 0..(n - 1) : t[k] \in al
  BY DEF CanWalk
<1>2. PICK t \in [0..n -> Pointer] :
        Walk(t, n, h, nx, NULL) /\ \A k \in 0..(n - 1) : t[k] \in al
  BY <1>1
<1> DEFINE u == Push(b, t, n)
<1>3. b \in Blocks
  OBVIOUS
<1>4. Walk(u, n + 1, b, nx, NULL) /\ Used(u, n + 1) = {b} \cup Used(t, n)
  <2>1. Walk(t, n, h, nx, NULL) /\ nx[b] = h
    BY <1>2
  <2>2. Walk(u, n + 1, b, nx, NULL)
    BY <1>3, <2>1, WalkPush
  <2>3. Used(u, n + 1) = {b} \cup Used(t, n)
    BY UsedPush
  <2>4. QED
    BY <2>2, <2>3
<1> HIDE DEF u
<1>5. ASSUME NEW k \in 0..(n + 1 - 1)
      PROVE  u[k] \in al
  <2>1. u[k] \in Used(u, n + 1)
    BY DEF Used
  <2>2. QED
    BY <1>2, <1>4, <2>1 DEF Used
<1>6. n + 1 \in Nat /\ u \in [0..(n + 1) -> Pointer]
  BY <1>4 DEF Walk
<1>7. QED
  BY <1>4, <1>5, <1>6 DEF CanWalk

\* The head that is unlinked.
LEMMA CanWalkPop ==
  ASSUME NEW h \in Blocks, NEW nx, NEW al, CanWalk(h, nx, al)
  PROVE  CanWalk(nx[h], nx, al)
<1>1. PICK n \in Nat : \E t \in [0..n -> Pointer] :
        Walk(t, n, h, nx, NULL) /\ \A k \in 0..(n - 1) : t[k] \in al
  BY DEF CanWalk
<1>2. PICK t \in [0..n -> Pointer] :
        Walk(t, n, h, nx, NULL) /\ \A k \in 0..(n - 1) : t[k] \in al
  BY <1>1
<1> DEFINE u == Rest(t, n)
<1>3. Walk(u, n - 1, nx[h], nx, NULL) /\ Used(t, n) = {h} \cup Used(u, n - 1)
  BY <1>2, WalkRest
<1> HIDE DEF u
<1>4. \A k \in 0..(n - 1 - 1) : u[k] \in al
  BY <1>2, <1>3 DEF Used
<1>5. QED
  BY <1>3, <1>4 DEF CanWalk, Walk

\* A block that is not in use, that is filled or that points to the head is not
\* on the walk: it may be written to and given back.
LEMMA CanWalkAround ==
  ASSUME NEW h, NEW nx \in [Blocks -> Pointer], NEW al, NEW b \in Blocks, NEW x, CanWalk(h, nx, al),
         b \notin al \/ nx[b] = FILL \/ nx[b] = h
  PROVE  CanWalk(h, [nx EXCEPT ![b] = x], al \ {b})
<1>0. PICK n \in Nat : \E t \in [0..n -> Pointer] :
        Walk(t, n, h, nx, NULL) /\ \A k \in 0..(n - 1) : t[k] \in al
  BY DEF CanWalk
<1>1. PICK t \in [0..n -> Pointer] :
        Walk(t, n, h, nx, NULL) /\ \A k \in 0..(n - 1) : t[k] \in al
  BY <1>0
<1>2. ASSUME NEW k \in 0..(n - 1), t[k] = b
      PROVE  FALSE
  <2>1. t[k + 1] = nx[b] /\ k + 1 \in 0..n /\ k + 1 # 0
    BY <1>1, <1>2 DEF Walk
  <2>2. CASE b \notin al
    BY <1>1, <1>2, <2>2
  <2>3. CASE nx[b] = FILL
    BY <1>1, <2>1, <2>3, QueueAssumption DEF Walk
  <2>4. CASE nx[b] = h
    <3>1. \A j \in 0..(n - 1) : t[j] # NULL
      BY <1>1, QueueAssumption DEF Walk
    <3>2. t[k + 1] = t[0]
      BY <1>1, <2>1, <2>4 DEF Walk
    <3>3. QED
      BY <1>1, <2>1, <3>1, <3>2, WalkDistinct
  <2>5. QED
    BY <2>2, <2>3, <2>4
<1>3. \A k \in 0..(n - 1) : t[k] \in al \ {b} /\ [nx EXCEPT ![b] = x][t[k]] = nx[t[k]]
  BY <1>1, <1>2 DEF Walk
<1>4. Walk(t, n, h, [nx EXCEPT ![b] = x], NULL)
  BY <1>1, <1>3 DEF Walk
<1>5. QED
  BY <1>3, <1>4 DEF CanWalk

LEMMA CanWalkMore ==
  ASSUME NEW h, NEW nx, NEW al, NEW more, al \subseteq more, CanWalk(h, nx, al)
  PROVE  CanWalk(h, nx, more)
BY DEF CanWalk

LEMMA BreaksStep ==
  ASSUME AInv, AInv', [Work \/ sigalrmhandler]_program, Walkable, run.cmd # "it", ~Freeing'
  PROVE  Walkable'
<1>1. TypeOK /\ TypeOK' /\ RunOK /\ Prepared /\ RunOK'
  BY DEF AInv
<1>2. q = NULL \/ CanWalk(head, next, allocated)
  BY <1>1, WalkableIs
<1>3. SUFFICES q' = NULL \/ CanWalk(head', next', allocated')
  BY <1>1, WalkableIs
<1>4. CASE UNCHANGED <<q, head, next, allocated>>
  BY <1>2, <1>4
<1>5. CASE malloc
  <2>1. PICK b \in Blocks \ allocated : /\ allocated' = allocated \cup {b}
                                        /\ next' = [next EXCEPT ![b] = FILL]
                                        /\ UNCHANGED <<q, head>>
    BY <1>5 DEF malloc, queue
  <2>2. q = NULL \/ CanWalk(head, next', allocated \ {b})
    BY <1>1, <1>2, <2>1, CanWalkAround DEF TypeOK
  <2>3. QED
    BY <2>1, <2>2, CanWalkMore
<1>6. CASE new_queue
  BY <1>1, <1>6 DEF new_queue, At, RunOK, Statements, Prepared, Run, Cmds
<1>7. CASE link_head
  <2>1. /\ next' = [next EXCEPT ![run.blk] = head] /\ UNCHANGED <<q, head, allocated>>
        /\ run.blk \in Blocks /\ next[run.blk] = FILL
    BY <1>1, <1>7 DEF link_head, queue, At, RunOK, Pointing, Prepared
  <2>2. q = NULL \/ CanWalk(head, next', allocated \ {run.blk})
    BY <1>1, <1>2, <2>1, CanWalkAround DEF TypeOK
  <2>3. QED
    BY <2>1, <2>2, CanWalkMore
<1>8. CASE head_head
  <2>1. /\ head' = run.blk /\ UNCHANGED <<q, next, allocated>>
        /\ run.blk \in allocated /\ next[run.blk] = head /\ allocated \in SUBSET Blocks
    BY <1>1, <1>8 DEF head_head, memory, At, Prepared, TypeOK
  <2>2. QED
    BY <1>2, <2>1, CanWalkPush
<1>9. CASE unlink
  <2>1. head' = next[head] /\ head \in Blocks /\ UNCHANGED <<q, next, allocated>>
    BY <1>1, <1>9 DEF unlink, memory, At, Prepared, RunOK, Pointing
  <2>2. QED
    BY <1>2, <2>1, CanWalkPop
<1>10. CASE free
  <2>1. run.cmd = "rh" /\ run.blk \in Blocks /\ next[run.blk] = head /\ UNCHANGED <<q, head>>
    BY <1>1, <1>10 DEF free, queue, At, Prepared, RunOK, Run, Statements, Pointing, Freeing, Goto, Cmds
  <2>2. \/ UNCHANGED <<next, allocated>>
        \/ next' = [next EXCEPT ![run.blk] = FILL] /\ allocated' = allocated \ {run.blk}
    BY <1>10 DEF free, test_free, memory
  <2>3. CASE UNCHANGED <<next, allocated>>
    BY <1>2, <2>1, <2>3
  <2>4. CASE next' = [next EXCEPT ![run.blk] = FILL] /\ allocated' = allocated \ {run.blk}
    <3>1. CanWalk(head, next, allocated) => CanWalk(head, [next EXCEPT ![run.blk] = FILL], allocated \ {run.blk})
      BY <1>1, <2>1, CanWalkAround DEF TypeOK
    <3>2. QED
      BY <1>2, <2>1, <2>4, <3>1
  <2>5. QED
    BY <2>2, <2>3, <2>4
<1>11. CASE new_returned
  <2>1. CASE run.rval
    <3>1. head = NULL /\ UNCHANGED <<head, next, allocated>>
      BY <1>1, <1>11, <2>1 DEF new_returned, At, Prepared, memory
    <3>2. HopOf(NULL, next)[0] = NULL /\ NULL \in Pointer
      BY <1>1, HopUnfolds DEF Pointer, TypeOK
    <3>3. CanWalk(NULL, next, allocated)
      BY <1>1, <3>2, HopCanWalk, CountersFit DEF TypeOK
    <3>4. QED
      BY <3>1, <3>3
  <2>2. CASE ~run.rval
    BY <1>11, <2>2 DEF new_returned
  <2>3. QED
    BY <2>1, <2>2
<1>12. CASE free_returned
  BY <1>12 DEF free_returned
<1>13. CASE free_queue
  BY <1>1, <1>13 DEF free_queue, queue, memory, Return, Freeing, At, RunOK, Run, Statements, Cmds
<1>14. CASE link_tail \/ tail_head \/ tail_element
  BY <1>1, <1>14 DEF link_tail, tail_head, tail_element, At, RunOK, Run, Statements, Cmds
<1>15. CASE Command
  <2>1. UNCHANGED <<queue, memory>>
    BY <1>15 DEF Command, do_new, do_new_frees, do_free, do_remove_head, do_size, do_reverse, queue_quit,
                 do_insert_head, do_insert_tail, Begin
  <2>2. QED
    BY <1>4, <2>1 DEF queue, memory
<1>16. CASE tail_tail \/ head_tail
  BY <1>4, <1>16 DEF tail_tail, head_tail, memory
<1>17. CASE \/ malloc_fails \/ count \/ insert \/ grow \/ remove \/ uncount \/ shrink \/ free_next
            \/ insert_returned \/ remove_returned \/ quit_returned \/ show \/ sigalrmhandler
  BY <1>4, <1>17 DEF malloc_fails, count, insert, grow, remove, uncount, shrink, free_next, insert_returned,
                     remove_returned, quit_returned, show, sigalrmhandler, Exception, queue, memory
<1>18. CASE UNCHANGED program
  BY <1>4, <1>18 DEF program, queue, memory
<1>19. QED
  BY <1>5, <1>6, <1>7, <1>8, <1>9, <1>10, <1>11, <1>12, <1>13, <1>14, <1>15, <1>16, <1>17, <1>18 DEF Work, Step

\* Wherever an alarm falls, only q_insert_tail, and the q_free that gives the list
\* up, leave a list that cannot be walked.
THEOREM OnlyInsertTailBreaksCorrect == Spec => OnlyInsertTailBreaks
<1>1. AInv /\ AInv' /\ [Next]_vars => [Walkable /\ ~Walkable' => run.cmd = "it" \/ Freeing']_vars
  BY BreaksStep, ProgramStep
<1>2. QED
  BY <1>1, AInvAlways, PTL DEF Spec, OnlyInsertTailBreaks

-----------------------------------------------------------------------------
(* In time: what each statement leaves of the list, its blocks and its       *)
(* counters.                                                                 *)

\* The list under way, which q_free has taken from the queue.
First == IF q = NULL THEN NULL ELSE IF Freeing THEN run.tmp ELSE head

\* Its end: q_insert_tail links an element before it fills it.
Last(n) == IF run.pc = "tail_element" \/ (run.pc \in {"tail_tail", "tail_head"} /\ n > 0)
           THEN run.blk ELSE NULL

\* run.blk is in use and not in the list.
Holding ==
  \/ run.pc \in {"count", "new_queue", "link_head", "head_tail", "head_head", "link_tail",
                 "tail_tail", "tail_head", "tail_element", "free"}
  \/ run.cmd = "new" /\ run.pc = "returned" /\ run.rval

\* The blocks in use beside the list, and how many they are.
Apart == (IF q = NULL \/ Freeing THEN {} ELSE {q}) \cup (IF Holding THEN {run.blk} ELSE {})
Weight == (IF q = NULL \/ Freeing THEN 0 ELSE 1) + (IF Holding THEN 1 ELSE 0)

\* How far the counters are behind or ahead.
SizeLag == CASE run.pc = "grow" -> -1
             [] run.cmd = "rh" /\ run.pc \in {"free", "uncount", "shrink"} -> 1
             [] OTHER -> 0
QcntLag == CASE run.pc = "returned" /\ run.rval /\ run.cmd \in {"ih", "it"} -> -1
             [] run.pc = "returned" /\ run.rval /\ run.cmd = "rh" -> 1
             [] OTHER -> 0
CountLag == CASE run.pc = "count" -> -1
              [] run.pc = "uncount" -> 1
              [] OTHER -> 0

\* The list has the n elements t, and the blocks in use are they and those apart.
Listing(t, n) ==
  /\ Walk(t, n, First, next, Last(n))
  /\ allocated = Apart \cup Used(t, n) /\ Apart \cap Used(t, n) = {}
  /\ Cardinality(allocated) = n + Weight

\* The fields of the queue and qcnt agree with the list.
Fields(t, n) ==
  q # NULL /\ ~Freeing =>
    /\ tail # q
    /\ size = n + SizeLag /\ qcnt = size + QcntLag
    /\ run.pc \in {"tail_head", "tail_element"} => tail = run.blk
    /\ run.pc = "head_head" /\ n = 0 => tail = run.blk
    /\ run.pc \notin {"tail_head", "tail_element"} /\ n > 0 => tail = t[n - 1]

Stage(t, n) == Listing(t, n) /\ Fields(t, n)

\* What a statement relies on besides.
InTime ==
  /\ run.cmd \in {"ih", "it"} => run.v \in Values
  /\ run.pc \in {"head_tail", "head_head"} => value[run.blk] = run.v
  /\ run.cmd = "new" /\ run.pc = "returned" /\ run.rval => head = NULL /\ tail = NULL /\ size = 0
  /\ run.cmd \in {"ih", "it", "rh"} /\ run.pc \notin {"insert", "remove", "returned", "show"} => q # NULL
  /\ run.cmd \in {"free", "quit"} /\ run.pc \in {"free", "uncount", "free_next"} => q # NULL
  /\ run.cmd \in {"free", "quit"} /\ run.pc = "returned" => q = NULL \/ run.tmp = NULL
  /\ run.cmd = "free" /\ run.pc = "show" => q = NULL
  /\ Holding /\ ~Freeing => run.blk # q

EndsInTime == status = "running" \/ (status = "exited" /\ run.cmd = "quit")

Counted == allocated_count = Cardinality(allocated) + CountLag

SInv ==
  /\ AInv /\ EndsInTime
  /\ status = "running" =>
       /\ InTime /\ Counted
       /\ \E n \in Nat : \E t \in [0..n -> Pointer] : Stage(t, n)

LEMMA SInvPicks ==
  ASSUME SInv, status = "running"
  PROVE  \E n \in Nat : \E t \in [0..n -> Pointer] : Stage(t, n)
BY DEF SInv

\* The blocks in use and the counters are few enough to be counted.
LEMMA StageFits ==
  /\ TypeOK => IsFiniteSet(allocated) /\ Cardinality(allocated) \in Nat /\ Cardinality(allocated) < SizeT
  /\ TypeOK => \A t, n : Stage(t, n) => n \in Nat /\ n + Weight < SizeT /\ Weight \in Nat
<1>1. ASSUME TypeOK
      PROVE  IsFiniteSet(allocated) /\ Cardinality(allocated) \in Nat /\ Cardinality(allocated) < SizeT
  <2>1. allocated \subseteq Blocks
    BY <1>1 DEF TypeOK
  <2>2. IsFiniteSet(allocated) /\ Cardinality(allocated) <= Cardinality(Blocks)
    BY <2>1, QueueAssumption, FS_Subset
  <2>3. Cardinality(allocated) \in Nat
    BY <2>2, FS_CardinalityType
  <2>4. QED
    BY <2>2, <2>3, CountersFit
<1>2. ASSUME TypeOK, NEW t, NEW n, Stage(t, n)
      PROVE  n \in Nat /\ n + Weight < SizeT /\ Weight \in Nat
  BY <1>1, <1>2 DEF Stage, Listing, Walk, Weight
<1>3. QED
  BY <1>1, <1>2

-----------------------------------------------------------------------------
(* The contents of the queue.                                                *)

\* What Queue shows of itself to Fifo.
Exists == q # NULL /\ ~Freeing
Contents == IF q = NULL \/ Freeing THEN <<>> ELSE [k \in 1..Length |-> value[Hop[k - 1]]]

\* The values of the n elements t.
Listed(t, n) == [k \in 1..n |-> value[t[k - 1]]]

\* Length as a function of what it reads.
LengthOf(h, nx, un) ==
  CHOOSE n \in 0..SizeT : /\ HopOf(h, nx)[n] \notin Blocks \ un
                          /\ \A k \in 0..(n - 1) : HopOf(h, nx)[k] \in Blocks \ un

LEMMA LengthIs ==
  /\ Length = LengthOf(head, next, Unfilled)
  /\ Length' = LengthOf(head', next', Unfilled')
BY HopIs DEF Length, LengthOf

LEMMA LengthWalks ==
  ASSUME NEW t, NEW n \in 0..SizeT, NEW h \in Pointer, NEW nx \in [Blocks -> Pointer], NEW e, NEW un,
         Walk(t, n, h, nx, e),
         e \notin Blocks \ un, \A k \in 0..(n - 1) : t[k] \notin un
  PROVE  LengthOf(h, nx, un) = n
<1>1. n \in 0..SizeT /\ \A k \in 0..n : HopOf(h, nx)[k] = t[k]
  <2>1. n \in 0..SizeT
    BY CountersFit DEF Walk
  <2>2. QED
    BY <2>1, HopWalks
<1> DEFINE P(m) == /\ HopOf(h, nx)[m] \notin Blocks \ un
                   /\ \A k \in 0..(m - 1) : HopOf(h, nx)[k] \in Blocks \ un
<1>2. P(n)
  BY <1>1 DEF Walk
<1>3. ASSUME NEW m \in 0..SizeT, P(m)
      PROVE  m = n
  <2>1. CASE m < n
    BY <1>1, <1>2, <1>3, <2>1
  <2>2. CASE n < m
    BY <1>1, <1>2, <1>3, <2>2
  <2>3. QED
    BY <1>1, <2>1, <2>2
<1>4. LengthOf(h, nx, un) = CHOOSE m \in 0..SizeT : P(m)
  BY DEF LengthOf
<1>5. LengthOf(h, nx, un) = n
  <2> HIDE DEF P
  <2>1. QED
    BY <1>1, <1>2, <1>3, <1>4
<1>6. QED
  BY <1>5

\* While there is a queue, Hop goes through its list.
LEMMA ListIs ==
  ASSUME NEW t, NEW n, TypeOK, Stage(t, n), Exists
  PROVE  Length = n /\ \A k \in 1..n : Hop[k - 1] = t[k - 1]
<1>1. n \in 0..SizeT
  <2>1. n \in Nat /\ n + Weight < SizeT /\ Weight \in Nat
    BY StageFits
  <2>2. QED
    BY <2>1, CountersFit
<1>2. Walk(t, n, head, next, Last(n))
  BY DEF Stage, Listing, First, Exists
<1>3. Last(n) \notin Blocks \ Unfilled
  BY QueueAssumption DEF Last, Unfilled
<1>4. \A k \in 0..(n - 1) : t[k] \notin Unfilled
  <2>1. Unfilled \subseteq Apart
    BY DEF Unfilled, Apart, Holding
  <2>2. QED
    BY <2>1 DEF Stage, Listing, Used
<1>5. head \in Pointer /\ next \in [Blocks -> Pointer]
  BY DEF TypeOK
<1>6. /\ LengthOf(head, next, Unfilled) = n
      /\ \A k \in 1..n : HopOf(head, next)[k - 1] = t[k - 1]
  <2> DEFINE e == Last(n)
             un == Unfilled
  <2>1. Walk(t, n, head, next, e) /\ e \notin Blocks \ un /\ \A k \in 0..(n - 1) : t[k] \notin un
    BY <1>2, <1>3, <1>4
  <2> HIDE DEF e, un
  <2>2. LengthOf(head, next, un) = n
    BY <1>1, <1>5, <2>1, LengthWalks
  <2>3. \A k \in 0..n : HopOf(head, next)[k] = t[k]
    BY <1>1, <1>5, <2>1, HopWalks
  <2>4. QED
    <3>1. \A k \in 1..n : k - 1 \in 0..n
      BY <1>1, CountersFit
    <3>2. QED
      BY <2>2, <2>3, <3>1 DEF un
<1>7. QED
  BY <1>6, LengthIs, HopIs

\* The contents are the values of the list.
LEMMA ContentsAre == \A t, n : TypeOK /\ Stage(t, n) /\ Exists => Contents = Listed(t, n)
BY ListIs DEF Contents, Listed, Exists

LEMMA ContentsWillBe == (\A t, n : TypeOK /\ Stage(t, n) /\ Exists => Contents = Listed(t, n))'
BY ContentsAre, PTL

\* What every step in time can count on.
LEMMA SInvParts ==
  ASSUME SInv, status = "running"
  PROVE  /\ TypeOK /\ RunOK /\ Prepared /\ InTime /\ Counted
         /\ \E n \in Nat : \E t \in [0..n -> Pointer] : Stage(t, n)
BY DEF SInv, AInv

\* A step that ends in the stage of the elements t.
LEMMA Staged ==
  ASSUME AInv', status' = "running", InTime', Counted', NEW t, NEW n \in Nat, Stage(t, n)'
  PROVE  SInv' /\ (Exists' => Contents' = Listed(t, n)')
<1>1. t \in [0..n -> Pointer]
  BY DEF Stage, Listing, Walk
<1>2. SInv'
  BY <1>1 DEF SInv, EndsInTime
<1>3. QED
  BY <1>2, ContentsWillBe DEF AInv

\* A step that leaves the elements as many and their values the same.
LEMMA SameElements ==
  ASSUME SInv, AInv', status = "running", status' = "running", InTime', Counted', (Exists' <=> Exists),
         NEW t, NEW u, NEW n \in Nat, Stage(t, n), Stage(u, n)',
         \A k \in 0..(n - 1) : value'[u[k]] = value[t[k]]
  PROVE  SInv' /\ (Exists' <=> Exists) /\ Contents' = Contents
<1>1. SInv' /\ (Exists' => Contents' = Listed(u, n)')
  BY Staged
<1>2. Exists => Contents = Listed(t, n)
  BY ContentsAre DEF SInv, AInv
<1>3. Listed(u, n)' = Listed(t, n)
  <2>1. \A k \in 1..n : k - 1 \in 0..(n - 1)
    OBVIOUS
  <2>2. QED
    BY <2>1 DEF Listed
<1>4. CASE Exists
  BY <1>1, <1>2, <1>3, <1>4
<1>5. CASE ~Exists
  BY <1>1, <1>5 DEF Contents, Exists
<1>6. QED
  BY <1>4, <1>5

\* A step that neither takes nor links a block.
LEMMA SameListing ==
  ASSUME NEW t, NEW n \in Nat, Listing(t, n), UNCHANGED <<q, next, allocated>>,
         First' = First, Last(n)' = Last(n), q # NULL => (Freeing' <=> Freeing), Holding' <=> Holding,
         Holding => run'.blk = run.blk
  PROVE  Listing(t, n)'
<1>1. Apart' = Apart /\ Weight' = Weight
  BY DEF Apart, Weight
<1>2. QED
  BY <1>1 DEF Listing

\* A step that only moves on, and may change the tail and the counters.
LEMMA Quiet ==
  ASSUME SInv, AInv', status = "running", status' = "running", NEW t, NEW n \in Nat, Stage(t, n),
         UNCHANGED <<q, next, value, allocated>>, First' = First, Last(n)' = Last(n),
         q # NULL => (Freeing' <=> Freeing),
         Holding' <=> Holding, Holding => run'.blk = run.blk,
         Fields(t, n)', InTime', Counted'
  PROVE  SInv' /\ (Exists' <=> Exists) /\ Contents' = Contents
<1>1. Stage(t, n)'
  BY SameListing DEF Stage
<1>2. Exists' <=> Exists
  BY DEF Exists
<1>3. QED
  BY <1>1, <1>2, SameElements

LEMMA QuietSteps ==
  ASSUME SInv, AInv', status = "running",
         malloc_fails \/ count \/ new_queue \/ head_tail \/ grow \/ uncount \/ shrink
  PROVE  SInv' /\ (Exists' <=> Exists) /\ Contents' = Contents
<1> USE DEF queue, memory
<1>0. PICK n \in Nat : \E t \in [0..n -> Pointer] : Stage(t, n)
  BY SInvParts
<1>1. PICK t \in [0..n -> Pointer] : Stage(t, n)
  BY <1>0
<1>2. TypeOK /\ RunOK /\ Prepared /\ InTime /\ Counted
  BY SInvParts
<1>3. /\ n + Weight < SizeT /\ Weight \in Nat /\ Cardinality(allocated) = n + Weight /\ SizeT \in Nat
      /\ Walk(t, n, First, next, Last(n))
  BY <1>1, <1>2, StageFits, CountersFit DEF Stage, Listing
<1>4. q # NULL /\ ~Freeing => n + 1 < SizeT /\ (run.pc # "tail_element" => (head = NULL <=> n = 0))
  BY <1>3, QueueAssumption DEF Walk, First, Last, Weight, RunOK
<1>5. CASE malloc_fails
  <2>1. /\ run.pc = "malloc" /\ run.cmd \in {"new", "ih", "it"}
        /\ run' = [run EXCEPT !.pc = "returned", !.rval = FALSE]
        /\ UNCHANGED <<queue, qcnt, memory, status>>
        /\ run'.pc = "returned" /\ run'.rval = FALSE /\ run'.cmd = run.cmd /\ run'.v = run.v /\ run'.tmp = run.tmp
    BY <1>5, <1>2 DEF malloc_fails, At, Goto, Return, RunOK, Run, Statements, Cmds,
               Prepared, InTime, Holding, Freeing
  <2>2. First' = First /\ Last(n)' = Last(n) /\ (Freeing' <=> Freeing)
    BY <2>1 DEF First, Last, Freeing
  <2>3. (Holding' <=> Holding) /\ (Holding => run'.blk = run.blk)
    BY <2>1 DEF Holding
  <2>4. Fields(t, n)'
    BY <1>1, <1>2, <1>3, <1>4, <2>1, <2>2 DEF Stage, Fields, SizeLag, QcntLag, Up, Down, TypeOK
  <2>5. InTime'
    BY <1>2, <2>1, <2>2, <2>3 DEF InTime
  <2>6. Counted'
    BY <1>2, <1>3, <2>1 DEF Counted, CountLag, Up, Down
  <2>7. QED
    BY <1>1, <2>1, <2>2, <2>3, <2>4, <2>5, <2>6, Quiet
<1>6. CASE count
  <2>1. /\ run.pc = "count" /\ run.cmd \in {"new", "ih", "it"}
        /\ allocated_count' = Up(allocated_count) /\ UNCHANGED <<queue, qcnt, next, value, allocated, status>>
        /\ run'.pc \in {"new_queue", "link_head", "link_tail"}
        /\ run'.rval = run.rval /\ run'.cmd = run.cmd /\ run'.v = run.v
        /\ run'.tmp = run.tmp /\ run'.blk = run.blk
    BY <1>6, <1>2 DEF count, At, Goto, Return, RunOK, Run, Statements, Cmds,
               Prepared, InTime, Holding, Freeing
  <2>2. First' = First /\ Last(n)' = Last(n) /\ (Freeing' <=> Freeing)
    BY <2>1 DEF First, Last, Freeing
  <2>3. (Holding' <=> Holding) /\ (Holding => run'.blk = run.blk)
    BY <2>1 DEF Holding
  <2>4. Fields(t, n)'
    BY <1>1, <1>2, <1>3, <1>4, <2>1, <2>2 DEF Stage, Fields, SizeLag, QcntLag, Up, Down, TypeOK
  <2>5. InTime'
    BY <1>2, <2>1, <2>2, <2>3 DEF InTime
  <2>6. Counted'
    BY <1>2, <1>3, <2>1 DEF Counted, CountLag, Up, Down
  <2>7. QED
    BY <1>1, <2>1, <2>2, <2>3, <2>4, <2>5, <2>6, Quiet
<1>7. CASE new_queue
  <2>1. /\ run.pc = "new_queue" /\ run.cmd = "new" /\ q = NULL
        /\ head' = NULL /\ tail' = NULL /\ size' = 0 /\ UNCHANGED <<q, qcnt, memory, status>>
        /\ run'.pc = "returned" /\ run'.rval = TRUE /\ run'.cmd = run.cmd /\ run'.v = run.v
        /\ run'.tmp = run.tmp /\ run'.blk = run.blk
    BY <1>7, <1>2 DEF new_queue, At, Goto, Return, RunOK, Run, Statements, Cmds,
               Prepared, InTime, Holding, Freeing
  <2>2. First' = First /\ Last(n)' = Last(n) /\ (Freeing' <=> Freeing)
    BY <2>1 DEF First, Last, Freeing
  <2>3. (Holding' <=> Holding) /\ (Holding => run'.blk = run.blk)
    BY <2>1 DEF Holding
  <2>4. Fields(t, n)'
    BY <1>1, <1>2, <1>3, <1>4, <2>1, <2>2 DEF Stage, Fields, SizeLag, QcntLag, Up, Down, TypeOK
  <2>5. InTime'
    BY <1>2, <2>1, <2>2, <2>3 DEF InTime
  <2>6. Counted'
    BY <1>2, <1>3, <2>1 DEF Counted, CountLag, Up, Down
  <2>7. QED
    BY <1>1, <2>1, <2>2, <2>3, <2>4, <2>5, <2>6, Quiet
<1>8. CASE head_tail
  <2>1. /\ run.pc = "head_tail" /\ run.cmd = "ih" /\ q # NULL /\ run.blk # q
        /\ tail' = (IF head = NULL THEN run.blk ELSE tail) /\ UNCHANGED <<q, head, size, qcnt, memory, status>>
        /\ run'.pc = "head_head" /\ run'.rval = run.rval /\ run'.cmd = run.cmd /\ run'.v = run.v
        /\ run'.tmp = run.tmp /\ run'.blk = run.blk
    BY <1>8, <1>2 DEF head_tail, At, Goto, Return, RunOK, Run, Statements, Cmds,
               Prepared, InTime, Holding, Freeing
  <2>2. First' = First /\ Last(n)' = Last(n) /\ (Freeing' <=> Freeing)
    BY <2>1 DEF First, Last, Freeing
  <2>3. (Holding' <=> Holding) /\ (Holding => run'.blk = run.blk)
    BY <2>1 DEF Holding
  <2>4. Fields(t, n)'
    BY <1>1, <1>2, <1>3, <1>4, <2>1, <2>2 DEF Stage, Fields, SizeLag, QcntLag, Up, Down, TypeOK
  <2>5. InTime'
    BY <1>2, <2>1, <2>2, <2>3 DEF InTime
  <2>6. Counted'
    BY <1>2, <1>3, <2>1 DEF Counted, CountLag, Up, Down
  <2>7. QED
    BY <1>1, <2>1, <2>2, <2>3, <2>4, <2>5, <2>6, Quiet
<1>9. CASE grow
  <2>1. /\ run.pc = "grow" /\ run.cmd \in {"ih", "it"} /\ q # NULL
        /\ size' = Up(size) /\ UNCHANGED <<q, head, tail, qcnt, memory, status>>
        /\ run'.pc = "returned" /\ run'.rval = TRUE /\ run'.cmd = run.cmd /\ run'.v = run.v
        /\ run'.tmp = run.tmp /\ run'.blk = run.blk
    BY <1>9, <1>2 DEF grow, At, Goto, Return, RunOK, Run, Statements, Cmds,
               Prepared, InTime, Holding, Freeing
  <2>9. size = n - 1 /\ size' = n /\ qcnt = n - 1 /\ SizeLag' = 0 /\ QcntLag' = -1
    <3>1. ~Freeing /\ size = n - 1 /\ qcnt = size
      BY <1>1, <2>1 DEF Stage, Fields, SizeLag, QcntLag, Freeing
    <3>2. n \in 0..(SizeT - 1)
      BY <1>2, <1>3, <1>4, <2>1, <3>1
    <3>3. size' = n
      BY <1>2, <2>1, <3>1, <3>2, CountersFit DEF Up, Down
    <3>4. SizeLag' = 0 /\ QcntLag' = -1
      BY <2>1 DEF SizeLag, QcntLag
    <3>5. QED
      BY <3>1, <3>3, <3>4
  <2>2. First' = First /\ Last(n)' = Last(n) /\ (Freeing' <=> Freeing)
    BY <2>1 DEF First, Last, Freeing
  <2>3. (Holding' <=> Holding) /\ (Holding => run'.blk = run.blk)
    BY <2>1 DEF Holding
  <2>4. Fields(t, n)'
    BY <1>1, <1>2, <1>3, <1>4, <2>1, <2>2, <2>9 DEF Stage, Fields, SizeLag, QcntLag, Up, Down, TypeOK
  <2>5. InTime'
    BY <1>2, <2>1, <2>2, <2>3 DEF InTime
  <2>6. Counted'
    BY <1>2, <1>3, <2>1 DEF Counted, CountLag, Up, Down
  <2>7. QED
    BY <1>1, <2>1, <2>2, <2>3, <2>4, <2>5, <2>6, Quiet
<1>10. CASE uncount
  <2>1. /\ run.pc = "uncount" /\ run.cmd \in {"rh", "free", "quit"}
        /\ allocated_count' = Down(allocated_count) /\ UNCHANGED <<queue, qcnt, next, value, allocated, status>>
        /\ run'.pc = (IF run.cmd = "rh" THEN "shrink" ELSE "free_next")
        /\ run'.rval = run.rval /\ run'.cmd = run.cmd /\ run'.v = run.v
        /\ run'.tmp = run.tmp /\ run'.blk = run.blk
    BY <1>10, <1>2 DEF uncount, At, Goto, Return, RunOK, Run, Statements, Cmds,
               Prepared, InTime, Holding, Freeing
  <2>2. First' = First /\ Last(n)' = Last(n) /\ (Freeing' <=> Freeing)
    BY <2>1 DEF First, Last, Freeing
  <2>3. (Holding' <=> Holding) /\ (Holding => run'.blk = run.blk)
    BY <2>1 DEF Holding
  <2>4. Fields(t, n)'
    BY <1>1, <1>2, <1>3, <1>4, <2>1, <2>2 DEF Stage, Fields, SizeLag, QcntLag, Up, Down, TypeOK
  <2>5. InTime'
    BY <1>2, <2>1, <2>2, <2>3 DEF InTime
  <2>6. Counted'
    BY <1>2, <1>3, <2>1, SMTT(30) DEF Counted, CountLag, Up, Down
  <2>7. QED
    BY <1>1, <2>1, <2>2, <2>3, <2>4, <2>5, <2>6, Quiet
<1>11. CASE shrink
  <2>1. /\ run.pc = "shrink" /\ run.cmd = "rh" /\ q # NULL
        /\ size' = Down(size) /\ UNCHANGED <<q, head, tail, qcnt, memory, status>>
        /\ run'.pc = "returned" /\ run'.rval = TRUE /\ run'.cmd = run.cmd /\ run'.v = run.v
        /\ run'.tmp = run.tmp /\ run'.blk = run.blk
    BY <1>11, <1>2 DEF shrink, At, Goto, Return, RunOK, Run, Statements, Cmds,
               Prepared, InTime, Holding, Freeing
  <2>9. size = n + 1 /\ size' = n /\ qcnt = n + 1 /\ SizeLag' = 0 /\ QcntLag' = 1
    <3>1. ~Freeing /\ size = n + 1 /\ qcnt = size
      BY <1>1, <2>1 DEF Stage, Fields, SizeLag, QcntLag, Freeing
    <3>2. n \in 0..(SizeT - 1)
      BY <1>2, <1>3, <1>4, <2>1, <3>1
    <3>3. size' = n
      BY <1>2, <2>1, <3>1, <3>2, CountersFit DEF Up, Down
    <3>4. SizeLag' = 0 /\ QcntLag' = 1
      BY <2>1 DEF SizeLag, QcntLag
    <3>5. QED
      BY <3>1, <3>3, <3>4
  <2>2. First' = First /\ Last(n)' = Last(n) /\ (Freeing' <=> Freeing)
    BY <2>1 DEF First, Last, Freeing
  <2>3. (Holding' <=> Holding) /\ (Holding => run'.blk = run.blk)
    BY <2>1 DEF Holding
  <2>4. Fields(t, n)'
    BY <1>1, <1>2, <1>3, <1>4, <2>1, <2>2, <2>9 DEF Stage, Fields, SizeLag, QcntLag, Up, Down, TypeOK
  <2>5. InTime'
    BY <1>2, <2>1, <2>2, <2>3 DEF InTime
  <2>6. Counted'
    BY <1>2, <1>3, <2>1 DEF Counted, CountLag, Up, Down
  <2>7. QED
    BY <1>1, <2>1, <2>2, <2>3, <2>4, <2>5, <2>6, Quiet
<1>12. QED
  BY <1>5, <1>6, <1>7, <1>8, <1>9, <1>10, <1>11

\* The prompt, and a command that begins.
LEMMA CommandInTime ==
  ASSUME SInv, AInv', status = "running", Command
  PROVE  SInv' /\ (Exists' <=> Exists) /\ Contents' = Contents
<1>0. PICK n \in Nat : \E t \in [0..n -> Pointer] : Stage(t, n)
  BY SInvParts
<1>1. PICK t \in [0..n -> Pointer] : Stage(t, n)
  BY <1>0
<1>2. TypeOK /\ RunOK /\ InTime /\ Counted
  BY SInvParts
<1>3. /\ run.pc = "prompt" /\ UNCHANGED <<queue, qcnt, memory, status>>
      /\ run'.cmd \in Cmds
      /\ run'.cmd \in {"ih", "it"} => run'.v \in Values
      /\ run'.pc \in {"malloc", "free_queue", "insert", "remove", "returned"}
      /\ run'.pc = "malloc" => run'.cmd = "new"
      /\ run'.pc = "returned" => run'.cmd \in {"other", "reverse"}
      /\ run'.rval = FALSE
  BY ZenonT(60) DEF Command, do_new, do_new_frees, do_free, do_remove_head, do_size, do_reverse, queue_quit,
         do_insert_head, do_insert_tail, Begin, At, Prompt, Cmds
<1>4. run.cmd \in {"none"}
  BY <1>2, <1>3 DEF RunOK, Statements, Run, Cmds
<1>5. First' = First /\ Last(n)' = Last(n) /\ (Freeing' <=> Freeing) /\ (Holding' <=> Holding) /\ ~Holding
  <2>1. ~Freeing /\ ~Freeing'
    BY <1>2, <1>3, <1>4 DEF Freeing, AInv, RunOK, Statements
  <2>2. ~Holding /\ ~Holding'
    BY <1>3, <1>4 DEF Holding
  <2>3. QED
    BY <1>3, <2>1, <2>2 DEF First, Last, queue
<1>6. Fields(t, n)'
  BY <1>1, <1>3, <1>4, <1>5 DEF Stage, Fields, SizeLag, QcntLag, queue
<1>7. InTime'
  BY <1>2, <1>3, <1>4, <1>5 DEF InTime, AInv, RunOK, Statements
<1>8. Counted'
  BY <1>2, <1>3 DEF Counted, CountLag, memory
<1>9. QED
  BY <1>1, <1>3, <1>5, <1>6, <1>7, <1>8, Quiet DEF queue, memory

LEMMA OperationEnds ==
  ASSUME SInv, AInv', status = "running",
         insert \/ remove \/ (free_queue /\ q = NULL) \/ (free_next /\ run.tmp \notin Blocks)
  PROVE  SInv' /\ (Exists' <=> Exists) /\ Contents' = Contents
<1>0. PICK n \in Nat : \E t \in [0..n -> Pointer] : Stage(t, n)
  BY SInvParts
<1>1. PICK t \in [0..n -> Pointer] : Stage(t, n)
  BY <1>0
<1>2. TypeOK /\ RunOK /\ InTime /\ Counted
  BY SInvParts
<1>3. Walk(t, n, First, next, Last(n))
  BY <1>1 DEF Stage, Listing
<1>4. run.pc \in {"remove", "free_next"} => First # FILL
  BY <1>3, QueueAssumption DEF Walk, Last
<1>5. CASE insert
  <2>1. /\ run.pc = "insert" /\ run.cmd \in {"ih", "it"}
        /\ UNCHANGED <<q, head, tail, size, qcnt, next, value, allocated, allocated_count, status>>
        /\ run'.cmd = run.cmd /\ run'.v = run.v /\ run'.tmp = run.tmp /\ run'.blk = run.blk
        /\ \/ run'.pc = "returned" /\ run'.rval = FALSE
           \/ run'.pc = "malloc" /\ q # NULL
    BY <1>2, <1>5 DEF insert, At, Goto, Return, RunOK, Run, Statements, queue, memory, Cmds
  <2>2. First' = First /\ Last(n)' = Last(n) /\ (q # NULL => (Freeing' <=> Freeing))
    BY <2>1 DEF First, Last, Freeing
  <2>3. ~Holding /\ ~Holding'
    BY <2>1 DEF Holding
  <2>4. Fields(t, n)'
    BY <1>1, <2>1, <2>2 DEF Stage, Fields, SizeLag, QcntLag
  <2>5. InTime'
    BY <1>2, <2>1, <2>2, <2>3 DEF InTime
  <2>6. Counted'
    BY <1>2, <2>1 DEF Counted, CountLag
  <2>7. QED
    BY <1>1, <2>1, <2>2, <2>3, <2>4, <2>5, <2>6, Quiet
<1>6. CASE remove
  <2>1. /\ run.pc = "remove" /\ run.cmd = "rh"
        /\ UNCHANGED <<q, head, tail, size, qcnt, next, value, allocated, allocated_count, status>>
        /\ run'.cmd = run.cmd /\ run'.tmp = run.tmp
        /\ \/ run'.pc = "returned" /\ run'.rval = FALSE
           \/ run'.pc = "unlink" /\ q # NULL
    BY <1>2, <1>6 DEF remove, At, Goto, Return, Exception, RunOK, Run, Statements,
                     queue, memory, Bad, Cmds
  <2>2. First' = First /\ Last(n)' = Last(n) /\ (q # NULL => (Freeing' <=> Freeing))
    BY <2>1 DEF First, Last, Freeing
  <2>3. ~Holding /\ ~Holding'
    BY <2>1 DEF Holding
  <2>4. Fields(t, n)'
    BY <1>1, <2>1, <2>2 DEF Stage, Fields, SizeLag, QcntLag
  <2>5. InTime'
    BY <1>2, <2>1, <2>2, <2>3 DEF InTime
  <2>6. Counted'
    BY <1>2, <2>1 DEF Counted, CountLag
  <2>7. QED
    BY <1>1, <2>1, <2>2, <2>3, <2>4, <2>5, <2>6, Quiet
<1>7. CASE free_queue /\ q = NULL
  <2>1. /\ run.pc = "free_queue" /\ run.cmd \in {"free", "quit"} /\ q = NULL
       
        /\ UNCHANGED <<q, head, tail, size, qcnt, next, value, allocated, allocated_count, status>>
        /\ run'.cmd = run.cmd /\ run'.tmp = run.tmp /\ run'.pc = "returned"
    BY <1>2, <1>7 DEF free_queue, At, Goto, Return, Exception, RunOK, Run, Statements,
                     queue, memory, Bad, Cmds
  <2>2. First' = First /\ Last(n)' = Last(n) /\ (q # NULL => (Freeing' <=> Freeing))
    BY <2>1 DEF First, Last, Freeing
  <2>3. ~Holding /\ ~Holding'
    BY <2>1 DEF Holding
  <2>4. Fields(t, n)'
    BY <1>1, <2>1, <2>2 DEF Stage, Fields, SizeLag, QcntLag
  <2>5. InTime'
    BY <1>2, <2>1, <2>2, <2>3 DEF InTime
  <2>6. Counted'
    BY <1>2, <2>1 DEF Counted, CountLag
  <2>7. QED
    BY <1>1, <2>1, <2>2, <2>3, <2>4, <2>5, <2>6, Quiet
<1>8. CASE free_next /\ run.tmp \notin Blocks
  <2>1. /\ run.pc = "free_next" /\ run.cmd \in {"free", "quit"} /\ run.tmp = NULL /\ q # NULL
       
        /\ UNCHANGED <<q, head, tail, size, qcnt, next, value, allocated, allocated_count, status>>
        /\ run'.cmd = run.cmd /\ run'.tmp = run.tmp /\ run'.pc = "returned"
    BY <1>2, <1>4, <1>8 DEF free_next, At, Goto, Return, Exception, RunOK, Run, Statements,
                     queue, memory, Bad, Cmds, InTime, First, Freeing, Pointer
  <2>2. First' = First /\ Last(n)' = Last(n) /\ (q # NULL => (Freeing' <=> Freeing))
    BY <2>1 DEF First, Last, Freeing
  <2>3. ~Holding /\ ~Holding'
    BY <2>1 DEF Holding
  <2>4. Fields(t, n)'
    BY <1>1, <2>1, <2>2 DEF Stage, Fields, SizeLag, QcntLag
  <2>5. InTime'
    BY <1>2, <2>1, <2>2, <2>3 DEF InTime
  <2>6. Counted'
    BY <1>2, <2>1 DEF Counted, CountLag
  <2>7. QED
    BY <1>1, <2>1, <2>2, <2>3, <2>4, <2>5, <2>6, Quiet
<1>9. QED
  BY <1>5, <1>6, <1>7, <1>8

LEMMA InsertReturned ==
  ASSUME SInv, AInv', status = "running", insert_returned
  PROVE  SInv' /\ (Exists' <=> Exists) /\ Contents' = Contents
<1>0. PICK n \in Nat : \E t \in [0..n -> Pointer] : Stage(t, n)
  BY SInvParts
<1>1. PICK t \in [0..n -> Pointer] : Stage(t, n)
  BY <1>0
<1>2. TypeOK /\ RunOK /\ InTime /\ Counted
  BY SInvParts
<1>3. /\ run.pc = "returned" /\ run.cmd \in {"ih", "it"} /\ UNCHANGED <<queue, memory, status>>
      /\ qcnt' = (IF run.rval THEN Up(qcnt) ELSE qcnt)
      /\ run'.pc \in {"insert", "show"} /\ run'.cmd = run.cmd /\ run'.v = run.v
  BY <1>2 DEF insert_returned, At, Goto, Again, RunOK, Run
<1>4. First' = First /\ Last(n)' = Last(n) /\ ~Freeing /\ ~Freeing' /\ ~Holding /\ ~Holding'
  BY <1>3 DEF First, Last, Freeing, Holding, queue
<1>5. q # NULL => qcnt' = n /\ size = n
  <2>1. SUFFICES ASSUME q # NULL
                 PROVE  qcnt' = n /\ size = n
    OBVIOUS
  <2>2. n + 1 < SizeT
    BY <1>1, <1>2, <1>4, <2>1, StageFits, CountersFit DEF Weight
  <2>3. size = n + SizeLag /\ qcnt = size + QcntLag
    BY <1>1, <1>4, <2>1 DEF Stage, Fields
  <2>4. SizeLag = 0 /\ QcntLag = (IF run.rval THEN -1 ELSE 0)
    BY <1>3 DEF SizeLag, QcntLag
  <2>5. CASE run.rval
    <3>1. qcnt = n - 1 /\ size = n /\ qcnt' = Up(qcnt)
      BY <1>3, <2>3, <2>4, <2>5
    <3>2. QED
      BY <2>2, <3>1, CountersFit DEF Up
  <2>6. CASE ~run.rval
    BY <1>3, <2>3, <2>4, <2>6
  <2>7. QED
    BY <2>5, <2>6
<1>6. Fields(t, n)'
  <2>1. SizeLag' = 0 /\ QcntLag' = 0
    BY <1>3 DEF SizeLag, QcntLag
  <2>2. QED
    BY <1>1, <1>3, <1>4, <1>5, <2>1 DEF Stage, Fields, queue
<1>7. InTime'
  BY <1>2, <1>3, <1>4 DEF InTime
<1>8. Counted'
  BY <1>2, <1>3 DEF Counted, CountLag, memory
<1>9. QED
  BY <1>1, <1>3, <1>4, <1>6, <1>7, <1>8, Quiet DEF queue, memory

LEMMA RemoveReturned ==
  ASSUME SInv, AInv', status = "running", remove_returned
  PROVE  SInv' /\ (Exists' <=> Exists) /\ Contents' = Contents
<1>0. PICK n \in Nat : \E t \in [0..n -> Pointer] : Stage(t, n)
  BY SInvParts
<1>1. PICK t \in [0..n -> Pointer] : Stage(t, n)
  BY <1>0
<1>2. TypeOK /\ RunOK /\ InTime /\ Counted
  BY SInvParts
<1>3. /\ run.pc = "returned" /\ run.cmd \in {"rh", "other", "reverse"} /\ UNCHANGED <<queue, memory, status>>
      /\ qcnt' = (IF run.rval /\ run.cmd = "rh" THEN Down(qcnt) ELSE qcnt)
      /\ run'.pc = "show" /\ run'.cmd = run.cmd
  BY <1>2 DEF remove_returned, At, Goto, RunOK, Run
<1>4. First' = First /\ Last(n)' = Last(n) /\ ~Freeing /\ ~Freeing' /\ ~Holding /\ ~Holding'
  BY <1>3 DEF First, Last, Freeing, Holding, queue
<1>5. q # NULL => qcnt' = n /\ size = n
  <2>1. SUFFICES ASSUME q # NULL
                 PROVE  qcnt' = n /\ size = n
    OBVIOUS
  <2>2. n + 1 < SizeT
    BY <1>1, <1>2, <1>4, <2>1, StageFits, CountersFit DEF Weight
  <2>3. size = n + SizeLag /\ qcnt = size + QcntLag
    BY <1>1, <1>4, <2>1 DEF Stage, Fields
  <2>4. SizeLag = 0 /\ QcntLag = (IF run.rval /\ run.cmd = "rh" THEN 1 ELSE 0)
    BY <1>3 DEF SizeLag, QcntLag
  <2>5. CASE run.rval /\ run.cmd = "rh"
    <3>1. qcnt = n + 1 /\ size = n /\ qcnt' = Down(qcnt)
      BY <1>3, <2>3, <2>4, <2>5
    <3>2. QED
      BY <2>2, <3>1, CountersFit DEF Down
  <2>6. CASE ~(run.rval /\ run.cmd = "rh")
    BY <1>3, <2>3, <2>4, <2>6
  <2>7. QED
    BY <2>5, <2>6
<1>6. Fields(t, n)'
  <2>1. SizeLag' = 0 /\ QcntLag' = 0
    BY <1>3 DEF SizeLag, QcntLag
  <2>2. QED
    BY <1>1, <1>3, <1>4, <1>5, <2>1 DEF Stage, Fields, queue
<1>7. InTime'
  BY <1>2, <1>3, <1>4 DEF InTime
<1>8. Counted'
  BY <1>2, <1>3 DEF Counted, CountLag, memory
<1>9. QED
  BY <1>1, <1>3, <1>4, <1>6, <1>7, <1>8, Quiet DEF queue, memory

\* In time show_queue reads elements only.
LEMMA ShowInTime ==
  ASSUME SInv, AInv', status = "running", show
  PROVE  SInv' /\ (Exists' <=> Exists) /\ Contents' = Contents
<1>0. PICK n \in Nat : \E t \in [0..n -> Pointer] : Stage(t, n)
  BY SInvParts
<1>1. PICK t \in [0..n -> Pointer] : Stage(t, n)
  BY <1>0
<1>2. TypeOK /\ RunOK /\ InTime /\ Counted
  BY SInvParts
<1>3. run.pc = "show" /\ UNCHANGED <<queue, qcnt, memory>>
  BY DEF show, At
<1>4. q # NULL => ~Freeing
  BY <1>2, <1>3 DEF InTime, Freeing, RunOK, Statements
<1>5. q # NULL => \A k \in 0..(qcnt - 1) : Hop[k] # FILL
  <2>1. SUFFICES ASSUME q # NULL
                 PROVE  \A k \in 0..(qcnt - 1) : Hop[k] # FILL
    OBVIOUS
  <2>2. qcnt = n
    BY <1>1, <1>3, <1>4, <2>1 DEF Stage, Fields, SizeLag, QcntLag
  <2>3. Walk(t, n, head, next, Last(n)) /\ n <= SizeT
    <3>1. n + Weight < SizeT /\ Weight \in Nat
      BY <1>1, <1>2, StageFits
    <3>2. n <= SizeT
      BY <3>1, CountersFit
    <3>3. QED
      BY <1>1, <1>4, <2>1, <3>2 DEF Stage, Listing, First
  <2>4. \A k \in 0..n : Hop[k] = t[k]
    BY <1>2, <2>3, HopIs, HopWalks DEF TypeOK
  <2>5. QED
    BY <2>2, <2>3, <2>4, QueueAssumption DEF Walk
<1>6. run' = Prompt /\ status' = status
  BY <1>5 DEF show
<1>7. run'.pc = "prompt" /\ run'.cmd = "none" /\ run'.rval = FALSE
  BY <1>6 DEF Prompt
<1>8. First' = First /\ Last(n)' = Last(n) /\ ~Freeing' /\ ~Holding /\ ~Holding'
  BY <1>3, <1>4, <1>7 DEF First, Last, Freeing, Holding, queue
<1>9. Fields(t, n)'
  BY <1>1, <1>3, <1>4, <1>7, <1>8 DEF Stage, Fields, SizeLag, QcntLag, queue
<1>10. InTime'
  BY <1>7, <1>8 DEF InTime
<1>11. Counted'
  BY <1>2, <1>3, <1>7 DEF Counted, CountLag, memory
<1>12. QED
  BY <1>1, <1>3, <1>4, <1>6, <1>8, <1>9, <1>10, <1>11, Quiet DEF queue, memory

LEMMA LinkHeadInTime ==
  ASSUME SInv, AInv', status = "running", link_head
  PROVE  SInv' /\ (Exists' <=> Exists) /\ Contents' = Contents
<1>0. PICK n \in Nat : \E t \in [0..n -> Pointer] : Stage(t, n)
  BY SInvParts
<1>1. PICK t \in [0..n -> Pointer] : Stage(t, n)
  BY <1>0
<1>2. TypeOK /\ RunOK /\ InTime /\ Counted
  BY SInvParts
<1>3. /\ run.pc = "link_head" /\ run.cmd = "ih" /\ run.blk \in Blocks
      /\ UNCHANGED <<queue, qcnt, allocated, allocated_count, status>>
      /\ value' = [value EXCEPT ![run.blk] = run.v] /\ next' = [next EXCEPT ![run.blk] = head]
      /\ run'.pc = "head_tail" /\ run'.cmd = run.cmd /\ run'.v = run.v /\ run'.blk = run.blk
      /\ q # NULL /\ run.blk # q
  BY <1>2 DEF link_head, At, Goto, RunOK, Run, Pointing, Cmds, Statements, InTime, Holding, Freeing
<1>4. First' = First /\ Last(n)' = Last(n) /\ ~Freeing /\ ~Freeing' /\ Holding /\ Holding'
  BY <1>3 DEF First, Last, Freeing, Holding, queue
<1>5. run.blk \notin Used(t, n)
  BY <1>1, <1>4 DEF Stage, Listing, Apart
<1>6. Walk(t, n, First, next', Last(n))
  BY <1>1, <1>2, <1>3, <1>5, WalkAround DEF Stage, Listing, TypeOK
<1>7. Listing(t, n)'
  <2>1. Apart' = Apart /\ Weight' = Weight
    BY <1>3, <1>4 DEF Apart, Weight, queue
  <2>2. QED
    BY <1>1, <1>3, <1>4, <1>6, <2>1 DEF Stage, Listing
<1>8. Fields(t, n)'
  BY <1>1, <1>3, <1>4 DEF Stage, Fields, SizeLag, QcntLag, queue
<1>9. InTime'
  BY <1>2, <1>3, <1>4 DEF InTime, TypeOK, queue
<1>10. Counted'
  BY <1>2, <1>3 DEF Counted, CountLag
<1>11. \A k \in 0..(n - 1) : value'[t[k]] = value[t[k]]
  BY <1>2, <1>3, <1>5 DEF Used, TypeOK
<1>12. Exists' <=> Exists
  BY <1>3, <1>4 DEF Exists, queue
<1>13. Stage(t, n)'
  BY <1>7, <1>8 DEF Stage
<1>14. QED
  BY <1>1, <1>3, <1>9, <1>10, <1>11, <1>12, <1>13, SameElements

LEMMA MallocInTime ==
  ASSUME SInv, AInv', status = "running", malloc
  PROVE  SInv' /\ (Exists' <=> Exists) /\ Contents' = Contents
<1>0. PICK n \in Nat : \E t \in [0..n -> Pointer] : Stage(t, n)
  BY SInvParts
<1>1. PICK t \in [0..n -> Pointer] : Stage(t, n)
  BY <1>0
<1>2. TypeOK /\ RunOK /\ InTime /\ Counted
  BY SInvParts
<1>3. PICK b \in Blocks \ allocated :
        /\ allocated' = allocated \cup {b}
        /\ next' = [next EXCEPT ![b] = FILL] /\ value' = [value EXCEPT ![b] = FILL]
        /\ run' = [run EXCEPT !.blk = b, !.pc = "count"]
  BY DEF malloc
<1>4. /\ run.pc = "malloc" /\ run.cmd \in {"new", "ih", "it"}
      /\ UNCHANGED <<queue, qcnt, allocated_count, status>>
      /\ run'.pc = "count" /\ run'.cmd = run.cmd /\ run'.v = run.v /\ run'.blk = b
  BY <1>2, <1>3 DEF malloc, At, RunOK, Run, Statements, Cmds
<1>5. First' = First /\ Last(n)' = Last(n) /\ ~Freeing /\ ~Freeing' /\ ~Holding /\ Holding'
  BY <1>4 DEF First, Last, Freeing, Holding, queue
<1>6. b \notin Used(t, n) /\ b \notin Apart
  BY <1>1, <1>3 DEF Stage, Listing
<1>7. Walk(t, n, First, next', Last(n))
  BY <1>1, <1>2, <1>3, <1>6, WalkAround DEF Stage, Listing, TypeOK
<1>8. Cardinality(allocated') = Cardinality(allocated) + 1 /\ Cardinality(allocated) \in Nat
  BY <1>2, <1>3, StageFits, FS_AddElement
<1>9. Listing(t, n)'
  <2>1. Apart' = Apart \cup {b} /\ Weight' = Weight + 1 /\ Weight \in Nat
    BY <1>4, <1>5 DEF Apart, Weight, queue
  <2>2. QED
    BY <1>1, <1>3, <1>5, <1>6, <1>7, <1>8, <2>1 DEF Stage, Listing
<1>10. Fields(t, n)'
  BY <1>1, <1>4, <1>5 DEF Stage, Fields, SizeLag, QcntLag, queue
<1>11. q # NULL => run'.blk # q
  BY <1>1, <1>3, <1>4, <1>5 DEF Stage, Listing, Apart
<1>12. InTime'
  BY <1>2, <1>4, <1>5, <1>11, QueueAssumption DEF InTime, queue
<1>13. Counted'
  BY <1>2, <1>4, <1>8 DEF Counted, CountLag
<1>14. \A k \in 0..(n - 1) : value'[t[k]] = value[t[k]]
  BY <1>2, <1>3, <1>6 DEF Used, TypeOK
<1>15. Exists' <=> Exists
  BY <1>4, <1>5 DEF Exists, queue
<1>16. Stage(t, n)'
  BY <1>9, <1>10 DEF Stage
<1>17. QED
  BY <1>1, <1>4, <1>12, <1>13, <1>14, <1>15, <1>16, SameElements

\* The tail is set before the new element is filled.
LEMMA TailTailInTime ==
  ASSUME SInv, AInv', status = "running", tail_tail
  PROVE  SInv' /\ (Exists' <=> Exists) /\ Contents' = Contents
<1>0. PICK n \in Nat : \E t \in [0..n -> Pointer] : Stage(t, n)
  BY SInvParts
<1>1. PICK t \in [0..n -> Pointer] : Stage(t, n)
  BY <1>0
<1>2. TypeOK /\ RunOK /\ InTime /\ Counted
  BY SInvParts
<1>3. /\ run.pc = "tail_tail" /\ run.cmd = "it" /\ tail' = run.blk
      /\ UNCHANGED <<q, head, size, qcnt, memory, status>>
      /\ run'.pc = "tail_head" /\ run'.cmd = run.cmd /\ run'.v = run.v /\ run'.blk = run.blk
      /\ q # NULL /\ run.blk # q
  BY <1>2 DEF tail_tail, At, Goto, RunOK, Run, Pointing, Cmds, Statements, InTime, Holding, Freeing
<1>4. First' = First /\ Last(n)' = Last(n) /\ ~Freeing /\ ~Freeing' /\ Holding /\ Holding'
  BY <1>3 DEF First, Last, Freeing, Holding
<1>5. Fields(t, n)'
  BY <1>1, <1>3, <1>4 DEF Stage, Fields, SizeLag, QcntLag
<1>6. InTime'
  BY <1>2, <1>3, <1>4 DEF InTime
<1>7. Counted'
  BY <1>2, <1>3 DEF Counted, CountLag, memory
<1>8. QED
  BY <1>1, <1>3, <1>4, <1>5, <1>6, <1>7, Quiet DEF memory

\* The old last element is linked to the new one.
LEMMA LinkTailInTime ==
  ASSUME SInv, AInv', status = "running", link_tail
  PROVE  SInv' /\ (Exists' <=> Exists) /\ Contents' = Contents
<1>0. PICK n \in Nat : \E t \in [0..n -> Pointer] : Stage(t, n)
  BY SInvParts
<1>1. PICK t \in [0..n -> Pointer] : Stage(t, n)
  BY <1>0
<1>2. TypeOK /\ RunOK /\ InTime /\ Counted
  BY SInvParts
<1>3. /\ run.pc = "link_tail" /\ run.cmd = "it" /\ run.blk \in Blocks
      /\ UNCHANGED <<queue, qcnt, value, allocated, allocated_count, status>>
      /\ next' = (IF tail \in Blocks THEN [next EXCEPT ![tail] = run.blk] ELSE next)
      /\ run'.pc = "tail_tail" /\ run'.cmd = run.cmd /\ run'.v = run.v /\ run'.blk = run.blk
      /\ q # NULL /\ run.blk # q
  BY <1>2 DEF link_tail, At, Goto, RunOK, Run, Pointing, Cmds, Statements, InTime, Holding, Freeing
<1>4. /\ First = head /\ First' = head /\ Last(n) = NULL /\ Last(n)' = (IF n > 0 THEN run.blk ELSE NULL)
      /\ ~Freeing /\ ~Freeing' /\ Holding /\ Holding'
  BY <1>3 DEF First, Last, Freeing, Holding, queue
<1>5. Apart' = Apart /\ Weight' = Weight
  BY <1>3, <1>4 DEF Apart, Weight, queue
<1>6. InTime'
  BY <1>2, <1>3, <1>4 DEF InTime, queue
<1>7. Counted'
  BY <1>2, <1>3 DEF Counted, CountLag
<1>8. Exists' <=> Exists
  BY <1>3, <1>4 DEF Exists, queue
<1>9. CASE n = 0
  <2>1. Walk(t, n, head, next', NULL)
    BY <1>1, <1>4, <1>9 DEF Stage, Listing, Walk
  <2>2. Listing(t, n)'
    BY <1>1, <1>3, <1>4, <1>5, <1>9, <2>1 DEF Stage, Listing
  <2>3. Fields(t, n)'
    BY <1>1, <1>3, <1>4, <1>9 DEF Stage, Fields, SizeLag, QcntLag, queue
  <2>4. Stage(t, n)'
    BY <2>2, <2>3 DEF Stage
  <2>5. \A k \in 0..(n - 1) : value'[t[k]] = value[t[k]]
    BY <1>3
  <2>6. QED
    BY <1>1, <1>3, <1>6, <1>7, <1>8, <2>4, <2>5, SameElements
<1>10. CASE n # 0
  <2>0. PICK u : u = [t EXCEPT ![n] = run.blk]
    OBVIOUS
  <2>1. tail = t[n - 1] /\ n \in Nat \ {0} /\ NULL \notin Used(t, n) /\ run.blk \in Pointer
    BY <1>1, <1>3, <1>4, <1>10, QueueAssumption DEF Stage, Fields, Listing, Walk, Used, Pointer
  <2>2. Walk(t, n, head, next, NULL) /\ next \in [Blocks -> Pointer]
    BY <1>1, <1>2, <1>4 DEF Stage, Listing, TypeOK
  <2>3. next' = [next EXCEPT ![t[n - 1]] = run.blk]
    BY <1>3, <2>1, <2>2 DEF Walk
  <2>4. Walk(u, n, head, next', run.blk) /\ Used(u, n) = Used(t, n)
    <3>1. Walk([t EXCEPT ![n] = run.blk], n, head, [next EXCEPT ![t[n - 1]] = run.blk], run.blk)
      BY <2>1, <2>2, WalkBend
    <3>2. Used(u, n) = Used(t, n)
      BY <2>0 DEF Used
    <3>3. QED
      BY <2>0, <2>3, <3>1, <3>2
  <2>5. \A k \in 0..(n - 1) : u[k] = t[k]
    BY <2>0
  <2>6. Listing(u, n)'
    BY <1>1, <1>3, <1>4, <1>5, <1>10, <2>4 DEF Stage, Listing
  <2>7. u[n - 1] = t[n - 1]
    BY <1>10, <2>5
  <2>8. Fields(u, n)'
    BY <1>1, <1>3, <1>4, <1>10, <2>1, <2>7 DEF Stage, Fields, SizeLag, QcntLag, queue
  <2>9. Stage(u, n)'
    BY <2>6, <2>8 DEF Stage
  <2>10. \A k \in 0..(n - 1) : value'[u[k]] = value[t[k]]
    BY <1>3, <2>5
  <2>11. QED
    BY <1>1, <1>3, <1>6, <1>7, <1>8, <2>9, <2>10, SameElements
<1>11. QED
  BY <1>9, <1>10

\* The head too, if there is no other element.
LEMMA TailHeadInTime ==
  ASSUME SInv, AInv', status = "running", tail_head
  PROVE  SInv' /\ (Exists' <=> Exists) /\ Contents' = Contents
<1>0. PICK n \in Nat : \E t \in [0..n -> Pointer] : Stage(t, n)
  BY SInvParts
<1>1. PICK t \in [0..n -> Pointer] : Stage(t, n)
  BY <1>0
<1>2. TypeOK /\ RunOK /\ InTime /\ Counted
  BY SInvParts
<1>3. /\ run.pc = "tail_head" /\ run.cmd = "it" /\ run.blk \in Blocks
      /\ UNCHANGED <<q, tail, size, qcnt, memory, status>>
      /\ head' = (IF head = NULL THEN run.blk ELSE head)
      /\ run'.pc = "tail_element" /\ run'.cmd = run.cmd /\ run'.v = run.v /\ run'.blk = run.blk
      /\ q # NULL /\ run.blk # q
  BY <1>2 DEF tail_head, At, Goto, RunOK, Run, Pointing, Cmds, Statements, InTime, Holding, Freeing
<1>4. /\ First = head /\ First' = head' /\ Last(n) = (IF n > 0 THEN run.blk ELSE NULL) /\ Last(n)' = run.blk
      /\ ~Freeing /\ ~Freeing' /\ Holding /\ Holding'
  BY <1>3 DEF First, Last, Freeing, Holding
<1>5. Apart' = Apart /\ Weight' = Weight
  BY <1>3, <1>4 DEF Apart, Weight
<1>6. InTime'
  BY <1>2, <1>3, <1>4 DEF InTime
<1>7. Counted'
  BY <1>2, <1>3 DEF Counted, CountLag, memory
<1>8. Exists' <=> Exists
  BY <1>3, <1>4 DEF Exists
<1>9. UNCHANGED <<next, value, allocated>>
  BY <1>3 DEF memory
<1>10. CASE n = 0
  <2>0. PICK u : u = [t EXCEPT ![n] = run.blk]
    OBVIOUS
  <2>1. head = NULL /\ run.blk \in Pointer
    BY <1>1, <1>3, <1>4, <1>10 DEF Stage, Listing, Walk, Pointer
  <2>2. Walk(u, n, head', next', run.blk)
    BY <1>3, <1>10, <2>0, <2>1 DEF Walk
  <2>3. Used(u, n) = Used(t, n)
    BY <1>10 DEF Used
  <2>4. Listing(u, n)'
    BY <1>1, <1>4, <1>5, <1>9, <2>2, <2>3 DEF Stage, Listing
  <2>5. Fields(u, n)'
    BY <1>1, <1>3, <1>4, <1>10 DEF Stage, Fields, SizeLag, QcntLag
  <2>6. Stage(u, n)'
    BY <2>4, <2>5 DEF Stage
  <2>7. \A k \in 0..(n - 1) : value'[u[k]] = value[t[k]]
    BY <1>10
  <2>8. QED
    BY <1>1, <1>3, <1>6, <1>7, <1>8, <2>6, <2>7, SameElements
<1>11. CASE n # 0
  <2>1. head # NULL
    BY <1>1, <1>4, <1>11, QueueAssumption DEF Stage, Listing, Walk
  <2>2. First' = First /\ Last(n)' = Last(n)
    BY <1>3, <1>4, <1>11, <2>1
  <2>3. Fields(t, n)'
    BY <1>1, <1>3, <1>4 DEF Stage, Fields, SizeLag, QcntLag
  <2>4. QED
    BY <1>1, <1>3, <1>4, <1>6, <1>7, <1>9, <2>2, <2>3, Quiet
<1>12. QED
  BY <1>10, <1>11

\* In time every block that is freed is in use.
LEMMA FreeInTime ==
  ASSUME SInv, AInv', status = "running", free
  PROVE  SInv' /\ (Exists' <=> Exists) /\ Contents' = Contents
<1>0. PICK n \in Nat : \E t \in [0..n -> Pointer] : Stage(t, n)
  BY SInvParts
<1>1. PICK t \in [0..n -> Pointer] : Stage(t, n)
  BY <1>0
<1>2. TypeOK /\ RunOK /\ Prepared /\ InTime /\ Counted
  BY SInvParts
<1>3. /\ run.pc = "free" /\ run.cmd \in {"rh", "free", "quit"} /\ run.blk \in Blocks
      /\ test_free(run.blk) /\ UNCHANGED <<queue, qcnt>>
      /\ run'.pc = "uncount" /\ run'.cmd = run.cmd /\ run'.v = run.v /\ run'.blk = run.blk
      /\ run'.tmp = run.tmp
  BY <1>2 DEF free, At, Goto, RunOK, Run, Pointing, Cmds, Statements
<1>4. First' = First /\ Last(n)' = Last(n) /\ (Freeing' <=> Freeing) /\ Holding /\ ~Holding'
  BY <1>3 DEF First, Last, Freeing, Holding, queue
<1>5. run.blk \in allocated /\ run.blk \notin Used(t, n)
  BY <1>1, <1>4 DEF Stage, Listing, Apart
<1>6. /\ allocated' = allocated \ {run.blk} /\ UNCHANGED <<allocated_count, status>>
      /\ next' = [next EXCEPT ![run.blk] = FILL] /\ value' = [value EXCEPT ![run.blk] = FILL]
  BY <1>3, <1>5 DEF test_free
<1>7. Walk(t, n, First, next', Last(n))
  BY <1>1, <1>2, <1>3, <1>5, <1>6, WalkAround DEF Stage, Listing, TypeOK
<1>8. Cardinality(allocated') = Cardinality(allocated) - 1 /\ Cardinality(allocated) \in Nat
  BY <1>2, <1>5, <1>6, StageFits, FS_RemoveElement
<1>9. q # NULL /\ ~Freeing => run.blk # q
  BY <1>2, <1>4 DEF InTime
<1>10. Listing(t, n)'
  <2>1. Apart' = Apart \ {run.blk} /\ Weight' = Weight - 1 /\ Weight \in Nat
    BY <1>3, <1>4, <1>9 DEF Apart, Weight, queue
  <2>2. QED
    BY <1>1, <1>4, <1>5, <1>6, <1>7, <1>8, <2>1 DEF Stage, Listing
<1>11. Fields(t, n)'
  BY <1>1, <1>3, <1>4 DEF Stage, Fields, SizeLag, QcntLag, queue
<1>12. InTime'
  BY <1>2, <1>3, <1>4 DEF InTime, queue
<1>13. Counted'
  BY <1>2, <1>3, <1>6, <1>8 DEF Counted, CountLag
<1>14. \A k \in 0..(n - 1) : value'[t[k]] = value[t[k]]
  BY <1>2, <1>5, <1>6 DEF Used, TypeOK
<1>15. Exists' <=> Exists
  BY <1>3, <1>4 DEF Exists, queue
<1>16. Stage(t, n)'
  BY <1>10, <1>11 DEF Stage
<1>17. QED
  BY <1>1, <1>6, <1>12, <1>13, <1>14, <1>15, <1>16, SameElements

\* q_free goes on to the next element.
LEMMA FreeNextInTime ==
  ASSUME SInv, AInv', status = "running", free_next, run.tmp \in Blocks
  PROVE  SInv' /\ (Exists' <=> Exists) /\ Contents' = Contents
<1>0. PICK n \in Nat : \E t \in [0..n -> Pointer] : Stage(t, n)
  BY SInvParts
<1>1. PICK t \in [0..n -> Pointer] : Stage(t, n)
  BY <1>0
<1>2. TypeOK /\ RunOK /\ Prepared /\ InTime /\ Counted
  BY SInvParts
<1>3. /\ run.pc = "free_next" /\ run.cmd \in {"free", "quit"} /\ q # NULL
      /\ UNCHANGED <<queue, qcnt, memory, status>>
      /\ run'.pc = "free" /\ run'.cmd = run.cmd /\ run'.blk = run.tmp /\ run'.tmp = next[run.tmp]
  BY <1>2, QueueAssumption DEF free_next, At, Bad, RunOK, Run, Cmds, Statements, InTime
<1>4. /\ First = run.tmp /\ First' = next[run.tmp] /\ Last(n) = NULL /\ Freeing /\ Freeing'
      /\ Holding' /\ ~Holding
  BY <1>3 DEF First, Last, Freeing, Holding, queue
<1>5. PICK u : u = Rest(t, n)
  OBVIOUS
<1>6. PICK m : m = n - 1
  OBVIOUS
<1>7. /\ m \in Nat /\ n = m + 1 /\ Walk(u, m, next[run.tmp], next, NULL)
      /\ Used(t, n) = {run.tmp} \cup Used(u, m) /\ run.tmp \notin Used(u, m)
  <2>1. Walk(t, n, run.tmp, next, NULL)
    BY <1>1, <1>4 DEF Stage, Listing
  <2>2. QED
    BY <1>5, <1>6, <2>1, WalkRest
<1>8. Listing(u, m)'
  <2>1. Apart = {} /\ Apart' = {run.tmp} /\ Weight = 0 /\ Weight' = 1
    BY <1>3, <1>4 DEF Apart, Weight
  <2>2. next' = next /\ allocated' = allocated
    BY <1>3 DEF memory
  <2>3. Walk(u, m, First', next', Last(m)')
    <3>1. Last(m)' = NULL
      BY <1>3 DEF Last
    <3>2. QED
      BY <1>4, <1>7, <2>2, <3>1
  <2>4. allocated = Used(t, n) /\ Cardinality(allocated) = n
    BY <1>1, <2>1 DEF Stage, Listing
  <2>5. QED
    BY <1>7, <2>1, <2>2, <2>3, <2>4 DEF Listing
<1>9. Fields(u, m)'
  BY <1>4 DEF Fields
<1>10. InTime'
  BY <1>3, <1>4 DEF InTime, queue
<1>11. Counted'
  BY <1>2, <1>3 DEF Counted, CountLag, memory
<1>12. Stage(u, m)'
  BY <1>8, <1>9 DEF Stage
<1>13. SInv'
  BY <1>3, <1>7, <1>10, <1>11, <1>12, Staged
<1>14. QED
  BY <1>4, <1>13 DEF Exists, Contents

LEMMA FreeReturned ==
  ASSUME SInv, AInv', status = "running", free_returned
  PROVE  SInv' /\ (Exists' <=> Exists) /\ Contents' = Contents
<1>0. PICK n \in Nat : \E t \in [0..n -> Pointer] : Stage(t, n)
  BY SInvParts
<1>1. PICK t \in [0..n -> Pointer] : Stage(t, n)
  BY <1>0
<1>2. TypeOK /\ RunOK /\ Prepared /\ InTime /\ Counted
  BY SInvParts
<1>3. /\ run.pc = "returned" /\ run.cmd = "free" /\ UNCHANGED <<memory, status>>
      /\ q' = NULL /\ qcnt' = 0
      /\ \/ run'.pc = "malloc" /\ run'.cmd = "new"
         \/ run'.pc = "show" /\ run'.cmd = "free"
  BY <1>2 DEF free_returned, At, Goto, RunOK, Run, Prompt
<1>4. First = NULL /\ First' = NULL /\ Last(n) = NULL /\ Last(n)' = NULL /\ Freeing /\ ~Holding /\ ~Holding'
  BY <1>2, <1>3 DEF First, Last, Freeing, Holding, InTime
<1>5. Apart = {} /\ Apart' = {} /\ Weight = 0 /\ Weight' = 0
  BY <1>3, <1>4 DEF Apart, Weight
<1>6. n = 0
  BY <1>1, <1>4, QueueAssumption DEF Stage, Listing, Walk
<1>7. Listing(t, n)'
  <2>1. next' = next /\ allocated' = allocated
    BY <1>3 DEF memory
  <2>2. QED
    BY <1>1, <1>4, <1>5, <2>1 DEF Stage, Listing
<1>8. Fields(t, n)'
  BY <1>3 DEF Fields
<1>9. InTime'
  BY <1>3, <1>4 DEF InTime
<1>10. Counted'
  BY <1>2, <1>3 DEF Counted, CountLag, memory
<1>11. Stage(t, n)'
  BY <1>7, <1>8 DEF Stage
<1>12. SInv'
  BY <1>1, <1>3, <1>9, <1>10, <1>11, Staged
<1>13. QED
  BY <1>3, <1>4, <1>12 DEF Exists, Contents

LEMMA QuitReturned ==
  ASSUME SInv, AInv', status = "running", quit_returned
  PROVE  SInv' /\ (Exists' <=> Exists) /\ Contents' = Contents
<1>1. status' = "exited" /\ run.pc = "returned" /\ run.cmd = "quit" /\ UNCHANGED <<q, run>>
  BY DEF quit_returned, At, queue
<1>2. SInv'
  BY <1>1 DEF SInv, EndsInTime
<1>3. QED
  BY <1>1, <1>2 DEF Exists, Contents, Freeing

-----------------------------------------------------------------------------
(* The statements with which the operations take effect.                     *)

ListOf(vl, t, n) == [k \in 1..n |-> vl[t[k - 1]]]

Elems == Values \cup {FILL}

LEMMA ListOfIs ==
  ASSUME NEW vl \in [Blocks -> Elems], NEW t, NEW n \in Nat, \A k \in 0..(n - 1) : t[k] \in Blocks
  PROVE  /\ ListOf(vl, t, n) \in Seq(Elems) /\ Len(ListOf(vl, t, n)) = n
         /\ \A k \in 1..n : ListOf(vl, t, n)[k] = vl[t[k - 1]]
<1>1. \A k \in 1..n : k - 1 \in 0..(n - 1)
  OBVIOUS
<1>2. ListOf(vl, t, n) \in [1..n -> Elems]
  BY <1>1 DEF ListOf
<1>3. QED
  BY <1>2 DEF ListOf

\* An element before the others.
LEMMA ListOfPush ==
  ASSUME NEW vl \in [Blocks -> Elems], NEW t, NEW n \in Nat, \A k \in 0..(n - 1) : t[k] \in Blocks,
         NEW b \in Blocks
  PROVE  ListOf(vl, Push(b, t, n), n + 1) = <<vl[b]>> \o ListOf(vl, t, n)
<1> DEFINE u == Push(b, t, n)
           s == ListOf(vl, t, n)
           x == ListOf(vl, u, n + 1)
<1>1. u[0] = b /\ \A k \in 1..n : u[k] = t[k - 1]
  BY DEF Push
<1>2. \A k \in 0..n : u[k] \in Blocks
  BY <1>1
<1> HIDE DEF u
<1>3. n + 1 \in Nat /\ n + 1 - 1 = n
  OBVIOUS
<1>4. x \in Seq(Elems) /\ Len(x) = n + 1 /\ \A k \in 1..(n + 1) : x[k] = vl[u[k - 1]]
  BY <1>2, <1>3, ListOfIs
<1>5. s \in Seq(Elems) /\ Len(s) = n /\ \A k \in 1..n : s[k] = vl[t[k - 1]]
  BY ListOfIs
<1> HIDE DEF s, x
<1> DEFINE y == <<vl[b]>> \o s
<1>6. <<vl[b]>> \in Seq(Elems) /\ Len(<<vl[b]>>) = 1 /\ <<vl[b]>>[1] = vl[b]
  OBVIOUS
<1>7. /\ y \in Seq(Elems) /\ Len(y) = n + 1
      /\ \A k \in 1..(n + 1) : y[k] = IF k <= 1 THEN <<vl[b]>>[k] ELSE s[k - 1]
  BY <1>5, <1>6, ConcatProperties
<1> HIDE DEF y
<1>8. ASSUME NEW k \in 1..(n + 1)
      PROVE  x[k] = y[k]
  <2>1. CASE k = 1
    BY <1>1, <1>4, <1>6, <1>7, <2>1
  <2>2. CASE k # 1
    <3>1. k - 1 \in 1..n
      BY <2>2
    <3>2. u[k - 1] = t[k - 1 - 1] /\ s[k - 1] = vl[t[k - 1 - 1]] /\ ~(k <= 1)
      BY <1>1, <1>5, <3>1
    <3>3. QED
      BY <1>4, <1>7, <3>2
  <2>3. QED
    BY <2>1, <2>2
<1>9. x = y
  BY <1>4, <1>7, <1>8, SeqEqual
<1>10. QED
  BY <1>9 DEF x, y, s, u

\* An element after the others.
LEMMA ListOfLong ==
  ASSUME NEW vl \in [Blocks -> Elems], NEW t, NEW n \in Nat, \A k \in 0..n : t[k] \in Blocks
  PROVE  ListOf(vl, Long(t, n), n + 1) = Append(ListOf(vl, t, n), vl[t[n]])
<1> DEFINE u == Long(t, n)
           s == ListOf(vl, t, n)
           x == ListOf(vl, u, n + 1)
<1>1. \A k \in 0..n : u[k] = t[k]
  BY DEF Long
<1> HIDE DEF u
<1>2. n + 1 \in Nat /\ n + 1 - 1 = n
  OBVIOUS
<1>3. x \in Seq(Elems) /\ Len(x) = n + 1 /\ \A k \in 1..(n + 1) : x[k] = vl[u[k - 1]]
  BY <1>1, <1>2, ListOfIs
<1>4. s \in Seq(Elems) /\ Len(s) = n /\ \A k \in 1..n : s[k] = vl[t[k - 1]]
  BY ListOfIs
<1> HIDE DEF s, x
<1> DEFINE y == Append(s, vl[t[n]])
<1>5. /\ y \in Seq(Elems) /\ Len(y) = n + 1
      /\ \A k \in 1..n : y[k] = s[k]
      /\ y[n + 1] = vl[t[n]]
  BY <1>4
<1> HIDE DEF y
<1>6. ASSUME NEW k \in 1..(n + 1)
      PROVE  x[k] = y[k]
  <2>1. k - 1 \in 0..n
    OBVIOUS
  <2>2. x[k] = vl[t[k - 1]]
    BY <1>1, <1>3, <2>1
  <2>3. CASE k = n + 1
    BY <1>5, <2>2, <2>3
  <2>4. CASE k # n + 1
    BY <1>4, <1>5, <2>2, <2>4
  <2>5. QED
    BY <2>3, <2>4
<1>7. x = y
  BY <1>3, <1>5, <1>6, SeqEqual
<1>8. QED
  BY <1>7 DEF x, y, s, u

\* All elements but the first.
LEMMA ListOfRest ==
  ASSUME NEW vl \in [Blocks -> Elems], NEW t, NEW n \in Nat \ {0}, \A k \in 0..(n - 1) : t[k] \in Blocks
  PROVE  ListOf(vl, t, n) # <<>> /\ ListOf(vl, Rest(t, n), n - 1) = Tail(ListOf(vl, t, n))
<1> DEFINE u == Rest(t, n)
           s == ListOf(vl, t, n)
           x == ListOf(vl, u, n - 1)
<1>1. \A k \in 0..(n - 1 - 1) : u[k] = t[k + 1] /\ u[k] \in Blocks
  BY DEF Rest
<1> HIDE DEF u
<1>2. n - 1 \in Nat
  OBVIOUS
<1>3. x \in Seq(Elems) /\ Len(x) = n - 1 /\ \A k \in 1..(n - 1) : x[k] = vl[u[k - 1]]
  BY <1>1, <1>2, ListOfIs
<1>4. s \in Seq(Elems) /\ Len(s) = n /\ \A k \in 1..n : s[k] = vl[t[k - 1]]
  BY ListOfIs
<1> HIDE DEF s, x
<1>5. s # <<>>
  BY <1>4
<1> DEFINE y == Tail(s)
<1>6. /\ y \in Seq(Elems) /\ Len(y) = n - 1
      /\ \A k \in 1..(n - 1) : y[k] = s[k + 1]
  BY <1>4, <1>5, HeadTailProperties
<1> HIDE DEF y
<1>7. ASSUME NEW k \in 1..(n - 1)
      PROVE  x[k] = y[k]
  <2>1. k - 1 \in 0..(n - 1 - 1) /\ k + 1 \in 1..n /\ k - 1 + 1 = k /\ k + 1 - 1 = k
    OBVIOUS
  <2>2. x[k] = vl[t[k]]
    BY <1>1, <1>3, <2>1
  <2>3. y[k] = vl[t[k]]
    BY <1>4, <1>6, <2>1
  <2>4. QED
    BY <2>2, <2>3
<1>8. x = y
  BY <1>3, <1>6, <1>7, SeqEqual
<1>9. QED
  BY <1>5, <1>8 DEF x, y, s, u

LEMMA ElementsAreBlocks ==
  ASSUME NEW t, NEW n, Stage(t, n)
  PROVE  (\A k \in 0..(n - 1) : t[k] \in Blocks) /\ (\A k \in 0..(n - 1) : t[k] \in Used(t, n))
BY DEF Stage, Listing, Walk, Used

LEMMA ContentsAreList ==
  ASSUME SInv, status = "running", NEW t, NEW n, Stage(t, n), Exists
  PROVE  Contents = ListOf(value, t, n)
BY ContentsAre, SInvParts DEF Listed, ListOf

\* The assignment to the head inserts the new element.
LEMMA HeadHeadInTime ==
  ASSUME SInv, AInv', status = "running", head_head
  PROVE  SInv' /\ Exists /\ Exists' /\ run.v \in Values /\ Contents' = <<run.v>> \o Contents
<1>0. PICK n \in Nat : \E t \in [0..n -> Pointer] : Stage(t, n)
  BY SInvParts
<1>1. PICK t \in [0..n -> Pointer] : Stage(t, n)
  BY <1>0
<1>2. TypeOK /\ RunOK /\ Prepared /\ InTime /\ Counted
  BY SInvParts
<1>3. /\ run.pc = "head_head" /\ run.cmd = "ih" /\ run.blk \in Blocks /\ run.v \in Values
      /\ head' = run.blk /\ UNCHANGED <<q, tail, size, qcnt, memory, status>>
      /\ run'.pc = "grow" /\ run'.cmd = run.cmd /\ run'.v = run.v
      /\ q # NULL /\ run.blk # q /\ next[run.blk] = head /\ value[run.blk] = run.v
  BY <1>2 DEF head_head, At, Goto, RunOK, Run, Pointing, Cmds, Statements, InTime, Prepared, Holding, Freeing
<1>4. /\ First = head /\ First' = run.blk /\ Last(n) = NULL /\ ~Freeing /\ ~Freeing'
      /\ Holding /\ ~Holding'
  BY <1>3 DEF First, Last, Freeing, Holding
<1>5. /\ Apart = {q, run.blk} /\ Apart' = {q} /\ Weight = 2 /\ Weight' = 1
  BY <1>3, <1>4 DEF Apart, Weight
<1>6. PICK u : u = Push(run.blk, t, n)
  OBVIOUS
<1>7. PICK m : m = n + 1
  OBVIOUS
<1>8. Walk(t, n, head, next, NULL) /\ Last(m)' = NULL
  BY <1>1, <1>3, <1>4 DEF Stage, Listing, Last
<1>9. Walk(u, m, run.blk, next, NULL)
  BY <1>3, <1>6, <1>7, <1>8, WalkPush
<1>10. Used(u, m) = {run.blk} \cup Used(t, n)
  BY <1>6, <1>7, UsedPush
<1>11. Listing(u, m)'
  <2>1. next' = next /\ allocated' = allocated
    BY <1>3 DEF memory
  <2>2. Walk(u, m, First', next', Last(m)')
    BY <1>4, <1>8, <1>9, <2>1
  <2>3. /\ allocated = {q, run.blk} \cup Used(t, n) /\ {q, run.blk} \cap Used(t, n) = {}
        /\ Cardinality(allocated) = n + 2
    BY <1>1, <1>5 DEF Stage, Listing
  <2>4. Cardinality(allocated) = m + 1
    BY <1>7, <2>3
  <2>5. QED
    BY <1>3, <1>5, <1>10, <2>1, <2>2, <2>3, <2>4 DEF Listing
<1>12. Fields(u, m)'
  <2>1. tail # q /\ size = n /\ qcnt = size
    BY <1>1, <1>3, <1>4 DEF Stage, Fields, SizeLag, QcntLag
  <2>2. SizeLag' = -1 /\ QcntLag' = 0
    BY <1>3 DEF SizeLag, QcntLag
  <2>3. tail = u[n]
    <3>1. u[n] = IF n = 0 THEN run.blk ELSE t[n - 1]
      BY <1>6 DEF Push
    <3>2. QED
      BY <1>1, <1>3, <1>4, <3>1 DEF Stage, Fields
  <2>4. size = m - 1 /\ m - 1 = n
    BY <1>7, <2>1
  <2>5. QED
    BY <1>3, <2>1, <2>2, <2>3, <2>4, <1>7 DEF Fields
<1>13. InTime'
  BY <1>3, <1>4 DEF InTime
<1>14. Counted'
  BY <1>2, <1>3 DEF Counted, CountLag, memory
<1>15. Stage(u, m)' /\ m \in Nat
  BY <1>7, <1>11, <1>12 DEF Stage
<1>16. SInv' /\ (Exists' => Contents' = Listed(u, m)')
  BY <1>3, <1>13, <1>14, <1>15, Staged
<1>17. Exists /\ Exists'
  BY <1>3, <1>4 DEF Exists
<1>18. Contents = ListOf(value, t, n)
  BY <1>1, <1>17, ContentsAreList
<1>19. Listed(u, m)' = ListOf(value, u, m)
  BY <1>3 DEF Listed, ListOf, memory
<1>20. ListOf(value, u, m) = <<run.v>> \o ListOf(value, t, n)
  <2>1. value \in [Blocks -> Elems]
    BY <1>2 DEF TypeOK, Elems
  <2>2. ListOf(value, Push(run.blk, t, n), n + 1) = <<value[run.blk]>> \o ListOf(value, t, n)
    BY <1>1, <1>3, <2>1, ElementsAreBlocks, ListOfPush
  <2>3. QED
    BY <1>3, <1>6, <1>7, <2>2
<1>21. QED
  BY <1>3, <1>16, <1>17, <1>18, <1>19, <1>20

\* The element that q_insert_tail fills is the last one.
LEMMA TailElementInTime ==
  ASSUME SInv, AInv', status = "running", tail_element
  PROVE  SInv' /\ Exists /\ Exists' /\ run.v \in Values /\ Contents' = Append(Contents, run.v)
<1>0. PICK n \in Nat : \E t \in [0..n -> Pointer] : Stage(t, n)
  BY SInvParts
<1>1. PICK t \in [0..n -> Pointer] : Stage(t, n)
  BY <1>0
<1>2. TypeOK /\ RunOK /\ Prepared /\ InTime /\ Counted
  BY SInvParts
<1>3. /\ run.pc = "tail_element" /\ run.cmd = "it" /\ run.blk \in Blocks /\ run.v \in Values
      /\ UNCHANGED <<queue, qcnt, allocated, allocated_count, status>>
      /\ value' = [value EXCEPT ![run.blk] = run.v] /\ next' = [next EXCEPT ![run.blk] = NULL]
      /\ run'.pc = "grow" /\ run'.cmd = run.cmd /\ run'.v = run.v
      /\ q # NULL /\ run.blk # q
  BY <1>2 DEF tail_element, At, Goto, RunOK, Run, Pointing, Cmds, Statements, InTime, Holding, Freeing
<1>4. /\ First = head /\ First' = head /\ Last(n) = run.blk /\ ~Freeing /\ ~Freeing'
      /\ Holding /\ ~Holding'
  BY <1>3 DEF First, Last, Freeing, Holding, queue
<1>5. /\ Apart = {q, run.blk} /\ Apart' = {q} /\ Weight = 2 /\ Weight' = 1
  BY <1>3, <1>4 DEF Apart, Weight, queue
<1>6. PICK u : u = Long(t, n)
  OBVIOUS
<1>7. PICK m : m = n + 1
  OBVIOUS
<1>8. Walk(t, n, head, next, run.blk) /\ Last(m)' = NULL /\ run.blk \notin Used(t, n)
  BY <1>1, <1>3, <1>4, <1>5 DEF Stage, Listing, Last
<1>9. Walk(t, n, head, next', run.blk) /\ next'[run.blk] = NULL
  BY <1>2, <1>3, <1>8, WalkAround DEF TypeOK
<1>10. Walk(u, m, head, next', NULL)
  BY <1>3, <1>6, <1>7, <1>9, WalkLong
<1>11. Used(u, m) = {run.blk} \cup Used(t, n)
  <2>1. t[n] = run.blk
    BY <1>8 DEF Walk
  <2>2. QED
    BY <1>6, <1>7, <2>1, UsedLong
<1>12. Listing(u, m)'
  <2>1. allocated' = allocated
    BY <1>3
  <2>2. Walk(u, m, First', next', Last(m)')
    BY <1>4, <1>8, <1>10
  <2>3. /\ allocated = {q, run.blk} \cup Used(t, n) /\ {q, run.blk} \cap Used(t, n) = {}
        /\ Cardinality(allocated) = n + 2
    BY <1>1, <1>5 DEF Stage, Listing
  <2>4. Cardinality(allocated) = m + 1
    BY <1>7, <2>3
  <2>5. QED
    BY <1>3, <1>5, <1>11, <2>1, <2>2, <2>3, <2>4 DEF Listing
<1>13. Fields(u, m)'
  <2>1. tail # q /\ size = n /\ qcnt = size /\ tail = run.blk
    BY <1>1, <1>3, <1>4 DEF Stage, Fields, SizeLag, QcntLag
  <2>2. SizeLag' = -1 /\ QcntLag' = 0
    BY <1>3 DEF SizeLag, QcntLag
  <2>3. tail = u[n]
    BY <1>6, <1>8, <2>1 DEF Long, Walk
  <2>4. size = m - 1 /\ m - 1 = n
    BY <1>7, <2>1
  <2>5. QED
    BY <1>3, <2>1, <2>2, <2>3, <2>4, <1>7 DEF Fields, queue
<1>14. InTime'
  BY <1>3, <1>4 DEF InTime, queue
<1>15. Counted'
  BY <1>2, <1>3 DEF Counted, CountLag
<1>16. Stage(u, m)' /\ m \in Nat
  BY <1>7, <1>12, <1>13 DEF Stage
<1>17. SInv' /\ (Exists' => Contents' = Listed(u, m)')
  BY <1>3, <1>14, <1>15, <1>16, Staged
<1>18. Exists /\ Exists'
  BY <1>3, <1>4 DEF Exists, queue
<1>19. Contents = ListOf(value, t, n)
  BY <1>1, <1>18, ContentsAreList
<1>20. Listed(u, m)' = ListOf(value', u, m)
  BY DEF Listed, ListOf
<1>21. ListOf(value', u, m) = Append(ListOf(value, t, n), run.v)
  <2>1. value' \in [Blocks -> Elems]
    BY <1>2, <1>3 DEF TypeOK, Elems
  <2>2. t[n] = run.blk /\ \A k \in 0..n : t[k] \in Blocks
    BY <1>3, <1>8 DEF Walk
  <2>3. ListOf(value', Long(t, n), n + 1) = Append(ListOf(value', t, n), value'[t[n]])
    BY <2>1, <2>2, ListOfLong
  <2>4. value'[t[n]] = run.v
    BY <1>2, <1>3, <2>2 DEF TypeOK
  <2>5. ListOf(value', t, n) = ListOf(value, t, n)
    <3>1. ASSUME NEW k \in 1..n
          PROVE  value'[t[k - 1]] = value[t[k - 1]]
      <4>1. k - 1 \in 0..(n - 1)
        OBVIOUS
      <4>2. t[k - 1] # run.blk /\ t[k - 1] \in Blocks
        BY <1>1, <1>8, <4>1, ElementsAreBlocks
      <4>3. QED
        BY <1>2, <1>3, <4>2 DEF TypeOK
    <3>2. QED
      BY <3>1 DEF ListOf
  <2>6. QED
    BY <1>6, <1>7, <2>3, <2>4, <2>5
<1>22. QED
  BY <1>3, <1>17, <1>18, <1>19, <1>20, <1>21

\* The assignment to the head removes the first element.
LEMMA UnlinkInTime ==
  ASSUME SInv, AInv', status = "running", unlink
  PROVE  SInv' /\ Exists /\ Exists' /\ Contents # <<>> /\ Contents' = Tail(Contents)
<1>0. PICK n \in Nat : \E t \in [0..n -> Pointer] : Stage(t, n)
  BY SInvParts
<1>1. PICK t \in [0..n -> Pointer] : Stage(t, n)
  BY <1>0
<1>2. TypeOK /\ RunOK /\ Prepared /\ InTime /\ Counted
  BY SInvParts
<1>3. /\ run.pc = "unlink" /\ run.cmd = "rh" /\ run.blk \in Blocks /\ run.blk = head
      /\ head' = next[head] /\ UNCHANGED <<q, tail, size, qcnt, memory, status>>
      /\ run'.pc = "free" /\ run'.cmd = run.cmd /\ run'.v = run.v /\ run'.blk = run.blk
      /\ q # NULL
  BY <1>2 DEF unlink, At, Goto, RunOK, Run, Pointing, Cmds, Statements, InTime, Prepared
<1>4. /\ First = head /\ First' = next[head] /\ Last(n) = NULL /\ ~Freeing /\ ~Freeing'
      /\ ~Holding /\ Holding'
  BY <1>3 DEF First, Last, Freeing, Holding
<1>5. /\ Apart = {q} /\ Apart' = {q, head} /\ Weight = 1 /\ Weight' = 2
  BY <1>3, <1>4 DEF Apart, Weight
<1>6. PICK u : u = Rest(t, n)
  OBVIOUS
<1>7. PICK m : m = n - 1
  OBVIOUS
<1>8. Walk(t, n, head, next, NULL) /\ Last(m)' = NULL
  BY <1>1, <1>3, <1>4 DEF Stage, Listing, Last
<1>9. /\ m \in Nat /\ n = m + 1 /\ Walk(u, m, next[head], next, NULL)
      /\ Used(t, n) = {head} \cup Used(u, m) /\ head \notin Used(u, m)
  BY <1>3, <1>6, <1>7, <1>8, WalkRest
<1>10. Listing(u, m)' /\ head # q
  <2>1. next' = next /\ allocated' = allocated
    BY <1>3 DEF memory
  <2>2. Walk(u, m, First', next', Last(m)')
    BY <1>4, <1>8, <1>9, <2>1
  <2>3. /\ allocated = {q} \cup Used(t, n) /\ q \notin Used(t, n) /\ Cardinality(allocated) = n + 1
    BY <1>1, <1>5 DEF Stage, Listing
  <2>4. Cardinality(allocated) = m + 2
    BY <1>9, <2>3
  <2>5. QED
    BY <1>3, <1>5, <1>9, <2>1, <2>2, <2>3, <2>4 DEF Listing
<1>11. Fields(u, m)'
  <2>1. tail # q /\ size = n /\ qcnt = size
    BY <1>1, <1>3, <1>4 DEF Stage, Fields, SizeLag, QcntLag
  <2>2. SizeLag' = 1 /\ QcntLag' = 0
    BY <1>3 DEF SizeLag, QcntLag
  <2>3. m > 0 => tail = u[m - 1]
    <3>1. SUFFICES ASSUME m > 0
                   PROVE  tail = u[m - 1]
      OBVIOUS
    <3>2. m - 1 \in 0..(n - 1) /\ m - 1 + 1 = n - 1 /\ n > 0
      BY <1>9, <3>1
    <3>3. u[m - 1] = t[n - 1]
      BY <1>6, <3>2 DEF Rest
    <3>4. QED
      BY <1>1, <1>3, <1>4, <3>2, <3>3 DEF Stage, Fields
  <2>4. size = m + 1
    BY <1>9, <2>1
  <2>5. QED
    BY <1>3, <2>1, <2>2, <2>3, <2>4 DEF Fields
<1>12. InTime'
  BY <1>3, <1>4, <1>10 DEF InTime
<1>13. Counted'
  BY <1>2, <1>3 DEF Counted, CountLag, memory
<1>14. Stage(u, m)'
  BY <1>10, <1>11 DEF Stage
<1>15. SInv' /\ (Exists' => Contents' = Listed(u, m)')
  BY <1>3, <1>9, <1>12, <1>13, <1>14, Staged
<1>16. Exists /\ Exists'
  BY <1>3, <1>4 DEF Exists
<1>17. Contents = ListOf(value, t, n)
  BY <1>1, <1>16, ContentsAreList
<1>18. Listed(u, m)' = ListOf(value, u, m)
  BY <1>3 DEF Listed, ListOf, memory
<1>19. ListOf(value, t, n) # <<>> /\ ListOf(value, u, m) = Tail(ListOf(value, t, n))
  <2>1. value \in [Blocks -> Elems]
    BY <1>2 DEF TypeOK, Elems
  <2>2. n \in Nat \ {0} /\ \A k \in 0..(n - 1) : t[k] \in Blocks
    BY <1>1, <1>9, ElementsAreBlocks
  <2>3. ListOf(value, t, n) # <<>>
    BY <2>1, <2>2, ListOfRest
  <2>4. ListOf(value, Rest(t, n), n - 1) = Tail(ListOf(value, t, n))
    BY <2>1, <2>2, ListOfRest
  <2>5. QED
    BY <1>6, <1>7, <2>3, <2>4
<1>20. QED
  BY <1>15, <1>16, <1>17, <1>18, <1>19

\* The queue ceases to exist when its block is given back.
LEMMA FreeQueueInTime ==
  ASSUME SInv, AInv', status = "running", free_queue, q # NULL
  PROVE  SInv' /\ Exists /\ ~Exists' /\ Contents' = <<>>
<1>0. PICK n \in Nat : \E t \in [0..n -> Pointer] : Stage(t, n)
  BY SInvParts
<1>1. PICK t \in [0..n -> Pointer] : Stage(t, n)
  BY <1>0
<1>2. TypeOK /\ RunOK /\ Prepared /\ InTime /\ Counted
  BY SInvParts
<1>3. /\ run.pc = "free_queue" /\ run.cmd \in {"free", "quit"} /\ test_free(q)
      /\ UNCHANGED <<queue, qcnt>>
      /\ run'.pc = "uncount" /\ run'.cmd = run.cmd /\ run'.tmp = head
  BY <1>2 DEF free_queue, At, RunOK, Run, Cmds, Statements
<1>4. /\ First = head /\ First' = head /\ Last(n) = NULL /\ Last(n)' = NULL /\ ~Freeing /\ Freeing'
      /\ ~Holding /\ ~Holding'
  BY <1>3 DEF First, Last, Freeing, Holding, queue
<1>5. Apart = {q} /\ Apart' = {} /\ Weight = 1 /\ Weight' = 0
  BY <1>3, <1>4 DEF Apart, Weight
<1>6. /\ allocated = {q} \cup Used(t, n) /\ q \notin Used(t, n) /\ Cardinality(allocated) = n + 1
      /\ Walk(t, n, head, next, NULL)
  BY <1>1, <1>4, <1>5 DEF Stage, Listing
<1>7. /\ allocated' = allocated \ {q} /\ UNCHANGED <<allocated_count, status>>
      /\ next' = [next EXCEPT ![q] = FILL]
  BY <1>3, <1>6 DEF test_free
<1>8. Walk(t, n, head, next', NULL)
  BY <1>2, <1>6, <1>7, WalkAround DEF TypeOK
<1>9. Cardinality(allocated') = Cardinality(allocated) - 1 /\ Cardinality(allocated) \in Nat
  BY <1>2, <1>6, <1>7, StageFits, FS_RemoveElement
<1>10. Listing(t, n)'
  BY <1>4, <1>5, <1>6, <1>7, <1>8, <1>9 DEF Listing
<1>11. Fields(t, n)'
  BY <1>4 DEF Fields
<1>12. InTime'
  BY <1>3, <1>4 DEF InTime, queue
<1>13. Counted'
  BY <1>2, <1>3, <1>7, <1>9 DEF Counted, CountLag
<1>14. Stage(t, n)'
  BY <1>10, <1>11 DEF Stage
<1>15. SInv'
  BY <1>1, <1>7, <1>12, <1>13, <1>14, Staged
<1>16. QED
  BY <1>4, <1>15 DEF Exists, Contents

\* The queue exists when it is assigned to q.
LEMMA NewReturned ==
  ASSUME SInv, AInv', status = "running", new_returned
  PROVE  SInv' /\ ~Exists /\ (IF run.rval THEN Exists' /\ Contents' = <<>>
                              ELSE ~Exists' /\ Contents' = Contents)
<1>0. PICK n \in Nat : \E t \in [0..n -> Pointer] : Stage(t, n)
  BY SInvParts
<1>1. PICK t \in [0..n -> Pointer] : Stage(t, n)
  BY <1>0
<1>2. TypeOK /\ RunOK /\ Prepared /\ InTime /\ Counted
  BY SInvParts
<1>3. /\ run.pc = "returned" /\ run.cmd = "new" /\ q = NULL
      /\ q' = (IF run.rval THEN run.blk ELSE NULL) /\ qcnt' = 0
      /\ UNCHANGED <<head, tail, size, memory, status>>
      /\ run'.pc = "show" /\ run'.cmd = "new"
  BY <1>2 DEF new_returned, At, Goto, RunOK, Run, Cmds, Statements, Prepared
<1>4. run.rval => head = NULL /\ tail = NULL /\ size = 0 /\ run.blk \in Blocks
  BY <1>2, <1>3 DEF InTime, RunOK
<1>5. q' # NULL <=> run.rval
  BY <1>3, <1>4, QueueAssumption
<1>6. /\ First = NULL /\ First' = NULL /\ Last(n) = NULL /\ Last(n)' = NULL /\ ~Freeing /\ ~Freeing'
      /\ (Holding <=> run.rval) /\ ~Holding'
  BY <1>3, <1>4 DEF First, Last, Freeing, Holding
<1>7. n = 0
  BY <1>1, <1>6, QueueAssumption DEF Stage, Listing, Walk
<1>8. Apart' = Apart /\ Weight' = Weight
  <2>1. CASE run.rval
    BY <1>3, <1>5, <1>6, <2>1 DEF Apart, Weight
  <2>2. CASE ~run.rval
    BY <1>3, <1>5, <1>6, <2>2 DEF Apart, Weight
  <2>3. QED
    BY <2>1, <2>2
<1>9. Listing(t, n)'
  <2>1. next' = next /\ allocated' = allocated
    BY <1>3 DEF memory
  <2>2. QED
    BY <1>1, <1>6, <1>8, <2>1 DEF Stage, Listing
<1>10. Fields(t, n)'
  BY <1>3, <1>4, <1>5, <1>7 DEF Fields, SizeLag, QcntLag
<1>11. InTime'
  BY <1>3, <1>6 DEF InTime
<1>12. Counted'
  BY <1>2, <1>3 DEF Counted, CountLag, memory
<1>13. Stage(t, n)'
  BY <1>9, <1>10 DEF Stage
<1>14. SInv' /\ (Exists' => Contents' = Listed(t, n)')
  BY <1>1, <1>3, <1>11, <1>12, <1>13, Staged
<1>15. ~Exists /\ (Exists' <=> run.rval)
  BY <1>3, <1>5, <1>6 DEF Exists
<1>16. Listed(t, n)' = <<>>
  BY <1>7 DEF Listed
<1>17. Contents = <<>> /\ (~run.rval => Contents' = <<>>)
  BY <1>3, <1>5 DEF Contents
<1>18. QED
  BY <1>14, <1>15, <1>16, <1>17

-----------------------------------------------------------------------------
(* In time: the theorems.                                                    *)

LEMMA SInvInit == Init => SInv /\ ~Exists /\ Contents = <<>>
<1> SUFFICES ASSUME Init
             PROVE  SInv /\ ~Exists /\ Contents = <<>>
  OBVIOUS
<1>1. AInv
  BY AInvInit
<1>2. /\ q = NULL /\ run.cmd = "none" /\ run.pc = "prompt" /\ status = "running"
      /\ allocated = {} /\ allocated_count = 0
  BY DEF Init, Prompt
<1>3. First = NULL /\ Last(0) = NULL /\ ~Freeing /\ ~Holding
  BY <1>2 DEF First, Last, Freeing, Holding
<1>4. Cardinality(allocated) = 0
  BY <1>2, FS_EmptySet
<1>5. PICK t : t = [k \in 0..0 |-> NULL]
  OBVIOUS
<1>6. t \in [0..0 -> Pointer] /\ Walk(t, 0, NULL, next, NULL) /\ Used(t, 0) = {}
  BY <1>5 DEF Walk, Pointer, Used
<1>7. Stage(t, 0)
  <2>1. Apart = {} /\ Weight = 0
    BY <1>2, <1>3 DEF Apart, Weight
  <2>2. Listing(t, 0)
    BY <1>2, <1>3, <1>4, <1>6, <2>1 DEF Listing
  <2>3. Fields(t, 0)
    BY <1>2 DEF Fields
  <2>4. QED
    BY <2>2, <2>3 DEF Stage
<1>8. InTime
  BY <1>2, <1>3 DEF InTime
<1>9. Counted
  BY <1>2, <1>4 DEF Counted, CountLag
<1>10. \E n \in Nat : \E u \in [0..n -> Pointer] : Stage(u, n)
  BY <1>6, <1>7
<1>11. SInv
  BY <1>1, <1>2, <1>8, <1>9, <1>10 DEF SInv, EndsInTime
<1>12. QED
  BY <1>2, <1>11 DEF Exists, Contents

\* What a step in time does to the queue its user sees.
Effect ==
  \/ (Exists' <=> Exists) /\ Contents' = Contents
  \/ ~Exists /\ Exists' /\ Contents' = <<>>
  \/ Exists /\ ~Exists' /\ Contents' = <<>>
  \/ Exists /\ Exists' /\ Contents # <<>> /\ Contents' = Tail(Contents)
  \/ Exists /\ Exists' /\ \E v \in Values : Contents' = <<v>> \o Contents \/ Contents' = Append(Contents, v)

LEMMA SInvStep == SInv /\ AInv' /\ [Work]_program => SInv' /\ Effect
<1> SUFFICES ASSUME SInv, AInv', [Work]_program
             PROVE  SInv' /\ Effect
  OBVIOUS
<1>1. CASE UNCHANGED program
  <2>1. UNCHANGED <<q, head, tail, size, qcnt, next, value, allocated, allocated_count, run, status>>
    BY <1>1 DEF program, queue, memory
  <2>2. (Exists' <=> Exists) /\ Contents' = Contents
    BY <2>1, LengthIs, HopIs DEF Exists, Contents, Freeing, Unfilled
  <2>3. CASE status = "running"
    <3>1. InTime' /\ Counted'
      BY <2>1, <2>3, SInvParts DEF InTime, Counted, CountLag, Holding, Freeing
    <3>2. PICK n \in Nat : \E t \in [0..n -> Pointer] : Stage(t, n)
      BY <2>3, SInvParts
    <3>3. PICK t \in [0..n -> Pointer] : Stage(t, n)
      BY <3>2
    <3>4. Fields(t, n)'
      BY <2>1, <3>3 DEF Stage, Fields, SizeLag, QcntLag, Freeing
    <3>5. First' = First /\ Last(n)' = Last(n) /\ (Freeing' <=> Freeing) /\ (Holding' <=> Holding)
      BY <2>1 DEF First, Last, Freeing, Holding
    <3>6. SInv'
      BY <2>1, <2>3, <3>1, <3>3, <3>4, <3>5, Quiet
    <3>7. QED
      BY <2>2, <3>6 DEF Effect
  <2>4. CASE status # "running"
    <3>1. SInv'
      BY <2>1, <2>4 DEF SInv, EndsInTime
    <3>2. QED
      BY <2>2, <3>1 DEF Effect
  <2>5. QED
    BY <2>3, <2>4
<1>2. CASE Work
  <2>0. status = "running"
    BY <1>2 DEF Work, Command, Step, do_new, do_new_frees, do_free, do_remove_head, do_size, do_reverse, queue_quit,
      do_insert_head, do_insert_tail, Begin, malloc_fails, malloc, count, new_queue, insert, link_head, head_tail,
      head_head, link_tail, tail_tail, tail_head, tail_element, grow, remove, unlink, free, uncount, shrink,
      free_queue, free_next, new_returned, free_returned, insert_returned, remove_returned, quit_returned, show, At
  <2>1. CASE Command
    BY <2>0, <2>1, CommandInTime DEF Effect
  <2>2. CASE malloc_fails \/ count \/ new_queue \/ head_tail \/ grow \/ uncount \/ shrink
    BY <2>0, <2>2, QuietSteps DEF Effect
  <2>3. CASE insert \/ remove
    BY <2>0, <2>3, OperationEnds DEF Effect
  <2>4. CASE malloc
    BY <2>0, <2>4, MallocInTime DEF Effect
  <2>5. CASE link_head
    BY <2>0, <2>5, LinkHeadInTime DEF Effect
  <2>6. CASE head_head
    BY <2>0, <2>6, HeadHeadInTime DEF Effect
  <2>7. CASE link_tail
    BY <2>0, <2>7, LinkTailInTime DEF Effect
  <2>8. CASE tail_tail
    BY <2>0, <2>8, TailTailInTime DEF Effect
  <2>9. CASE tail_head
    BY <2>0, <2>9, TailHeadInTime DEF Effect
  <2>10. CASE tail_element
    BY <2>0, <2>10, TailElementInTime DEF Effect
  <2>11. CASE unlink
    BY <2>0, <2>11, UnlinkInTime DEF Effect
  <2>12. CASE free
    BY <2>0, <2>12, FreeInTime DEF Effect
  <2>13. CASE free_queue
    <3>1. CASE q = NULL
      BY <2>0, <2>13, <3>1, OperationEnds DEF Effect
    <3>2. CASE q # NULL
      BY <2>0, <2>13, <3>2, FreeQueueInTime DEF Effect
    <3>3. QED
      BY <3>1, <3>2
  <2>14. CASE free_next
    <3>1. CASE run.tmp \notin Blocks
      BY <2>0, <2>14, <3>1, OperationEnds DEF Effect
    <3>2. CASE run.tmp \in Blocks
      BY <2>0, <2>14, <3>2, FreeNextInTime DEF Effect
    <3>3. QED
      BY <3>1, <3>2
  <2>15. CASE new_returned
    BY <2>0, <2>15, NewReturned DEF Effect
  <2>16. CASE free_returned
    BY <2>0, <2>16, FreeReturned DEF Effect
  <2>17. CASE insert_returned
    BY <2>0, <2>17, InsertReturned DEF Effect
  <2>18. CASE remove_returned
    BY <2>0, <2>18, RemoveReturned DEF Effect
  <2>19. CASE quit_returned
    BY <2>0, <2>19, QuitReturned DEF Effect
  <2>20. CASE show
    BY <2>0, <2>20, ShowInTime DEF Effect
  <2>21. QED
    BY <1>2, <2>1, <2>2, <2>3, <2>4, <2>5, <2>6, <2>7, <2>8, <2>9, <2>10, <2>11, <2>12, <2>13, <2>14, <2>15,
       <2>16, <2>17, <2>18, <2>19, <2>20 DEF Work, Step
<1>3. QED
  BY <1>1, <1>2

\* Until an alarm goes off.
Quietly == alarms \in Nat /\ (alarms = 0 => SInv)

LEMMA QuietlyAlways == Spec => []Quietly
<1>1. Init => Quietly
  BY SInvInit DEF Init, Quietly
<1>2. Quietly /\ [Next]_vars => Quietly'
  <2> SUFFICES ASSUME Quietly, [Next]_vars
               PROVE  Quietly'
    OBVIOUS
  <2>1. CASE sigalrmhandler /\ alarms' = alarms + 1
    BY <2>1 DEF Quietly
  <2>2. CASE [Work]_program /\ UNCHANGED alarms
    <3>1. SInv => SInv'
      BY <2>2, AInvStep, SInvStep DEF SInv
    <3>2. QED
      BY <2>2, <3>1 DEF Quietly
  <2>3. QED
    BY <2>1, <2>2 DEF Next, vars
<1>3. QED
  BY <1>1, <1>2, PTL DEF Spec

\* As long as no alarm has gone off, between commands the blocks of the harness are
\* those of the queue, and everybody who counts elements agrees; the process ends
\* only when it is told.
THEOREM AccountedCorrect == Spec => []Accounted
<1>1. Quietly => Accounted
  <2> SUFFICES ASSUME SInv, At("prompt")
               PROVE  IF q = NULL THEN allocated = {} /\ allocated_count = 0
                      ELSE /\ allocated = {q} \cup Elements /\ q \notin Elements
                           /\ allocated_count = Length + 1 /\ size = Length /\ qcnt = Length
                           /\ Length > 0 => tail = Hop[Length - 1]
    BY DEF Quietly, SInv, EndsInTime, Accounted
  <2>0. status = "running" /\ run.pc = "prompt"
    BY DEF At
  <2>1. PICK n \in Nat : \E t \in [0..n -> Pointer] : Stage(t, n)
    BY <2>0, SInvParts
  <2>2. PICK t \in [0..n -> Pointer] : Stage(t, n)
    BY <2>1
  <2>3. TypeOK /\ RunOK /\ Counted
    BY <2>0, SInvParts
  <2>4. run.cmd = "none"
    BY <2>0, <2>3 DEF RunOK, Run, Cmds, Statements
  <2>5. ~Freeing /\ ~Holding /\ Last(n) = NULL
    BY <2>0, <2>4 DEF Freeing, Holding, Last
  <2>6. allocated_count = n + Weight /\ allocated = Apart \cup Used(t, n) /\ Apart \cap Used(t, n) = {}
    BY <2>0, <2>2, <2>3 DEF Counted, CountLag, Stage, Listing, Weight
  <2>7. CASE q = NULL
    <3>1. Apart = {} /\ Weight = 0 /\ First = NULL
      BY <2>5, <2>7 DEF Apart, Weight, First
    <3>2. n = 0
      BY <2>2, <3>1, QueueAssumption DEF Stage, Listing, Walk
    <3>3. Used(t, n) = {}
      BY <3>2 DEF Used
    <3>4. QED
      BY <2>6, <2>7, <3>1, <3>2, <3>3
  <2>8. CASE q # NULL
    <3>1. Apart = {q} /\ Weight = 1
      BY <2>5, <2>8 DEF Apart, Weight
    <3>2. Length = n /\ \A k \in 1..n : Hop[k - 1] = t[k - 1]
      BY <2>2, <2>3, <2>5, <2>8, ListIs DEF Exists
    <3>3. \A k \in 0..(n - 1) : Hop[k] = t[k]
      <4>1. ASSUME NEW k \in 0..(n - 1)
            PROVE  k + 1 \in 1..n /\ k + 1 - 1 = k
        OBVIOUS
      <4>2. QED
        BY <3>2, <4>1
    <3>4. Elements = Used(t, n)
      BY <3>2, <3>3 DEF Elements, Used
    <3>5. size = n /\ qcnt = n /\ (n > 0 => tail = t[n - 1])
      BY <2>0, <2>2, <2>5, <2>8 DEF Stage, Fields, SizeLag, QcntLag
    <3>6. QED
      BY <2>6, <2>8, <3>1, <3>2, <3>3, <3>4, <3>5
  <2>9. QED
    BY <2>7, <2>8
<1>2. QED
  BY <1>1, QuietlyAlways, PTL

LEMMA RefinesFifo == SInv /\ [Work]_program => [UserQueue!Next]_(UserQueue!vars)
<1> SUFFICES ASSUME SInv, [Work]_program
             PROVE  [UserQueue!Next]_(UserQueue!vars)
  OBVIOUS
<1>1. Effect
  BY AInvStep, SInvStep DEF SInv
<1>2. CASE (Exists' <=> Exists) /\ Contents' = Contents
  BY <1>2 DEF UserQueue!vars, Exists, Contents
<1>3. CASE ~Exists /\ Exists' /\ Contents' = <<>>
  BY <1>3 DEF UserQueue!Next, UserQueue!q_new, Exists, Contents
<1>4. CASE Exists /\ ~Exists' /\ Contents' = <<>>
  BY <1>4 DEF UserQueue!Next, UserQueue!q_free, Exists, Contents
<1>5. CASE Exists /\ Exists' /\ Contents # <<>> /\ Contents' = Tail(Contents)
  BY <1>5 DEF UserQueue!Next, UserQueue!q_remove_head, Exists, Contents
<1>6. ASSUME Exists, Exists', NEW v \in Values, Contents' = <<v>> \o Contents
      PROVE  UserQueue!Next
  BY <1>6 DEF UserQueue!Next, UserQueue!q_insert_head, Exists, Contents
<1>7. ASSUME Exists, Exists', NEW v \in Values, Contents' = Append(Contents, v)
      PROVE  UserQueue!Next
  BY <1>7 DEF UserQueue!Next, UserQueue!q_insert_tail, Exists, Contents
<1>8. QED
  BY <1>1, <1>2, <1>3, <1>4, <1>5, <1>6, <1>7 DEF Effect

\* As long as no alarm has gone off, the operations of queue.c that are finished are
\* those of queue.h: each takes effect in one of its statements, or not at all.
THEOREM ImplementsFifoCorrect == Spec => ImplementsFifo
<1>1. Init => UserQueue!Init
  BY SInvInit DEF UserQueue!Init, Exists, Contents
<1>2. Quietly /\ [Next]_vars
      => [alarms' = 0 /\ ~Unfinished => [UserQueue!Next]_(UserQueue!vars)]_vars
  <2> SUFFICES ASSUME Quietly, [Next]_vars, alarms' = 0, ~UNCHANGED vars
               PROVE  [UserQueue!Next]_(UserQueue!vars)
    OBVIOUS
  <2>1. Work /\ alarms = 0
    BY DEF Next, Quietly
  <2>2. QED
    BY <2>1, RefinesFifo DEF Quietly
<1>3. QED
  BY <1>1, <1>2, QuietlyAlways, PTL DEF Spec, ImplementsFifo

=============================================================================
