-------------------------------- MODULE Queue --------------------------------
(* The string queue of queue/handout/queue.c on the memory of harness.c, under *)
(* the commands of qtest.c.  A command runs statement by statement, and the    *)
(* alarm that limits its time may go off between any two of them.              *)
(*                                                                             *)
(* trigger_exception jumps into exception_setup, which has returned long ago:  *)
(* its frame is now that of the call under way.  Compiled as the Makefile says *)
(* (-O0), it then returns false from that call, so that the command goes on as *)
(* if the operation had failed.                                                *)
(*                                                                             *)
(* Linking a block into the list of the harness, or out of it, is one          *)
(* statement here.  Commands have the arguments they need.                     *)
(* Size, a signed int, wraps like the two size_t counters: the counters count  *)
(* modulo SizeT.                                                               *)
(*                                                                             *)
(* SkipsCount, GoesBelow0, LeavesNext, ForgetsTail, LeavesArmed and SameAgain  *)
(* are not used: they are mistakes to try TLC on.                              *)
EXTENDS Integers, Sequences, FiniteSets

CONSTANTS Blocks,  \* addresses that malloc can return
          Values,  \* values of list elements
          MaxReps, \* bound on the repetitions a command asks for
          SizeT,   \* number of values of a counter
          NULL,
          FILL     \* what FILLCHAR in every byte reads as

ASSUME QueueAssumption ==
  /\ NULL # FILL /\ {NULL, FILL} \cap (Blocks \cup Values) = {}
  /\ IsFiniteSet(Blocks)
  /\ MaxReps \in Nat \ {0} /\ SizeT \in Nat /\ SizeT > Cardinality(Blocks)

VARIABLES
  q,               \* the queue of qtest.c
  head, tail, size,\* its fields
  qcnt,            \* the length qtest.c expects
  next, value,     \* the list elements, block by block
  allocated,       \* the blocks in the list of the harness
  allocated_count,
  jmp_ready,       \* an exception can be caught
  time_limited,    \* the alarm is set
  run,             \* the command under way and where it is
  status,          \* of the process
  alarms           \* auxiliary: how many alarms have gone off

queue == <<q, head, tail, size>>
memory == <<next, value, allocated, allocated_count>>
harness == <<jmp_ready, time_limited>>
program == <<queue, qcnt, memory, harness, run, status>>
vars == <<program, alarms>>

Pointer == Blocks \cup {NULL, FILL}

\* cmd: the command; pc: the next statement; v: its value; reps: repetitions to
\* go; blk: the local pointer newh, newt or tmpChange; tmp: that of q_free; rval:
\* what the operation returned; renew: do_free was called by do_new.
Prompt == [cmd |-> "none", pc |-> "prompt", v |-> FILL, reps |-> 0, blk |-> NULL, tmp |-> NULL,
           rval |-> FALSE, renew |-> FALSE]

At(pc) == status = "running" /\ run.pc = pc

\* The statement is done and the next one is pc.
Goto(pc) == run' = [run EXCEPT !.pc = pc]

Return(rval) == run' = [run EXCEPT !.pc = "returned", !.rval = rval]

-----------------------------------------------------------------------------
Init ==
  /\ q = NULL /\ head = NULL /\ tail = NULL /\ size = 0 /\ qcnt = 0
  /\ next = [b \in Blocks |-> NULL] /\ value = [b \in Blocks |-> FILL]
  /\ allocated = {} /\ allocated_count = 0
  /\ jmp_ready = FALSE /\ time_limited = FALSE
  /\ run = Prompt /\ status = "running"
  /\ alarms = 0

\* A command begins with exception_setup(true): from now on the alarm is set.
Begin(cmd, pc, v, reps) ==
  /\ At("prompt")
  /\ run' = [Prompt EXCEPT !.cmd = cmd, !.pc = pc, !.v = v, !.reps = reps]
  /\ jmp_ready' = TRUE /\ time_limited' = TRUE
  /\ UNCHANGED <<queue, qcnt, memory, status>>

do_new == q = NULL /\ Begin("new", "malloc", FILL, 0)

do_new_frees == /\ q # NULL /\ At("prompt")
                /\ run' = [Prompt EXCEPT !.cmd = "free", !.pc = "free_queue", !.renew = TRUE]
                /\ jmp_ready' = TRUE /\ time_limited' = TRUE
                /\ UNCHANGED <<queue, qcnt, memory, status>>

do_free == Begin("free", "free_queue", FILL, 0)

do_insert_head(v, reps) == Begin("ih", "insert", v, reps)
do_insert_tail(v, reps) == Begin("it", "insert", v, reps)

\* Also rhq, and also with a value to compare: the queue is not told.
do_remove_head == Begin("rh", "remove", FILL, 0)

\* q_size writes nothing, and neither does q_reverse, whose body is not written.
do_size == Begin("other", "returned", FILL, 0)
do_reverse == Begin("reverse", "returned", FILL, 0)

-----------------------------------------------------------------------------
\* test_malloc: the chance of failure, or a block filled with FILLCHAR.
malloc_fails ==
  /\ At("malloc")
  /\ Return(FALSE)
  /\ UNCHANGED <<queue, qcnt, memory, harness, status>>

malloc ==
  /\ At("malloc")
  /\ \E b \in Blocks \ allocated :
       /\ allocated' = allocated \cup {b}
       /\ next' = [next EXCEPT ![b] = FILL] /\ value' = [value EXCEPT ![b] = FILL]
       /\ run' = [run EXCEPT !.blk = b, !.pc = "count"]
  /\ UNCHANGED <<queue, qcnt, allocated_count, harness, status>>

SkipsCount(c) == c
GoesBelow0(c) == c - 1

Up(c) == (c + 1) % SizeT
Down(c) == (c - 1) % SizeT

count ==
  /\ At("count")
  /\ allocated_count' = Up(allocated_count)
  /\ Goto(CASE run.cmd = "new" -> "new_queue" [] run.cmd = "ih" -> "link_head"
            [] run.cmd = "it" -> "link_tail")
  /\ UNCHANGED <<queue, qcnt, next, value, allocated, harness, status>>

\* The fields of the new queue, which nothing reads before q_new returns.
new_queue ==
  /\ At("new_queue")
  /\ head' = NULL /\ tail' = NULL /\ size' = 0
  /\ Return(TRUE)
  /\ UNCHANGED <<q, qcnt, memory, harness, status>>

\* q_insert_head and q_insert_tail return at once without a queue.
insert ==
  /\ At("insert")
  /\ IF q = NULL THEN Return(FALSE) ELSE Goto("malloc")
  /\ UNCHANGED <<queue, qcnt, memory, harness, status>>

LeavesNext ==
  /\ At("link_head")
  /\ value' = [value EXCEPT ![run.blk] = run.v]
  /\ Goto("head_tail")
  /\ UNCHANGED <<queue, qcnt, next, allocated, allocated_count, harness, status>>

ForgetsTail ==
  /\ At("head_tail")
  /\ Goto("head_head")
  /\ UNCHANGED <<queue, qcnt, memory, harness, status>>

\* q_insert_head: the element, then the tail if the list is empty, then the head.
link_head ==
  /\ At("link_head")
  /\ value' = [value EXCEPT ![run.blk] = run.v] /\ next' = [next EXCEPT ![run.blk] = head]
  /\ Goto("head_tail")
  /\ UNCHANGED <<queue, qcnt, allocated, allocated_count, harness, status>>

head_tail ==
  /\ At("head_tail")
  /\ tail' = IF head = NULL THEN run.blk ELSE tail
  /\ Goto("head_head")
  /\ UNCHANGED <<q, head, size, qcnt, memory, harness, status>>

head_head ==
  /\ At("head_head")
  /\ head' = run.blk
  /\ Goto("grow")
  /\ UNCHANGED <<q, tail, size, qcnt, memory, harness, status>>

\* q_insert_tail: the old last element, the tail, the head if the list is empty,
\* and only then the new element.
link_tail ==
  /\ At("link_tail")
  /\ next' = IF tail \in Blocks THEN [next EXCEPT ![tail] = run.blk] ELSE next
  /\ Goto("tail_tail")
  /\ UNCHANGED <<queue, qcnt, value, allocated, allocated_count, harness, status>>

tail_tail ==
  /\ At("tail_tail")
  /\ tail' = run.blk
  /\ Goto("tail_head")
  /\ UNCHANGED <<q, head, size, qcnt, memory, harness, status>>

tail_head ==
  /\ At("tail_head")
  /\ head' = IF head = NULL THEN run.blk ELSE head
  /\ Goto("tail_element")
  /\ UNCHANGED <<q, tail, size, qcnt, memory, harness, status>>

tail_element ==
  /\ At("tail_element")
  /\ value' = [value EXCEPT ![run.blk] = run.v] /\ next' = [next EXCEPT ![run.blk] = NULL]
  /\ Goto("grow")
  /\ UNCHANGED <<queue, qcnt, allocated, allocated_count, harness, status>>

grow ==
  /\ At("grow")
  /\ size' = Up(size)
  /\ Return(TRUE)
  /\ UNCHANGED <<q, head, tail, qcnt, memory, harness, status>>

-----------------------------------------------------------------------------
\* A read through a bad pointer, or the alarm: the operation under way returns
\* false, and no second exception can be caught.
Exception ==
  /\ jmp_ready' = FALSE /\ time_limited' = FALSE
  /\ Return(FALSE)
  /\ UNCHANGED <<queue, qcnt, memory, status>>

\* Whether a pointer can be followed.
Bad(p) == p \in {NULL, FILL}

\* q_remove_head reads q->head, and then the element, before it looks whether
\* there is a queue.
remove ==
  /\ At("remove")
  /\ \/ q # NULL /\ head = NULL
        /\ Return(FALSE) /\ UNCHANGED <<queue, qcnt, memory, harness, status>>
     \/ q # NULL /\ ~Bad(head)
        /\ run' = [run EXCEPT !.blk = head, !.pc = "unlink"]
        /\ UNCHANGED <<queue, qcnt, memory, harness, status>>
     \/ (q = NULL \/ head = FILL) /\ Exception

unlink ==
  /\ At("unlink")
  /\ head' = next[head]
  /\ Goto("free")
  /\ UNCHANGED <<q, tail, size, qcnt, memory, harness, status>>

\* test_free of a block: it is filled again and leaves the list of the harness.
\* One that is not in the list has its links followed all the same.
test_free(b) ==
  \/ /\ b \in allocated
     /\ allocated' = allocated \ {b}
     /\ next' = [next EXCEPT ![b] = FILL] /\ value' = [value EXCEPT ![b] = FILL]
     /\ UNCHANGED <<allocated_count, status>>
  \/ b \notin allocated /\ status' = "undefined" /\ UNCHANGED memory

\* The element that run.blk points to, in q_remove_head and q_free.
free ==
  /\ At("free")
  /\ test_free(run.blk)
  /\ Goto("uncount")
  /\ UNCHANGED <<queue, qcnt, harness>>

uncount ==
  /\ At("uncount")
  /\ allocated_count' = Down(allocated_count)
  /\ Goto(IF run.cmd = "rh" THEN "shrink" ELSE "free_next")
  /\ UNCHANGED <<queue, qcnt, next, value, allocated, harness, status>>

shrink ==
  /\ At("shrink")
  /\ size' = Down(size)
  /\ Return(TRUE)
  /\ UNCHANGED <<q, head, tail, qcnt, memory, harness, status>>

\* q_free: the queue first, then its elements.
free_queue ==
  /\ At("free_queue")
  /\ \/ q = NULL /\ Return(TRUE) /\ UNCHANGED <<memory, status>>
     \/ /\ q # NULL /\ test_free(q)
        /\ run' = [run EXCEPT !.tmp = head, !.pc = "uncount"]
  /\ UNCHANGED <<queue, qcnt, harness>>

free_next ==
  /\ At("free_next")
  /\ \/ run.tmp = NULL /\ Return(TRUE) /\ UNCHANGED <<queue, qcnt, memory, harness, status>>
     \/ run.tmp = FILL /\ Exception
     \/ /\ ~Bad(run.tmp)
        /\ run' = [run EXCEPT !.blk = run.tmp, !.tmp = next[run.tmp], !.pc = "free"]
        /\ UNCHANGED <<queue, qcnt, memory, harness, status>>

-----------------------------------------------------------------------------
\* The element after k steps from the head.
Hop[k \in 0..SizeT] ==
  IF k = 0 THEN head
  ELSE IF Hop[k - 1] \in Blocks THEN next[Hop[k - 1]] ELSE Hop[k - 1]

LeavesArmed == UNCHANGED harness

exception_cancel == jmp_ready' = FALSE /\ time_limited' = FALSE

\* The operation is over: the rest of the do_ function up to show_queue.
new_returned ==
  /\ At("returned") /\ run.cmd = "new"
  /\ q' = IF run.rval THEN run.blk ELSE NULL
  /\ qcnt' = 0
  /\ Goto("show") /\ exception_cancel
  /\ UNCHANGED <<head, tail, size, memory, status>>

free_returned ==
  /\ At("returned") /\ run.cmd = "free"
  /\ q' = NULL /\ qcnt' = 0
  /\ head' = NULL /\ tail' = NULL /\ size' = 0
  /\ IF run.renew
     THEN /\ run' = [Prompt EXCEPT !.cmd = "new", !.pc = "malloc"]
          /\ jmp_ready' = TRUE /\ time_limited' = TRUE
     ELSE Goto("show") /\ exception_cancel
  /\ UNCHANGED <<memory, status>>

SameAgain == [run EXCEPT !.pc = "insert"]

\* The next repetition.
Again == [run EXCEPT !.pc = "insert", !.reps = @ - 1, !.blk = NULL]

\* The loop over the repetitions ends on an exception; a failure may end it, when
\* the limit of failures is reached.
insert_returned ==
  /\ At("returned") /\ run.cmd \in {"ih", "it"}
  /\ qcnt' = IF run.rval THEN Up(qcnt) ELSE qcnt
  /\ \/ /\ jmp_ready /\ run.reps > 1
        /\ run' = Again
        /\ UNCHANGED harness
     \/ /\ ~jmp_ready \/ ~run.rval \/ run.reps = 1
        /\ Goto("show") /\ exception_cancel
  /\ UNCHANGED <<queue, memory, status>>

remove_returned ==
  /\ At("returned") /\ run.cmd \in {"rh", "other", "reverse"}
  /\ qcnt' = IF run.rval /\ run.cmd = "rh" THEN Down(qcnt) ELSE qcnt
  /\ Goto("show") /\ exception_cancel
  /\ UNCHANGED <<queue, memory, status>>

\* show_queue follows at most qcnt elements, or none below verbosity 3.  When the
\* first cannot be read exception_setup returns false and none is; when a later one
\* cannot, the exception comes back to the same read with nothing to catch it.
show ==
  /\ At("show")
  /\ \/ run' = Prompt /\ UNCHANGED status
     \/ /\ q # NULL /\ head # FILL /\ \E k \in 1..(qcnt - 1) : Hop[k] = FILL
        /\ status' = "exited" /\ UNCHANGED run
  /\ UNCHANGED <<queue, qcnt, memory, harness>>

\* queue_quit frees the queue, and the process ends.
queue_quit == Begin("quit", "free_queue", FILL, 0)

quit_returned ==
  /\ At("returned") /\ run.cmd = "quit"
  /\ status' = "exited"
  /\ exception_cancel
  /\ UNCHANGED <<queue, qcnt, memory, run>>

\* SIGALRM, while an operation is under way.
sigalrmhandler ==
  /\ status = "running" /\ time_limited
  /\ Exception

-----------------------------------------------------------------------------
Command ==
  \/ do_new \/ do_new_frees \/ do_free \/ do_remove_head \/ do_size \/ do_reverse \/ queue_quit
  \/ \E v \in Values, reps \in 1..MaxReps : do_insert_head(v, reps) \/ do_insert_tail(v, reps)

Step ==
  \/ malloc_fails \/ malloc \/ count \/ new_queue
  \/ insert \/ link_head \/ head_tail \/ head_head
  \/ link_tail \/ tail_tail \/ tail_head \/ tail_element \/ grow
  \/ remove \/ unlink \/ free \/ uncount \/ shrink \/ free_queue \/ free_next
  \/ new_returned \/ free_returned \/ insert_returned \/ remove_returned \/ quit_returned \/ show

\* What commands do, and the alarm that may stop them.
Work == Command \/ Step
Next ==
  \/ Work /\ UNCHANGED alarms
  \/ sigalrmhandler /\ alarms' = alarms + 1

Spec == Init /\ [][Next]_vars

\* A command is run to its end by one thread.
FairSpec == Spec /\ WF_program(Step)

-----------------------------------------------------------------------------
\* The variables have the types of the C program.
TypeOK ==
  /\ q \in Blocks \cup {NULL} /\ {head, tail} \subseteq Pointer
  /\ {size, qcnt, allocated_count} \subseteq 0..(SizeT - 1)
  /\ next \in [Blocks -> Pointer] /\ value \in [Blocks -> Values \cup {FILL}]
  /\ allocated \subseteq Blocks
  /\ jmp_ready \in BOOLEAN /\ time_limited \in BOOLEAN
  /\ status \in {"running", "exited", "undefined"}

\* The elements from the head to the end of the list, or to the element that
\* q_insert_tail has linked but not yet filled.
Unfilled == IF run.pc \in {"tail_tail", "tail_head", "tail_element"} THEN {run.blk} ELSE {}
Length == CHOOSE n \in 0..SizeT : /\ Hop[n] \notin Blocks \ Unfilled
                                  /\ \A k \in 0..(n - 1) : Hop[k] \in Blocks \ Unfilled
Elements == {Hop[k] : k \in 0..(Length - 1)}

Freeing == run.cmd \in {"free", "quit"} /\ run.pc # "free_queue"

UserQueue == INSTANCE Fifo WITH
  exists <- q # NULL /\ ~Freeing,
  contents <- IF q = NULL \/ Freeing THEN <<>> ELSE [k \in 1..Length |-> value[Hop[k - 1]]]

\* Where queue.c does not yet do what queue.h says: q_reverse has no body, and
\* q_remove_head faults without a queue.
Unfinished == run.cmd = "reverse" \/ (run.cmd = "rh" /\ q = NULL)

\* As long as no alarm has gone off, the operations that are finished are those of
\* the queue of queue.h: each takes effect in one of its statements or, when it
\* fails, not at all.
ImplementsFifo ==
  /\ UserQueue!Init
  /\ [][alarms' = 0 /\ ~Unfinished => [UserQueue!Next]_(UserQueue!vars)]_vars

\* As long as no alarm has gone off, between commands the blocks of the harness are
\* those of the queue, and everybody who counts elements agrees; the tail is the
\* last element.  So nothing is lost, also when malloc fails, no block is freed
\* twice, and the process ends only when it is told.
Accounted ==
  alarms = 0 =>
    /\ status = "running" \/ (status = "exited" /\ run.cmd = "quit")
    /\ At("prompt") =>
         IF q = NULL THEN allocated = {} /\ allocated_count = 0
         ELSE /\ allocated = {q} \cup Elements /\ q \notin Elements
              /\ allocated_count = Length + 1 /\ size = Length /\ qcnt = Length
              /\ Length > 0 => tail = Hop[Length - 1]

\* Every command ends, on whatever list an alarm has left.
CommandsEnd == ~At("prompt") ~> (At("prompt") \/ status # "running")

\* Between commands no alarm is set and no jump is possible: a late signal would
\* end the process.
Disarmed == At("prompt") => ~jmp_ready /\ ~time_limited

\* The list can be walked from the head to its end, through blocks in use.
Walkable ==
  q = NULL \/ \E n \in 0..SizeT : Hop[n] = NULL /\ \A k \in 0..(n - 1) : Hop[k] \in allocated

\* Wherever an alarm falls, only q_insert_tail, and the q_free that gives the
\* list up, leave a list that cannot be walked: the others link and unlink with
\* one assignment, after everything else is in place.
OnlyInsertTailBreaks == [][Walkable /\ ~Walkable' => run.cmd = "it" \/ Freeing']_vars
=============================================================================
