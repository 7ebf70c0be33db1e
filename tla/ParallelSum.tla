----------------------------- MODULE ParallelSum -----------------------------
(* pthreads/pthreads.c: main fills an array, p threads sum a share of it     *)
(* each, main joins them in order and adds up what they return.              *)
(*                                                                           *)
(* The local foo of a thread is never set (line 87), so that it starts as    *)
(* any of Junk.  Numbers typed in are at most MaxThreads + 1 and MaxN, one   *)
(* that cannot be read leaves 0, and a negative N, for which every loop is   *)
(* empty, is left out.  The elements of A are Values.  EndsLate, NoWait and ReturnsPast are not   *)
(* used: they are mistakes to try TLC on.                                    *)
EXTENDS Integers

CONSTANTS MaxThreads, \* MAX_THREADS
          MaxN,
          Values,     \* what an element of A may be
          Junk        \* what a local may hold before it is set

ASSUME ThreadsAssumption == MaxThreads \in Nat \ {0} /\ MaxN \in Nat
ASSUME LongAssumption == Values \subseteq Int /\ Junk \subseteq Int /\ Junk # {}

VARIABLES p, N, A,
          pc,        \* where main is
          threadId,  \* the loop variable of main
          sum, serialSum,
          thread,    \* each thread's step, loop variable and foo
          junk       \* auxiliary: where each foo began

shared == <<p, N, A>>
vars == <<shared, pc, threadId, sum, serialSum, thread, junk>>

Ids == 0..(MaxThreads - 1)
NoThread == [step |-> "none", i |-> 0, foo |-> 0]

\* The elements that a thread is to sum: N/p of them, rounded down.
First(id) == id * (N \div p)
EndsLate(id) == (id + 1) * (N \div p) + 1
End(id) == (id + 1) * (N \div p)

Init ==
  /\ p = 0 /\ N = 0 /\ A = [i \in {} |-> 0]
  /\ pc = "read_p" /\ threadId = 0 /\ sum = 0 /\ serialSum = 0
  /\ thread = [id \in Ids |-> NoThread] /\ junk = [id \in Ids |-> 0]

-----------------------------------------------------------------------------
\* The thread pool, 16 at most, although the message says less than 16.
read_p(number) ==
  /\ pc = "read_p"
  /\ p' = number
  /\ pc' = IF number <= 0 \/ number > MaxThreads THEN "exit" ELSE "read_N"
  /\ UNCHANGED <<N, A, threadId, sum, serialSum, thread, junk>>

\* malloc is not looked at: without memory, the first element is the end.
read_N(number) ==
  /\ pc = "read_N"
  /\ N' = number
  /\ \/ A' \in [0..(number - 1) -> Values] /\ pc' = "create"
     \/ number > 0 /\ pc' = "crash" /\ UNCHANGED A
  /\ UNCHANGED <<p, threadId, sum, serialSum, thread, junk>>

Looped(next) ==
  IF threadId + 1 < p THEN threadId' = threadId + 1 /\ UNCHANGED pc
                      ELSE threadId' = 0 /\ pc' = next

\* Nobody looks at whether the thread could be created, either.
create ==
  /\ pc = "create"
  /\ \/ UNCHANGED <<thread, junk>>
     \/ \E foo \in Junk :
          /\ thread' = [thread EXCEPT ![threadId] = [step |-> "sum", i |-> First(threadId), foo |-> foo]]
          /\ junk' = [junk EXCEPT ![threadId] = foo]
  /\ Looped("join")
  /\ UNCHANGED <<shared, sum, serialSum>>

NoWait == thread[threadId].step # "none"
Ended == thread[threadId].step = "ended"

join ==
  /\ pc = "join" /\ Ended
  /\ sum' = sum + thread[threadId].foo
  /\ Looped("serial")
  /\ UNCHANGED <<shared, serialSum, thread, junk>>

\* pthread_join of a handle that nobody has set.
join_nothing ==
  /\ pc = "join" /\ thread[threadId].step = "none"
  /\ pc' = "undefined"
  /\ UNCHANGED <<shared, threadId, sum, serialSum, thread, junk>>

\* The first n numbers in f, added up in order.
Total(f, n) ==
  LET upTo[k \in 0..n] == IF k = 0 THEN 0 ELSE upTo[k - 1] + f[k - 1]
  IN  upTo[n]

\* The serial sum; then A is freed.
serial ==
  /\ pc = "serial"
  /\ serialSum' = Total(A, N)
  /\ pc' = "freed"
  /\ UNCHANGED <<shared, threadId, sum, thread, junk>>

main == (\E number \in 0..(MaxThreads + 1) : read_p(number))
  \/ (\E number \in 0..MaxN : read_N(number)) \/ create \/ join \/ join_nothing \/ serial

\* sumArray, an element at a time.
add(id) ==
  /\ thread[id].step = "sum" /\ thread[id].i < End(id)
  /\ thread' = [thread EXCEPT ![id].foo = @ + A[thread[id].i], ![id].i = @ + 1]
  /\ UNCHANGED <<shared, pc, threadId, sum, serialSum, junk>>

ReturnsPast(id) ==
  /\ thread[id].step = "sum" /\ thread[id].i > End(id)
  /\ thread' = [thread EXCEPT ![id].step = "ended"]
  /\ UNCHANGED <<shared, pc, threadId, sum, serialSum, junk>>

return(id) ==
  /\ thread[id].step = "sum" /\ thread[id].i >= End(id)
  /\ thread' = [thread EXCEPT ![id].step = "ended"]
  /\ UNCHANGED <<shared, pc, threadId, sum, serialSum, junk>>

sumArray(id) == add(id) \/ return(id)

Next == main \/ \E id \in Ids : sumArray(id)

Spec == Init /\ [][Next]_vars

\* Every thread is scheduled, main too; numbers need not be typed in.
FairSpec == Spec /\ WF_vars(create \/ join \/ join_nothing \/ serial)
                 /\ \A id \in Ids : WF_vars(sumArray(id))

-----------------------------------------------------------------------------
Alive == {id \in Ids : thread[id].step = "sum"}

\* In every order of the threads: no element is in two shares or outside A, what
\* a thread has read so far is a part of its share, and main frees A only when
\* no thread is left to read it.
SharesOK ==
  /\ thread \in [Ids -> [step : {"none", "sum", "ended"}, i : Nat, foo : Int]]
  /\ \A id \in Ids : thread[id].step # "none" =>
       /\ id < p
       /\ First(id) <= thread[id].i /\ thread[id].i <= End(id) /\ End(id) <= N
       /\ \A other \in Ids : id < other => End(id) <= First(other)
  /\ pc \in {"serial", "freed"} => Alive = {}

\* In no order of the threads is an element left out of the parallel sum or added
\* twice, as long as p divides N and every foo happens to begin at 0.  The code
\* sees to neither (lines 87 and 88), though it means to find the total sum (line
\* 8); nothing is said here of the other cases.
SumsAgree ==
  pc = "freed" /\ N % p = 0 /\ (\A id \in 0..(p - 1) : junk[id] = 0) => sum = serialSum

\* Once threads are created, main gets through, whatever the order.
AllJoin == pc = "create" ~> pc \in {"freed", "undefined"}
=============================================================================
