-------------------------- MODULE ParallelSumProofs --------------------------
(* SharesOK and SumsAgree for any number of threads and elements: while      *)
(* they run, the threads of pthreads.c read disjoint parts of an array that  *)
(* is there, and together they add up what they were given, and junk.        *)
EXTENDS ParallelSum, WellFoundedInduction, TLAPS

States == [step : {"none", "sum", "ended"}, i : Nat, foo : Int]

\* No thread has been created, or ever will be.
Before == {"read_p", "read_N", "exit", "crash"}

Typed ==
  /\ p \in Nat /\ N \in Nat /\ threadId \in Nat
  /\ thread \in [Ids -> States]

\* Main goes through the threads in order: those that it has still to create do
\* not run, those that it has joined do not either.
InOrder ==
  /\ pc \in Before => threadId = 0 /\ \A id \in Ids : thread[id].step = "none"
  /\ pc = "read_N" => p \in 1..MaxThreads
  /\ pc \notin Before => p \in 1..MaxThreads /\ A \in [0..(N - 1) -> Values]
  /\ pc \in {"create", "join"} => threadId < p
  /\ pc = "create" => \A id \in Ids : threadId <= id => thread[id].step = "none"
  /\ pc = "join" => \A id \in Ids : id < threadId => thread[id].step # "sum"
  /\ pc \in {"serial", "freed"} => \A id \in Ids : thread[id].step # "sum"

\* A thread is within its share.
InShare ==
  \A id \in Ids : thread[id].step # "none" =>
    id < p /\ First(id) <= thread[id].i /\ thread[id].i <= End(id)

IInv == Typed /\ InOrder /\ InShare

-----------------------------------------------------------------------------
\* Rounding down, p shares do not go past N.
LEMMA QuotientFits ==
  ASSUME NEW n \in Nat, NEW d \in Nat \ {0}
  PROVE  n \div d \in Nat /\ d * (n \div d) <= n
  OBVIOUS

LEMMA ProductGrows ==
  ASSUME NEW a \in Nat, NEW b \in Nat, a <= b, NEW q \in Nat
  PROVE  a * q \in Nat /\ b * q \in Nat /\ a * q <= b * q
<1>1. (b - a) * q >= 0
  OBVIOUS
<1> QED
  BY <1>1

\* Every share lies in the array, before the shares of the threads that follow.
LEMMA SharesAreApart ==
  ASSUME Typed, p # 0, NEW id \in Ids, id < p
  PROVE  /\ First(id) \in Nat /\ End(id) \in Nat /\ First(id) <= End(id) /\ End(id) <= N
         /\ \A other \in Ids : id < other => End(id) <= First(other)
<1> DEFINE q == N \div p
<1>1. q \in Nat /\ p * q \in Nat /\ p * q <= N
  BY QuotientFits DEF Typed
<1>2. id \in Nat /\ id + 1 \in Nat /\ id + 1 <= p /\ p \in Nat
  BY ThreadsAssumption DEF Typed, Ids
<1> HIDE DEF q
<1>3. id * q \in Nat /\ (id + 1) * q \in Nat /\ id * q <= (id + 1) * q
  BY <1>1, <1>2, ProductGrows
<1>4. (id + 1) * q <= p * q
  BY <1>1, <1>2, ProductGrows
<1>5. ASSUME NEW other \in Ids, id < other PROVE (id + 1) * q <= other * q
  <2>1. other \in Nat /\ id + 1 <= other
    BY <1>2, <1>5, ThreadsAssumption DEF Ids
  <2> QED
    BY <1>1, <1>2, <2>1, ProductGrows
<1>6. N \in Nat
  BY DEF Typed
<1> QED
  BY <1>1, <1>3, <1>4, <1>5, <1>6 DEF First, End, q

-----------------------------------------------------------------------------
LEMMA InitIInv == Init => IInv
<1> SUFFICES ASSUME Init
             PROVE  IInv
  OBVIOUS
<1>1. /\ p = 0 /\ N = 0 /\ pc = "read_p" /\ threadId = 0
      /\ \A id \in Ids : thread[id] = NoThread /\ thread[id].step = "none"
      /\ thread \in [Ids -> States]
  BY DEF Init, NoThread, States
<1> QED
  BY <1>1 DEF IInv, Typed, InOrder, InShare, Before

LEMMA ReadInv ==
  ASSUME IInv, NEW number \in Nat, read_p(number) \/ read_N(number)
  PROVE  IInv'
<1>1. /\ Typed' /\ InShare' /\ UNCHANGED <<thread, threadId>> /\ pc \in Before
      /\ \A id \in Ids : thread[id].step = "none"
  BY DEF IInv, Typed, InOrder, InShare, read_p, read_N, shared, Before
<1>2. CASE read_p(number)
  <2>1. pc' = "read_N" => p' \in 1..MaxThreads
    <3>1. p' = number /\ (pc' = "read_N" => ~(number <= 0 \/ number > MaxThreads))
      BY <1>2 DEF read_p
    <3> QED
      BY <3>1, ThreadsAssumption
  <2> QED
    BY <1>1, <1>2, <2>1 DEF IInv, InOrder, read_p, Before
<1>3. CASE read_N(number)
  <2>1. p \in 1..MaxThreads /\ p' = p /\ threadId = 0
    BY <1>3 DEF IInv, InOrder, read_N, Before
  <2>2. CASE A' \in [0..(number - 1) -> Values] /\ pc' = "create"
    <3>1. N' = number /\ threadId' = 0 /\ threadId' < p'
      BY <1>1, <1>3, <2>1 DEF read_N
    <3>2. InOrder'
      BY <1>1, <2>1, <2>2, <3>1 DEF InOrder, Before
    <3> QED
      BY <1>1, <3>2 DEF IInv
  <2>3. CASE pc' = "crash"
    BY <1>1, <1>3, <2>1, <2>3 DEF IInv, InOrder, read_N, Before
  <2> QED
    BY <1>3, <2>2, <2>3 DEF read_N
<1> QED
  BY <1>2, <1>3

LEMMA CreateInv ==
  ASSUME IInv, create
  PROVE  IInv'
<1>1. /\ pc = "create" /\ threadId \in Ids /\ threadId < p /\ p \in 1..MaxThreads
      /\ A \in [0..(N - 1) -> Values] /\ UNCHANGED <<p, N, A>>
      /\ \A id \in Ids : threadId <= id => thread[id].step = "none"
  BY ThreadsAssumption DEF IInv, Typed, InOrder, create, shared, Before, Ids
<1>2. First(threadId) \in Nat /\ First(threadId) <= End(threadId)
  BY <1>1, SharesAreApart DEF IInv
<1>3. \/ thread' = thread
      \/ \E foo \in Junk :
           thread' = [thread EXCEPT ![threadId] = [step |-> "sum", i |-> First(threadId), foo |-> foo]]
  BY DEF create
<1>4. Typed'
  BY <1>1, <1>2, <1>3, LongAssumption DEF IInv, Typed, States, create, Looped
<1>6. \A id \in Ids : id # threadId => thread'[id] = thread[id]
  BY <1>1, <1>3 DEF IInv, Typed
<1>5. InShare'
  <2>1. \A id \in Ids : First(id)' = First(id) /\ End(id)' = End(id)
    BY <1>1 DEF First, End
  <2>2. thread'[threadId].step # "none" => thread'[threadId].i = First(threadId)
    BY <1>1, <1>3 DEF IInv, Typed
  <2>3. thread'[threadId].step # "none" =>
          First(threadId) <= thread'[threadId].i /\ thread'[threadId].i <= End(threadId)
    BY <1>2, <2>2
  <2> QED
    BY <1>1, <1>6, <2>1, <2>3 DEF IInv, InShare
<1>7. InOrder'
  <2>1. CASE threadId + 1 < p
    <3>1. pc' = "create" /\ threadId' = threadId + 1
      BY <1>1, <2>1 DEF create, Looped
    <3>2. \A id \in Ids : threadId' <= id => thread'[id].step = "none"
      BY <1>1, <1>6, <3>1 DEF Ids
    <3> QED
      BY <1>1, <2>1, <3>1, <3>2 DEF InOrder, Before
  <2>2. CASE ~(threadId + 1 < p)
    <3>1. pc' = "join" /\ threadId' = 0
      BY <2>2 DEF create, Looped
    <3> QED
      BY <1>1, <3>1 DEF InOrder, Before, Ids
  <2> QED
    BY <2>1, <2>2
<1> QED
  BY <1>4, <1>5, <1>7 DEF IInv

LEMMA JoinInv ==
  ASSUME IInv, join
  PROVE  IInv'
<1>1. /\ pc = "join" /\ threadId \in Nat /\ threadId < p /\ p \in 1..MaxThreads
      /\ A \in [0..(N - 1) -> Values] /\ UNCHANGED <<p, N, A, thread>>
      /\ thread[threadId].step = "ended"
      /\ \A id \in Ids : id < threadId => thread[id].step # "sum"
  BY DEF IInv, Typed, InOrder, join, shared, Before, Ended
<1>2. \A id \in Ids : id < threadId + 1 => thread[id].step # "sum"
  BY <1>1 DEF Ids
<1>3. Typed' /\ InShare'
  BY <1>1 DEF IInv, Typed, InShare, join, Looped, First, End
<1>4. InOrder'
  <2>1. CASE threadId + 1 < p
    <3>1. pc' = "join" /\ threadId' = threadId + 1
      BY <1>1, <2>1 DEF join, Looped
    <3> QED
      BY <1>1, <1>2, <2>1, <3>1 DEF InOrder, Before
  <2>2. CASE ~(threadId + 1 < p)
    <3>1. pc' = "serial" /\ threadId' = 0
      BY <2>2 DEF join, Looped
    <3>2. \A id \in Ids : thread[id].step # "sum"
      BY <1>1, <1>2, <2>2 DEF IInv, InShare, Typed, Ids
    <3> QED
      BY <1>1, <3>1, <3>2 DEF InOrder, Before
  <2> QED
    BY <2>1, <2>2
<1> QED
  BY <1>3, <1>4 DEF IInv

\* join_nothing and the serial sum touch no thread.
LEMMA MainInv ==
  ASSUME IInv, join_nothing \/ serial
  PROVE  IInv'
<1>1. UNCHANGED <<p, N, A, thread, threadId>> /\ pc \notin Before
  BY DEF join_nothing, serial, shared, Before
<1>2. Typed' /\ InShare'
  BY <1>1 DEF IInv, Typed, InShare, First, End
<1>3. CASE join_nothing
  BY <1>1, <1>2, <1>3 DEF IInv, InOrder, join_nothing, Before
<1>4. CASE serial
  BY <1>1, <1>2, <1>4 DEF IInv, InOrder, serial, Before
<1> QED
  BY <1>3, <1>4

LEMMA SumArrayInv ==
  ASSUME IInv, NEW self \in Ids, sumArray(self)
  PROVE  IInv'
<1>1. /\ thread[self].step = "sum" /\ UNCHANGED <<p, N, A, pc, threadId>>
      /\ thread[self] \in States /\ thread \in [Ids -> States]
  BY DEF IInv, Typed, sumArray, add, return, shared
<1>2. /\ pc \notin Before /\ p \in 1..MaxThreads /\ A \in [0..(N - 1) -> Values] /\ self < p
      /\ First(self) <= thread[self].i /\ thread[self].i <= End(self)
  BY <1>1 DEF IInv, InOrder, InShare
<1>3. First(self) \in Nat /\ End(self) \in Nat /\ End(self) <= N /\ N \in Nat
  BY <1>2, SharesAreApart DEF IInv, Typed
<1>4. /\ thread' \in [Ids -> States]
      /\ thread'[self].step \in {"sum", "ended"}
      /\ First(self) <= thread'[self].i /\ thread'[self].i <= End(self)
      /\ \A id \in Ids \ {self} : thread'[id] = thread[id]
  <2>1. CASE add(self)
    <3>1. thread[self].i \in Nat /\ thread[self].i < End(self)
      BY <1>1, <2>1 DEF add, States
    <3>2. thread[self].i \in 0..(N - 1)
      BY <1>3, <3>1
    <3>3. A[thread[self].i] \in Int
      BY <1>2, <3>2, LongAssumption
    <3>4. thread' = [thread EXCEPT ![self] =
                       [step |-> "sum", i |-> @.i + 1, foo |-> @.foo + A[thread[self].i]]]
      BY <1>1, <2>1 DEF add, States
    <3>5. thread[self].foo + A[thread[self].i] \in Int
      BY <1>1, <3>3 DEF States
    <3>6. /\ thread[self].i + 1 \in Nat /\ thread[self].i + 1 <= End(self)
          /\ First(self) <= thread[self].i + 1
      BY <1>2, <1>3, <3>1
    <3> QED
      BY <1>1, <3>4, <3>5, <3>6 DEF States
  <2>2. CASE return(self)
    BY <1>1, <1>2, <2>2 DEF return, States
  <2> QED
    BY <2>1, <2>2 DEF sumArray
<1>5. Typed'
  BY <1>1, <1>4 DEF IInv, Typed
<1>6. InShare'
  BY <1>1, <1>2, <1>4 DEF IInv, InShare, First, End
<1>7. InOrder'
  BY <1>1, <1>2, <1>4 DEF IInv, InOrder
<1> QED
  BY <1>5, <1>6, <1>7 DEF IInv

LEMMA NextIInv == IInv /\ [Next]_vars => IInv'
<1> SUFFICES ASSUME IInv, [Next]_vars
             PROVE  IInv'
  OBVIOUS
<1>1. ASSUME NEW number \in 0..(MaxThreads + 1), read_p(number) PROVE IInv'
  BY <1>1, ReadInv, ThreadsAssumption
<1>2. ASSUME NEW number \in 0..MaxN, read_N(number) PROVE IInv'
  BY <1>2, ReadInv, ThreadsAssumption
<1>3. CASE create
  BY <1>3, CreateInv
<1>4. CASE join
  BY <1>4, JoinInv
<1>5. CASE join_nothing \/ serial
  BY <1>5, MainInv
<1>6. ASSUME NEW id \in Ids, sumArray(id) PROVE IInv'
  BY <1>6, SumArrayInv
<1>7. CASE UNCHANGED vars
  BY <1>7 DEF IInv, Typed, InOrder, InShare, First, End, vars, shared
<1> QED
  BY <1>1, <1>2, <1>3, <1>4, <1>5, <1>6, <1>7 DEF Next, main

LEMMA IInvSharesOK == IInv => SharesOK
<1> SUFFICES ASSUME IInv
             PROVE  SharesOK
  OBVIOUS
<1>1. thread \in [Ids -> [step : {"none", "sum", "ended"}, i : Nat, foo : Int]]
  BY DEF IInv, Typed, States
<1>2. ASSUME NEW id \in Ids, thread[id].step # "none"
      PROVE  /\ id < p
             /\ First(id) <= thread[id].i /\ thread[id].i <= End(id) /\ End(id) <= N
             /\ \A other \in Ids : id < other => End(id) <= First(other)
  <2>1. id < p /\ First(id) <= thread[id].i /\ thread[id].i <= End(id)
    BY <1>2 DEF IInv, InShare
  <2>2. p # 0
    BY <2>1 DEF Ids
  <2> QED
    BY <2>1, <2>2, SharesAreApart DEF IInv
<1>3. pc \in {"serial", "freed"} => Alive = {}
  BY DEF IInv, InOrder, Alive
<1> QED
  BY <1>1, <1>2, <1>3 DEF SharesOK

\* For every number of threads and elements: shares are disjoint and inside the
\* array (sumArray), and nobody reads it when main frees it.
THEOREM SharesOKCorrect == Spec => []SharesOK
  BY InitIInv, NextIInv, IInvSharesOK, PTL DEF Spec

-----------------------------------------------------------------------------
(* Sums.                                                                     *)

LEMMA Induction ==
  ASSUME NEW S, 0 \in S, \A n \in Nat : n \in S => n + 1 \in S
  PROVE  \A n \in Nat : n \in S
<1> DEFINE T == Nat \ S
<1> SUFFICES ASSUME T # {} PROVE FALSE
  OBVIOUS
<1>1. PICK x \in T : \A y \in T : ~(<<y, x>> \in OpToRel(<, Nat))
  BY NatLessThanWellFounded, WFMin
<1>2. x # 0 /\ x \in Nat /\ x - 1 \in Nat /\ x - 1 < x /\ x - 1 + 1 = x
  OBVIOUS
<1>3. x - 1 \in T
  BY <1>2
<1>4. <<x - 1, x>> \in OpToRel(<, Nat)
  BY <1>2 DEF OpToRel
<1> QED
  BY <1>1, <1>3, <1>4

\* u holds the sums of the first k numbers in f, for k up to n.
Adds(u, f, n) ==
  /\ u \in [0..n -> Int] /\ u[0] = 0
  /\ \A k \in 0..(n - 1) : u[k + 1] = u[k] + f[k]

LEMMA AddsExists ==
  ASSUME NEW f, NEW m \in Nat, \A k \in 0..(m - 1) : f[k] \in Int
  PROVE  \A n \in Nat : n <= m => \E u : Adds(u, f, n)
<1> DEFINE G == {n \in Nat : n <= m => \E u : Adds(u, f, n)}
<1>1. 0 \in G
  <2>1. Adds([k \in 0..0 |-> 0], f, 0)
    BY DEF Adds
  <2> QED
    BY <2>1
<1>2. ASSUME NEW n \in Nat, n \in G PROVE n + 1 \in G
  <2> SUFFICES ASSUME n + 1 <= m PROVE \E u : Adds(u, f, n + 1)
    OBVIOUS
  <2>1. PICK u : Adds(u, f, n)
    BY <1>2
  <2>2. n \in 0..(m - 1) /\ f[n] \in Int /\ u[n] \in Int
    BY <2>1 DEF Adds
  <2>3. PICK w : w = [k \in 0..(n + 1) |-> IF k = n + 1 THEN u[n] + f[n] ELSE u[k]]
    OBVIOUS
  <2>4. w[n + 1] = u[n] + f[n] /\ \A k \in 0..n : w[k] = u[k]
    BY <2>3
  <2>5. w \in [0..(n + 1) -> Int]
    BY <2>1, <2>2, <2>3 DEF Adds
  <2>6. ASSUME NEW k \in 0..(n + 1 - 1) PROVE w[k + 1] = w[k] + f[k]
    <3>1. CASE k = n
      BY <3>1, <2>4
    <3>2. CASE k # n
      <4>1. k \in 0..(n - 1) /\ k \in 0..n /\ k + 1 \in 0..n
        BY <3>2
      <4> QED
        BY <4>1, <2>1, <2>4 DEF Adds
    <3> QED
      BY <3>1, <3>2
  <2>7. w[0] = 0
    BY <2>1, <2>4 DEF Adds
  <2>8. Adds(w, f, n + 1)
    BY <2>5, <2>6, <2>7 DEF Adds
  <2> QED
    BY <2>8
<1> HIDE DEF G
<1>3. \A n \in Nat : n \in G
  BY <1>1, <1>2, Induction
<1> QED
  BY <1>3 DEF G

\* The recursive function of Total is one of these.
LEMMA TotalAdds ==
  ASSUME NEW f, NEW n \in Nat, NEW u, Adds(u, f, n)
  PROVE  Total(f, n) = u[n]
<1> DEFINE Is(w) == w = [k \in 0..n |-> IF k = 0 THEN 0 ELSE w[k - 1] + f[k - 1]]
<1>1. Is(u)
  <2>1. u = [k \in 0..n |-> u[k]]
    BY DEF Adds
  <2>2. ASSUME NEW k \in 0..n PROVE u[k] = IF k = 0 THEN 0 ELSE u[k - 1] + f[k - 1]
    <3>1. CASE k = 0
      BY <3>1 DEF Adds
    <3>2. CASE k # 0
      <4>1. k - 1 \in 0..(n - 1) /\ k - 1 + 1 = k
        BY <3>2
      <4>2. u[k - 1 + 1] = u[k - 1] + f[k - 1]
        BY <4>1 DEF Adds
      <4> QED
        BY <3>2, <4>1, <4>2
    <3> QED
      BY <3>1, <3>2
  <2> QED
    BY <2>1, <2>2
<1>2. PICK w : w = CHOOSE x : Is(x)
  OBVIOUS
<1>3. Is(w)
  BY <1>1, <1>2
<1>4. Total(f, n) = w[n]
  BY <1>2 DEF Total
<1> DEFINE G == {k \in Nat : k <= n => w[k] = u[k]}
<1>5. 0 \in G
  BY <1>3 DEF Adds
<1>6. ASSUME NEW k \in Nat, k \in G PROVE k + 1 \in G
  <2> SUFFICES ASSUME k + 1 <= n PROVE w[k + 1] = u[k + 1]
    OBVIOUS
  <2>1. k \in 0..(n - 1) /\ k + 1 \in 0..n /\ k + 1 # 0 /\ k + 1 - 1 = k
    OBVIOUS
  <2>2. w[k + 1] = w[k] + f[k]
    BY <2>1, <1>3
  <2>3. u[k + 1] = u[k] + f[k]
    BY <2>1 DEF Adds
  <2>4. w[k] = u[k]
    BY <2>1, <1>6
  <2> QED
    BY <2>2, <2>3, <2>4
<1> HIDE DEF G
<1>7. \A k \in Nat : k \in G
  BY <1>5, <1>6, Induction
<1> QED
  BY <1>4, <1>7 DEF G

LEMMA TotalOfNone == ASSUME NEW f PROVE Total(f, 0) = 0
<1>1. PICK u : Adds(u, f, 0)
  BY AddsExists
<1> QED
  BY <1>1, TotalAdds DEF Adds

LEMMA TotalNext ==
  ASSUME NEW f, NEW n \in Nat, \A k \in 0..n : f[k] \in Int
  PROVE  /\ Total(f, n) \in Int
         /\ Total(f, n + 1) = Total(f, n) + f[n]
<1>1. n + 1 \in Nat /\ n + 1 - 1 = n /\ n + 1 <= n + 1
  OBVIOUS
<1>2. PICK u : Adds(u, f, n + 1)
  BY <1>1, AddsExists
<1>3. u \in [0..(n + 1) -> Int] /\ u[0] = 0 /\ \A k \in 0..n : u[k + 1] = u[k] + f[k]
  BY <1>1, <1>2 DEF Adds
<1>4. PICK w : w = [k \in 0..n |-> u[k]]
  OBVIOUS
<1>5. Adds(w, f, n)
  <2>1. w \in [0..n -> Int] /\ w[0] = 0
    BY <1>3, <1>4
  <2>2. ASSUME NEW k \in 0..(n - 1) PROVE w[k + 1] = w[k] + f[k]
    <3>1. k \in 0..n /\ k + 1 \in 0..n
      OBVIOUS
    <3> QED
      BY <3>1, <1>3, <1>4
  <2> QED
    BY <2>1, <2>2 DEF Adds
<1>6. Total(f, n) = u[n] /\ u[n] \in Int
  BY <1>3, <1>4, <1>5, TotalAdds
<1>7. Total(f, n + 1) = u[n + 1]
  BY <1>1, <1>2, TotalAdds
<1> QED
  BY <1>3, <1>6, <1>7

\* n elements are enough to have a sum.
LEMMA TotalInt ==
  ASSUME NEW f, NEW n \in Nat, \A k \in 0..(n - 1) : f[k] \in Int
  PROVE  Total(f, n) \in Int
<1>1. PICK u : Adds(u, f, n)
  BY AddsExists
<1> QED
  BY <1>1, TotalAdds, SMTT(40) DEF Adds

-----------------------------------------------------------------------------
Share == N \div p

\* A thread holds what it began with and what it has read of its share; main holds
\* what the threads that it has joined do.
SumInv ==
  /\ junk \in [Ids -> Int] /\ sum \in Int
  /\ \A id \in Ids : thread[id].step # "none" =>
       thread[id].foo + Total(A, First(id)) = junk[id] + Total(A, thread[id].i)
  /\ \A id \in Ids : thread[id].step = "ended" => thread[id].i = End(id)
  /\ pc \in Before \cup {"create"} => sum = 0
  /\ pc = "join" => sum = Total(junk, threadId) + Total(A, threadId * Share)
  /\ pc \in {"serial", "freed"} => sum = Total(junk, p) + Total(A, p * Share)
  /\ pc = "freed" => serialSum = Total(A, N)

\* Once there is an array, every part of it has a sum.
LEMMA PartsAreInt ==
  ASSUME IInv, pc \notin Before
  PROVE  /\ \A n \in Nat : n <= N => Total(A, n) \in Int
         /\ \A n \in Nat : n < N => A[n] \in Int /\ Total(A, n + 1) = Total(A, n) + A[n]
<1>1. N \in Nat /\ \A k \in 0..(N - 1) : A[k] \in Int
  BY LongAssumption DEF IInv, Typed, InOrder
<1>2. ASSUME NEW n \in Nat, n <= N PROVE Total(A, n) \in Int
  <2>1. \A k \in 0..(n - 1) : A[k] \in Int
    BY <1>1, <1>2
  <2> QED
    BY <2>1, TotalInt
<1>3. ASSUME NEW n \in Nat, n < N PROVE A[n] \in Int /\ Total(A, n + 1) = Total(A, n) + A[n]
  <2>1. \A k \in 0..n : A[k] \in Int
    BY <1>1, <1>3
  <2>2. n \in 0..n
    OBVIOUS
  <2> QED
    BY <2>1, <2>2, TotalNext
<1> QED
  BY <1>2, <1>3

LEMMA InitSumInv == Init => SumInv
<1> SUFFICES ASSUME Init
             PROVE  SumInv
  OBVIOUS
<1>1. /\ pc = "read_p" /\ sum = 0 /\ junk \in [Ids -> Int]
      /\ \A id \in Ids : thread[id].step = "none"
  BY DEF Init, NoThread
<1> QED
  BY <1>1 DEF SumInv, Before

\* While numbers are read there is no thread.
LEMMA ReadSum ==
  ASSUME IInv, SumInv, NEW number \in Nat, read_p(number) \/ read_N(number)
  PROVE  SumInv'
<1>1. /\ pc \in Before /\ pc' \in Before \cup {"create"}
      /\ UNCHANGED <<thread, junk, sum>>
      /\ \A id \in Ids : thread[id].step = "none"
  BY DEF IInv, InOrder, read_p, read_N, Before
<1> QED
  BY <1>1 DEF SumInv, Before

LEMMA CreateSum ==
  ASSUME IInv, SumInv, create
  PROVE  SumInv'
<1>1. /\ pc = "create" /\ threadId \in Ids /\ threadId < p /\ p \in 1..MaxThreads
      /\ UNCHANGED <<p, N, A, sum>> /\ sum = 0
      /\ thread \in [Ids -> States] /\ junk \in [Ids -> Int]
  BY ThreadsAssumption DEF IInv, Typed, InOrder, SumInv, create, shared, Before, Ids
<1>2. \/ thread' = thread /\ junk' = junk
      \/ \E foo \in Junk :
           /\ thread' = [thread EXCEPT ![threadId] = [step |-> "sum", i |-> First(threadId), foo |-> foo]]
           /\ junk' = [junk EXCEPT ![threadId] = foo]
  BY DEF create
<1>3. junk' \in [Ids -> Int]
  BY <1>1, <1>2, LongAssumption
<1>4. \A id \in Ids : First(id)' = First(id) /\ End(id)' = End(id)
  BY <1>1 DEF First, End
<1>5. ASSUME NEW id \in Ids
      PROVE  /\ thread'[id].step # "none" =>
                  thread'[id].foo + Total(A, First(id)) = junk'[id] + Total(A, thread'[id].i)
             /\ thread'[id].step = "ended" => thread'[id].i = End(id)
  <2>1. CASE thread'[id] = thread[id] /\ junk'[id] = junk[id]
    BY <2>1 DEF SumInv
  <2>2. CASE thread'[id].step = "sum" /\ thread'[id].i = First(id) /\ thread'[id].foo = junk'[id]
    BY <2>2
  <2> QED
    BY <1>1, <1>2, <2>1, <2>2
<1>6. \/ pc' = "create"
      \/ pc' = "join" /\ threadId' = 0
  BY <1>1 DEF create, Looped
<1>7. Total(junk', 0) + Total(A', 0 * Share') = 0
  <2>1. Share \in Nat /\ Share' = Share
    BY <1>1, QuotientFits DEF IInv, Typed, Share
  <2>2. 0 * Share' = 0
    BY <2>1
  <2>3. Total(junk', 0) = 0 /\ Total(A', 0) = 0
    BY TotalOfNone
  <2> QED
    BY <2>2, <2>3
<1> QED
  BY <1>1, <1>3, <1>4, <1>5, <1>6, <1>7 DEF SumInv, Before

\* Of the threads before it and of the one that is joined.
LEMMA JoinSum ==
  ASSUME IInv, SumInv, join
  PROVE  SumInv'
<1> DEFINE id == threadId
<1>1. /\ pc = "join" /\ id \in Ids /\ id \in Nat /\ id < p /\ p \in 1..MaxThreads
      /\ UNCHANGED <<p, N, A, thread, junk, serialSum>>
      /\ sum' = sum + thread[id].foo
      /\ thread[id].step = "ended" /\ thread[id] \in States
      /\ junk \in [Ids -> Int] /\ sum \in Int
  BY ThreadsAssumption DEF IInv, Typed, InOrder, SumInv, join, Ended, shared, Before, Ids
<1>2. /\ sum = Total(junk, id) + Total(A, id * Share)
      /\ thread[id].foo + Total(A, id * Share) = junk[id] + Total(A, (id + 1) * Share)
  BY <1>1 DEF SumInv, First, End, Share
<1>3. Total(A, id * Share) \in Int /\ Total(A, (id + 1) * Share) \in Int
  <2>1. First(id) \in Nat /\ End(id) \in Nat /\ First(id) <= End(id) /\ End(id) <= N /\ N \in Nat
    BY <1>1, SharesAreApart DEF IInv, Typed
  <2>2. Total(A, First(id)) \in Int /\ Total(A, End(id)) \in Int
    BY <1>1, <2>1, PartsAreInt DEF Before
  <2> QED
    BY <2>2 DEF First, End, Share
<1>4. Total(junk, id) \in Int /\ Total(junk, id + 1) = Total(junk, id) + junk[id] /\ junk[id] \in Int
  <2>1. \A k \in 0..id : junk[k] \in Int
    BY <1>1, ThreadsAssumption DEF Ids
  <2>2. id \in Nat /\ id \in 0..id
    BY <1>1
  <2> HIDE DEF id
  <2> QED
    BY <2>1, <2>2, TotalNext
<1>5. sum' = Total(junk, id + 1) + Total(A, (id + 1) * Share) /\ sum' \in Int
  <2>1. thread[id].foo \in Int
    BY <1>1 DEF States
  <2> HIDE DEF id
  <2> QED
    BY <1>1, <1>2, <1>3, <1>4, <2>1
<1>6. /\ \A other \in Ids : First(other)' = First(other) /\ End(other)' = End(other)
      /\ Share' = Share
  BY <1>1 DEF First, End, Share
<1>7. \/ pc' = "join" /\ threadId' = id + 1
      \/ pc' = "serial" /\ id + 1 = p
  BY <1>1 DEF join, Looped
<1> QED
  BY <1>1, <1>5, <1>6, <1>7 DEF SumInv, Before

LEMMA MainSum ==
  ASSUME IInv, SumInv, join_nothing \/ serial
  PROVE  SumInv'
<1>1. /\ UNCHANGED <<p, N, A, thread, threadId, sum, junk>>
      /\ \/ pc' = "undefined"
         \/ pc = "serial" /\ pc' = "freed" /\ serialSum' = Total(A, N)
  BY DEF join_nothing, serial, shared
<1>2. /\ \A id \in Ids : First(id)' = First(id) /\ End(id)' = End(id)
      /\ Share' = Share
  BY <1>1 DEF First, End, Share
<1> QED
  BY <1>1, <1>2 DEF SumInv, Before

LEMMA SumArraySum ==
  ASSUME IInv, SumInv, NEW self \in Ids, sumArray(self)
  PROVE  SumInv'
<1>1. /\ thread[self].step = "sum" /\ UNCHANGED <<p, N, A, pc, threadId, sum, serialSum, junk>>
      /\ thread[self] \in States /\ thread \in [Ids -> States] /\ junk[self] \in Int
  BY DEF IInv, Typed, SumInv, sumArray, add, return, shared
<1>2. /\ pc \notin Before /\ p \in 1..MaxThreads /\ self < p
      /\ First(self) <= thread[self].i /\ thread[self].i <= End(self)
      /\ thread[self].foo + Total(A, First(self)) = junk[self] + Total(A, thread[self].i)
  BY <1>1 DEF IInv, InOrder, InShare, SumInv
<1>3. First(self) \in Nat /\ End(self) \in Nat /\ End(self) <= N /\ N \in Nat
  BY <1>2, SharesAreApart DEF IInv, Typed
<1>4. /\ \A id \in Ids : First(id)' = First(id) /\ End(id)' = End(id)
      /\ Share' = Share
  BY <1>1 DEF First, End, Share
<1>5. /\ thread'[self].foo + Total(A, First(self)) = junk[self] + Total(A, thread'[self].i)
      /\ thread'[self].step = "ended" => thread'[self].i = End(self)
      /\ \A id \in Ids \ {self} : thread'[id] = thread[id]
  <2>1. CASE add(self)
    <3>1. /\ thread[self].i \in Nat /\ thread[self].i < N /\ First(self) <= N
          /\ thread[self].foo \in Int
      BY <1>1, <1>2, <1>3, <2>1 DEF add, States
    <3>2. /\ A[thread[self].i] \in Int /\ Total(A, thread[self].i) \in Int
          /\ Total(A, First(self)) \in Int
          /\ Total(A, thread[self].i + 1) = Total(A, thread[self].i) + A[thread[self].i]
      BY <1>2, <1>3, <3>1, PartsAreInt
    <3>3. thread' = [thread EXCEPT ![self] =
                       [step |-> "sum", i |-> @.i + 1, foo |-> @.foo + A[thread[self].i]]]
      BY <1>1, <2>1 DEF add, States
    <3>4. /\ thread'[self].step = "sum" /\ thread'[self].i = thread[self].i + 1
          /\ thread'[self].foo = thread[self].foo + A[thread[self].i]
      BY <1>1, <3>3
    <3>5. thread[self].foo + A[thread[self].i] + Total(A, First(self))
            = junk[self] + Total(A, thread[self].i + 1)
      BY <1>1, <1>2, <3>1, <3>2
    <3> QED
      BY <1>1, <3>3, <3>4, <3>5
  <2>2. CASE return(self)
    <3>1. thread' = [thread EXCEPT ![self].step = "ended"] /\ thread[self].i >= End(self)
      BY <2>2 DEF return
    <3>2. thread[self].i \in Nat /\ thread[self].i = End(self)
      BY <1>1, <1>2, <1>3, <3>1 DEF States
    <3> QED
      BY <1>1, <1>2, <3>1, <3>2 DEF States
  <2> QED
    BY <2>1, <2>2 DEF sumArray
<1>6. \A id \in Ids : id # self =>
        /\ thread'[id].step # "none" =>
             thread'[id].foo + Total(A, First(id)) = junk[id] + Total(A, thread'[id].i)
        /\ thread'[id].step = "ended" => thread'[id].i = End(id)
  BY <1>5 DEF SumInv
<1> QED
  BY <1>1, <1>4, <1>5, <1>6 DEF SumInv

LEMMA NextSumInv == IInv /\ SumInv /\ [Next]_vars => SumInv'
<1> SUFFICES ASSUME IInv, SumInv, [Next]_vars
             PROVE  SumInv'
  OBVIOUS
<1>1. ASSUME NEW number \in 0..(MaxThreads + 1), read_p(number) PROVE SumInv'
  BY <1>1, ReadSum, ThreadsAssumption
<1>2. ASSUME NEW number \in 0..MaxN, read_N(number) PROVE SumInv'
  BY <1>2, ReadSum, ThreadsAssumption
<1>3. CASE create
  BY <1>3, CreateSum
<1>4. CASE join
  BY <1>4, JoinSum
<1>5. CASE join_nothing \/ serial
  BY <1>5, MainSum
<1>6. ASSUME NEW id \in Ids, sumArray(id) PROVE SumInv'
  BY <1>6, SumArraySum
<1>7. CASE UNCHANGED vars
  BY <1>7 DEF SumInv, First, End, Share, vars, shared
<1> QED
  BY <1>1, <1>2, <1>3, <1>4, <1>5, <1>6, <1>7 DEF Next, main

\* The first n of numbers that are all 0.
LEMMA TotalOfZeros ==
  ASSUME NEW g, NEW n \in Nat, \A k \in 0..(n - 1) : g[k] = 0
  PROVE  Total(g, n) = 0
<1>1. PICK u : u = [k \in 0..n |-> 0]
  OBVIOUS
<1>2. Adds(u, g, n)
  <2>1. u \in [0..n -> Int] /\ u[0] = 0
    BY <1>1
  <2>2. ASSUME NEW k \in 0..(n - 1) PROVE u[k + 1] = u[k] + g[k]
    <3>1. k \in 0..n /\ k + 1 \in 0..n /\ g[k] = 0
      OBVIOUS
    <3> QED
      BY <1>1, <3>1
  <2> QED
    BY <2>1, <2>2 DEF Adds
<1>3. Total(g, n) = u[n]
  BY <1>2, TotalAdds
<1> QED
  BY <1>1, <1>3

LEMMA SharesAreAll ==
  ASSUME NEW n \in Nat, NEW d \in Nat \ {0}, n % d = 0
  PROVE  d * (n \div d) = n
  OBVIOUS

LEMMA SumInvSumsAgree == IInv /\ SumInv => SumsAgree
<1> SUFFICES ASSUME IInv, SumInv, pc = "freed", N % p = 0, \A id \in 0..(p - 1) : junk[id] = 0
             PROVE  sum = serialSum
  BY DEF SumsAgree
<1>1. N \in Nat /\ p \in 1..MaxThreads /\ p \in Nat \ {0}
  BY ThreadsAssumption DEF IInv, Typed, InOrder, Before
<1>2. sum = Total(junk, p) + Total(A, p * Share) /\ serialSum = Total(A, N)
  BY DEF SumInv
<1>3. p * Share = N
  BY <1>1, SharesAreAll DEF Share
<1>4. Total(junk, p) = 0
  BY <1>1, TotalOfZeros
<1>5. Total(A, N) \in Int
  BY <1>1, PartsAreInt DEF Before
<1> QED
  BY <1>2, <1>3, <1>4, <1>5

\* For every number of threads and elements, and every order: the parallel sum is
\* the serial sum if p divides N and every foo begins at 0 (pthreads.c:87-88).
THEOREM SumsAgreeCorrect == Spec => []SumsAgree
<1>1. Init => IInv /\ SumInv
  BY InitIInv, InitSumInv
<1>2. (IInv /\ SumInv) /\ [Next]_vars => (IInv /\ SumInv)'
  BY NextIInv, NextSumInv
<1> QED
  BY <1>1, <1>2, SumInvSumsAgree, PTL DEF Spec
=============================================================================
