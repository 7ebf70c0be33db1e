--------------------------- MODULE EvaluationProofs ---------------------------
(* What holds of the two programs that evaluate the solutions of students,   *)
(* which share nothing but this module: datalab/handout/btest.c with the     *)
(* puzzles of bits.c, for every range of values and every number of alarms,  *)
(* and cachelab/handout/test-trans.c with the tracegen that it runs, for     *)
(* every shape of the matrices.  What is said of the alarms of the first     *)
(* needs neither the values nor the puzzles; of the second, nothing needs    *)
(* the cache.                                                                *)
EXTENDS Btest, TestTrans, FiniteSetTheorems, WellFoundedInduction, TLAPS

-----------------------------------------------------------------------------
(* btest.c                                                                   *)

Testing == {"generate", "set_alarm", "test"}

\* The state of the alarm at each place of the loop in run_tests.  An alarm that
\* is to ring was set by the test under way or, before that one sets its own, by
\* the test before it; and whoever set it returned without having been stopped.
AlarmInv ==
  /\ t \in Nat \ {0} /\ armed \in Nat
  /\ pc \in Testing \cup {"report", "total", "exited", "undefined"}
  /\ ~timeout_limit => armed = 0 /\ pc # "set_alarm"
  /\ pc \in {"generate", "set_alarm"} => armed \in {0, t - 1}
  /\ pc \in {"test", "report", "total"} => armed \in {0, t}
  /\ charged \subseteq (1..t) \X (1..t)
  /\ pc \in Testing => \A c \in charged : c[1] # t
  /\ pc \in Testing \cup {"report", "total"} => \A c \in charged : c[1] # armed
  /\ \A c \in charged : c[2] = c[1] \/ (c[2] = c[1] - 1 /\ \A d \in charged : d[1] # c[2])

LEMMA AlarmInvInit == Init => AlarmInv
BY DEF Init, AlarmInv, Testing

\* The steps that neither take the next function nor touch the alarm.
LEMMA TestSteps ==
  ASSUME AlarmInv, generate \/ test \/ test_ends \/ returns_0 \/ UNCHANGED vars
  PROVE  AlarmInv'
<1>1. /\ t' = t /\ armed' = armed /\ charged' = charged /\ (timeout_limit' <=> timeout_limit)
      /\ \/ pc = "generate" /\ pc' = "set_alarm" /\ timeout_limit
         \/ pc = "generate" /\ pc' = "test" /\ ~timeout_limit
         \/ pc = "test" /\ pc' \in {"test", "report"}
         \/ pc = "total" /\ pc' = "exited"
         \/ pc' = pc
  BY DEF generate, test, test_ends, returns_0, vars, Returns
<1> QED
  BY <1>1 DEF AlarmInv, Testing

\* The alarm of the test under way takes the place of an older one.
LEMMA SetAlarmStep == ASSUME AlarmInv, set_alarm PROVE AlarmInv'
<1>1. /\ pc = "set_alarm" /\ pc' = "test" /\ armed' = t /\ t' = t /\ charged' = charged
      /\ (timeout_limit' <=> timeout_limit)
  BY DEF set_alarm
<1> QED
  BY <1>1 DEF AlarmInv, Testing

\* The next function has a greater number than all that were stopped.
LEMMA ReportStep == ASSUME AlarmInv, report PROVE AlarmInv'
<1>1. /\ pc = "report" /\ armed' = armed /\ charged' = charged /\ (timeout_limit' <=> timeout_limit)
      /\ \/ pc' = "generate" /\ t' = t + 1
         \/ pc' = "total" /\ t' = t
  BY DEF report
<1>2. CASE pc' = "total" /\ t' = t
  BY <1>1, <1>2 DEF AlarmInv, Testing
<1>3. CASE pc' = "generate" /\ t' = t + 1
  <2>1. t + 1 \in Nat \ {0} /\ t + 1 - 1 = t /\ armed \in {0, t} /\ armed \in Nat
    BY <1>1 DEF AlarmInv
  <2>2. charged \subseteq (1..(t + 1)) \X (1..(t + 1)) /\ \A c \in charged : c[1] # t + 1
    BY <2>1 DEF AlarmInv
  <2>3. (\A c \in charged : c[1] # armed) /\ (timeout_limit \/ armed = 0)
    BY <1>1 DEF AlarmInv, Testing
  <2> QED
    BY <1>1, <1>3, <2>1, <2>2, <2>3 DEF AlarmInv, Testing
<1> QED
  BY <1>1, <1>2, <1>3

\* The test that an alarm stops is charged to whoever had set that alarm.
LEMMA RingStep == ASSUME AlarmInv, timeout_handler PROVE AlarmInv'
<1>1. /\ armed # 0 /\ armed' = 0 /\ t' = t /\ (timeout_limit' <=> timeout_limit)
      /\ pc \notin {"exited", "undefined"}
  BY DEF timeout_handler
<1>2. CASE pc \in {"set_alarm", "test"}
  <2>1. pc' = "report" /\ charged' = charged \cup {<<t, armed>>}
    BY <1>2 DEF timeout_handler, Returns
  <2>2. /\ t \in Nat \ {0} /\ armed \in 1..t /\ armed \in {t - 1, t}
        /\ \A c \in charged : c[1] # t /\ c[1] # armed /\ c[1] \in 1..t /\ c[2] \in 1..t
    BY <1>1, <1>2 DEF AlarmInv, Testing
  <2>3. charged' \subseteq (1..t) \X (1..t)
    BY <2>1, <2>2 DEF AlarmInv
  <2>4. \A c \in charged' : c[1] # 0
    BY <2>3
  <2>5. ASSUME NEW c \in charged'
        PROVE  c[2] = c[1] \/ (c[2] = c[1] - 1 /\ \A d \in charged' : d[1] # c[2])
    <3>1. CASE c = <<t, armed>>
      <4>1. c[1] = t /\ c[2] = armed
        BY <3>1
      <4> QED
        BY <4>1, <2>1, <2>2
    <3>2. CASE c \in charged
      <4>1. c[1] < t /\ c[1] \in Nat
        BY <3>2, <2>2
      <4>2. c[2] = c[1] \/ (c[2] = c[1] - 1 /\ \A d \in charged : d[1] # c[2])
        BY <3>2 DEF AlarmInv
      <4> QED
        BY <4>1, <4>2, <2>1, <2>2
    <3> QED
      BY <3>1, <3>2, <2>1
  <2>6. timeout_limit
    BY <1>1 DEF AlarmInv
  <2> QED
    BY <1>1, <2>1, <2>2, <2>3, <2>4, <2>5, <2>6 DEF AlarmInv, Testing
<1>3. CASE pc \notin {"set_alarm", "test"}
  <2>1. pc' = "undefined" /\ charged' = charged
    BY <1>3 DEF timeout_handler
  <2> QED
    BY <1>1, <2>1 DEF AlarmInv, Testing
<1> QED
  BY <1>2, <1>3

LEMMA AlarmInvNext == AlarmInv /\ [Next]_vars => AlarmInv'
BY TestSteps, SetAlarmStep, ReportStep, RingStep DEF Next

LEMMA AlarmInvCorrect == Spec => []AlarmInv
BY AlarmInvInit, AlarmInvNext, PTL DEF Spec

\* A function is charged with its own alarm or with that of the function before
\* it, which then was not stopped itself: no alarm of btest.c stops two functions,
\* and none reaches further than the next one.
THEOREM ChargedOnceCorrect == Spec => []ChargedOnce
<1>1. AlarmInv => ChargedOnce
  BY DEF AlarmInv, ChargedOnce, Stopped
<1> QED
  BY <1>1, AlarmInvCorrect, PTL

\* The handler jumps into a call of test_function that has returned only when the
\* function that returned last was not stopped: then its own alarm is still set.
THEOREM OnlyLateAlarmsCorrect == Spec => OnlyLateAlarms
<1>1. ASSUME AlarmInv, Next, pc' = "undefined"
      PROVE  Returned > 0 /\ Returned \notin Stopped
  <2>1. timeout_handler
    BY <1>1 DEF Next, AlarmInv, Testing, generate, set_alarm, test, test_ends, report, returns_0, Returns
  <2>2. armed # 0 /\ pc \in {"generate", "report", "total"}
    BY <1>1, <2>1 DEF timeout_handler, Returns, AlarmInv, Testing
  <2>3. armed = Returned /\ armed \in Nat
    BY <1>1, <2>2 DEF AlarmInv, Returned
  <2>4. \A c \in charged : c[1] # armed
    BY <1>1, <2>2 DEF AlarmInv, Testing
  <2> QED
    BY <2>2, <2>3, <2>4 DEF Stopped
<1> QED
  BY <1>1, AlarmInvCorrect, PTL DEF Spec, OnlyLateAlarms

-----------------------------------------------------------------------------
(* bits.c                                                                    *)

\* The provers know of powers only as numbers of subsets.
LEMMA PowersGrow ==
  ASSUME NEW m \in Nat, NEW n \in Nat, m <= n
  PROVE  2^m \in Nat /\ 2^m <= 2^n /\ 2^n \in Nat
<1>1. /\ IsFiniteSet(1..m) /\ Cardinality(1..m) = m
      /\ IsFiniteSet(1..n) /\ Cardinality(1..n) = n
  BY FS_Interval
<1>2. /\ IsFiniteSet(SUBSET (1..m)) /\ Cardinality(SUBSET (1..m)) = 2^m
      /\ IsFiniteSet(SUBSET (1..n)) /\ Cardinality(SUBSET (1..n)) = 2^n
  BY <1>1, FS_SUBSET
<1>3. SUBSET (1..m) \subseteq SUBSET (1..n)
  OBVIOUS
<1>4. Cardinality(SUBSET (1..m)) <= Cardinality(SUBSET (1..n))
  BY <1>2, <1>3, FS_Subset
<1>5. Cardinality(SUBSET (1..m)) \in Nat /\ Cardinality(SUBSET (1..n)) \in Nat
  BY <1>2, FS_CardinalityType
<1> QED
  BY <1>2, <1>4, <1>5

\* The digits of the numbers that the puzzles use.
LEMMA Digits ==
  ASSUME NEW k \in 0..30
  PROVE  /\ (1 \div 2^k) % 2 = 1 <=> k = 0
         /\ (2 \div 2^k) % 2 = 1 <=> k = 1
         /\ (9 \div 2^k) % 2 = 1 <=> k \in {0, 3}
         /\ (73 \div 2^k) % 2 = 1 <=> k \in {0, 3, 6}
         /\ (215 \div 2^k) % 2 = 1 <=> k \in {0, 1, 2, 4, 6, 7}
<1>1. CASE k = 0
  BY <1>1
<1>2. CASE k = 1
  BY <1>2
<1>3. CASE k = 2
  BY <1>3
<1>4. CASE k = 3
  BY <1>4
<1>5. CASE k = 4
  BY <1>5
<1>6. CASE k = 5
  BY <1>6
<1>7. CASE k = 6
  BY <1>7
<1>8. CASE k = 7
  BY <1>8
<1>9. CASE k >= 8
  <2>1. 2^8 = 256
    OBVIOUS
  <2>2. \A m \in Nat : m <= k => 2^m <= 2^k /\ 2^k \in Nat
    BY PowersGrow
  <2>3. 8 \in Nat /\ 8 <= k
    BY <1>9
  <2>4. 2^8 <= 2^k /\ 2^k \in Nat
    BY <2>2, <2>3, Zenon
  <2>5. PICK p \in Nat : p = 2^k /\ 256 <= p
    BY <2>1, <2>4
  <2>6. 1 \div p = 0 /\ 2 \div p = 0 /\ 9 \div p = 0 /\ 73 \div p = 0 /\ 215 \div p = 0
    BY <2>5
  <2> QED
    BY <1>9, <2>5, <2>6
<1> QED
  BY <1>1, <1>2, <1>3, <1>4, <1>5, <1>6, <1>7, <1>8, <1>9

LEMMA Words ==
  /\ word(1) = {0} /\ word(2) = {1} /\ word(9) = {0, 3} /\ word(73) = {0, 3, 6}
  /\ word(215) = {0, 1, 2, 4, 6, 7}
<1>1. word(1) = {k \in 0..30 : k = 0}
  BY Digits, Zenon DEF word
<1>2. word(2) = {k \in 0..30 : k = 1}
  BY Digits, Zenon DEF word
<1>3. word(9) = {k \in 0..30 : k \in {0, 3}}
  BY Digits, Zenon DEF word
<1>4. word(73) = {k \in 0..30 : k \in {0, 3, 6}}
  BY Digits, Zenon DEF word
<1>5. word(215) = {k \in 0..30 : k \in {0, 1, 2, 4, 6, 7}}
  BY Digits, Zenon DEF word
<1> QED
  BY <1>1, <1>2, <1>3, <1>4, <1>5

-----------------------------------------------------------------------------
\* Sums of which one summand is simple.
LEMMA AddDisjoint ==
  ASSUME NEW v \in SUBSET Bit, NEW w \in SUBSET Bit, v \cap w = {}
  PROVE  add(v, w) = v \cup w
<1>1. carries(v, w) = {}
  BY DEF carries
<1>2. xor(v, w) = v \cup w
  BY DEF xor
<1>3. xor(v \cup w, {}) = v \cup w
  BY DEF xor
<1> QED
  BY <1>1, <1>2, <1>3 DEF add

LEMMA AddNothing == ASSUME NEW v \in SUBSET Bit PROVE add(v, {}) = v
BY AddDisjoint

LEMMA AddSelf == ASSUME NEW v \in SUBSET Bit PROVE add(v, v) = {k \in Bit : k - 1 \in v}
<1>1. xor(v, v) = {}
  BY DEF xor
<1>2. carries(v, v) = {k \in Bit : k - 1 \in v}
  <2>1. ASSUME NEW k \in Bit, NEW j \in v, j < k, (j + 1)..(k - 1) \subseteq v
        PROVE  k - 1 \in v
    <3>1. j \in Int /\ k \in Int
      BY DEF Bit
    <3>2. CASE j = k - 1
      BY <3>2
    <3>3. CASE j < k - 1
      <4>1. k - 1 \in (j + 1)..(k - 1)
        BY <3>1, <3>3
      <4> QED
        BY <2>1, <4>1
    <3> QED
      BY <2>1, <3>1, <3>2, <3>3
  <2>2. ASSUME NEW k \in Bit, k - 1 \in v
        PROVE  \E j \in v : j < k /\ (j + 1)..(k - 1) \subseteq v
    <3>1. k - 1 < k /\ (k - 1 + 1)..(k - 1) = {}
      BY DEF Bit
    <3> QED
      BY <2>2, <3>1
  <2>3. carries(v, v) = {k \in Bit : \E j \in v : j < k /\ (j + 1)..(k - 1) \subseteq v}
    BY DEF carries
  <2> QED
    BY <2>1, <2>2, <2>3
<1>3. \A w : xor({}, w) = w
  BY DEF xor
<1> QED
  BY <1>1, <1>2, <1>3 DEF add

\* A bit of v + 1 differs from that of v where all lower ones are 1.
LEMMA AddOne ==
  ASSUME NEW v \in SUBSET Bit
  PROVE  add(v, {0}) = {k \in Bit : k \in v <=> ~(0..(k - 1) \subseteq v)}
<1>1. carries(v, {0}) = {k \in Bit : 0 < k /\ 0..(k - 1) \subseteq v}
  <2>1. ASSUME NEW k \in Bit
        PROVE  (\E j \in v \cap {0} : j < k /\ (j + 1)..(k - 1) \subseteq v \cup {0})
                 <=> 0 < k /\ 0..(k - 1) \subseteq v
    <3>1. k \in Int /\ k >= 0
      BY DEF Bit
    <3>2. ASSUME 0 < k PROVE 0..(k - 1) = {0} \cup 1..(k - 1) /\ 0 \notin 1..(k - 1)
      BY <3>1, <3>2
    <3> QED
      BY <3>1, <3>2
  <2> QED
    BY <2>1, Zenon DEF carries
<1>2. ASSUME NEW k \in Bit
      PROVE  k \in xor(xor(v, {0}), carries(v, {0})) <=> (k \in v <=> ~(0..(k - 1) \subseteq v))
  <2>1. k \in carries(v, {0}) <=> 0 < k /\ 0..(k - 1) \subseteq v
    BY <1>1
  <2>2. CASE k = 0
    <3>1. 0..(k - 1) \subseteq v /\ ~(0 < k)
      BY <2>2
    <3> QED
      BY <2>1, <2>2, <3>1 DEF xor
  <2>3. CASE k # 0
    <3>1. 0 < k
      BY <2>3 DEF Bit
    <3> QED
      BY <2>1, <2>3, <3>1 DEF xor
  <2> QED
    BY <2>2, <2>3
<1>3. xor(xor(v, {0}), carries(v, {0})) \subseteq Bit
  <2>1. {0} \in SUBSET Bit
    BY DEF Bit
  <2> QED
    BY <1>1, <2>1 DEF xor
<1> QED
  BY <1>2, <1>3 DEF add

LEMMA NegateIs == ASSUME NEW v \in SUBSET Bit PROVE add(not(v), {0}) = test_negate(v)
<1>1. not(v) \in SUBSET Bit
  BY DEF not
<1>2. ASSUME NEW k \in Bit
      PROVE  (k \in not(v) <=> ~(0..(k - 1) \subseteq not(v)))
               <=> (k \in v <=> \A j \in 0..(k - 1) : j \notin v)
  <2>1. 0..(k - 1) \subseteq Bit
    BY DEF Bit
  <2> QED
    BY <2>1 DEF not
<1> QED
  BY <1>1, <1>2, AddOne DEF test_negate

LEMMA Least ==
  ASSUME NEW T \in SUBSET Nat, T # {}
  PROVE  \E m \in T : \A j \in T : m <= j
<1>1. PICK m \in T : \A j \in T : ~(<<j, m>> \in OpToRel(<, Nat))
  BY NatLessThanWellFounded, WFMin
<1>2. ASSUME NEW j \in T PROVE m <= j
  <2>1. ~(j < m)
    BY <1>1 DEF OpToRel
  <2> QED
    BY <2>1
<1> QED
  BY <1>2

\* The puzzles that are finished.
LEMMA IsTmaxIsRight == ASSUME NEW v \in SUBSET Bit PROVE isTmax(v) = truth(v = TMax)
<1>1. PICK w \in SUBSET Bit : /\ w = add(v, word(1))
                              /\ w = {k \in Bit : k \in v <=> ~(0..(k - 1) \subseteq v)}
  BY Words, AddOne
<1>2. isTmax(v) = truth(add(add(w, w), truth(w = {})) = {})
  BY <1>1 DEF isTmax
<1>3. PICK z \in SUBSET Bit : z = add(w, w) /\ z = {k \in Bit : k - 1 \in w}
  BY AddSelf
<1>4. CASE w = {}
  <2>1. z = {} /\ truth(w = {}) = {0} /\ {0} \in SUBSET Bit
    BY <1>3, <1>4 DEF truth, Bit
  <2>2. add(z, {0}) = {0}
    BY <2>1, AddDisjoint
  <2>3. v # TMax
    <3>1. 31 \in Bit /\ 31 \notin TMax /\ 0..(31 - 1) \subseteq TMax
      BY DEF Bit, TMax
    <3> QED
      BY <1>1, <1>4, <3>1
  <2> QED
    BY <1>2, <1>3, <2>1, <2>2, <2>3 DEF truth
<1>5. CASE w # {}
  <2>1. truth(w = {}) = {} /\ add(z, {}) = z
    BY <1>5, AddNothing DEF truth
  <2>2. z = {} => v = TMax
    <3> SUFFICES ASSUME z = {}
                 PROVE  v = TMax
      OBVIOUS
    <3>1. ASSUME NEW k \in 0..30 PROVE k \notin w
      <4>1. k + 1 \in Bit /\ k + 1 - 1 = k
        BY DEF Bit
      <4> QED
        BY <1>3, <4>1
    <3>2. TMax \subseteq v
      <4> SUFFICES ASSUME TMax \ v # {}
                   PROVE  FALSE
        OBVIOUS
      <4>1. PICK m \in TMax \ v : \A j \in TMax \ v : m <= j
        <5>1. TMax \ v \in SUBSET Nat
          BY DEF TMax
        <5> QED
          BY <5>1, Least
      <4>2. m \in 0..30 /\ m \in Bit /\ 0..(m - 1) \subseteq v
        BY <4>1 DEF TMax, Bit
      <4> QED
        BY <1>1, <3>1, <4>1, <4>2
    <3>3. 31 \in w
      <4>1. PICK k \in w : k \in Bit
        BY <1>1, <1>5
      <4>2. k = 31
        BY <3>1, <4>1 DEF Bit
      <4> QED
        BY <4>1, <4>2
    <3>4. 31 \notin v
      <4>1. 0..(31 - 1) \subseteq v
        BY <3>2 DEF TMax
      <4> QED
        BY <1>1, <3>3, <4>1
    <3>5. v \subseteq TMax
      <4>1. Bit = TMax \cup {31}
        BY DEF TMax, Bit
      <4> QED
        BY <3>4, <4>1
    <3> QED
      BY <3>2, <3>5
  <2>3. v = TMax => z = {}
    <3> SUFFICES ASSUME v = TMax, NEW k \in Bit, k - 1 \in w
                 PROVE  FALSE
      BY <1>3
    <3>1. k - 1 \in 0..30 /\ 0..(k - 1 - 1) \subseteq 0..30
      BY <1>1 DEF Bit
    <3> QED
      BY <1>1, <3>1 DEF TMax
  <2> QED
    BY <1>2, <1>3, <2>1, <2>2, <2>3 DEF truth
<1> QED
  BY <1>4, <1>5

LEMMA IsTminIsRight == ASSUME NEW v \in SUBSET Bit PROVE isTmin(v) = truth(v = TMin)
<1>1. PICK z \in SUBSET Bit : z = add(v, v) /\ z = {k \in Bit : k - 1 \in v}
  BY AddSelf
<1>2. isTmin(v) = truth(add(z, truth(v = {})) = {})
  BY <1>1 DEF isTmin
<1>3. CASE v = {}
  <2>1. z = {} /\ truth(v = {}) = {0} /\ {0} \in SUBSET Bit /\ v # TMin
    BY <1>1, <1>3 DEF truth, Bit, TMin
  <2>2. add(z, {0}) = {0}
    BY <2>1, AddDisjoint
  <2> QED
    BY <1>2, <2>1, <2>2 DEF truth
<1>4. CASE v # {}
  <2>1. truth(v = {}) = {} /\ add(z, {}) = z
    BY <1>4, AddNothing DEF truth
  <2>2. z = {} => v = TMin
    <3> SUFFICES ASSUME z = {}, NEW k \in v
                 PROVE  k = 31
      BY <1>4 DEF TMin
    <3>1. k + 1 \notin Bit
      BY <1>1 DEF Bit
    <3> QED
      BY <3>1 DEF Bit
  <2>3. v = TMin => z = {}
    BY <1>1 DEF TMin, Bit
  <2> QED
    BY <1>2, <2>1, <2>2, <2>3 DEF truth
<1> QED
  BY <1>3, <1>4

LEMMA ConstantsAreRight ==
  /\ tmax = TMax /\ tmin = TMin /\ minusOne = Bit
  /\ thirdBits = test_thirdBits /\ specialBits = test_specialBits
<1>1. shl({0}, 31) = {31}
  BY DEF shl, Bit
<1>2. tmax = TMax /\ tmin = TMin /\ minusOne = Bit
  BY <1>1, Words DEF tmax, tmin, minusOne, TMax, TMin, not, Bit
<1>3. thirdBits = test_thirdBits
  <2>1. shl({0, 3}, 6) = {6, 9}
    BY DEF shl, Bit
  <2>2. {6, 9} \in SUBSET Bit /\ {0, 3} \in SUBSET Bit /\ {0, 3, 6, 9} \in SUBSET Bit
        /\ {12, 15, 18, 21} \in SUBSET Bit /\ {0, 3, 6} \in SUBSET Bit
        /\ {9, 12, 15, 18, 21, 24, 27, 30} \in SUBSET Bit
    BY DEF Bit
  <2>3. add({6, 9}, {0, 3}) = {0, 3, 6, 9}
    BY <2>2, AddDisjoint
  <2>4. shl({0, 3, 6, 9}, 12) = {12, 15, 18, 21}
    BY DEF shl, Bit
  <2>5. add({12, 15, 18, 21}, {0, 3, 6, 9}) = {0, 3, 6, 9, 12, 15, 18, 21}
    BY <2>2, AddDisjoint
  <2>6. shl({0, 3, 6, 9, 12, 15, 18, 21}, 9) = {9, 12, 15, 18, 21, 24, 27, 30}
    BY DEF shl, Bit
  <2>7. add({9, 12, 15, 18, 21, 24, 27, 30}, {0, 3, 6}) = {0, 3, 6, 9, 12, 15, 18, 21, 24, 27, 30}
    BY <2>2, AddDisjoint
  <2>8. thirdBits = {0, 3, 6, 9, 12, 15, 18, 21, 24, 27, 30}
    <3>1. word(9) = {0, 3} /\ word(73) = {0, 3, 6}
      BY Words
    <3>2. add(shl(word(9), 6), word(9)) = {0, 3, 6, 9}
      BY <2>1, <2>3, <3>1
    <3>3. add(shl({0, 3, 6, 9}, 12), {0, 3, 6, 9}) = {0, 3, 6, 9, 12, 15, 18, 21}
      BY <2>4, <2>5
    <3> QED
      BY <2>6, <2>7, <3>1, <3>2, <3>3, Zenon DEF thirdBits
  <2> QED
    BY <2>8 DEF test_thirdBits, Bit
<1>4. specialBits = test_specialBits
  <2>1. shl({0, 1, 2, 4, 6, 7}, 14) = {14, 15, 16, 18, 20, 21}
    BY DEF shl, Bit
  <2> QED
    BY <2>1, Words DEF specialBits, test_specialBits, not
<1> QED
  BY <1>2, <1>3, <1>4

LEMMA FitsShortIsRight == ASSUME NEW v \in SUBSET Bit PROVE fitsShort(v) = truth(InRange(v, 16))
<1>1. ASSUME NEW k \in Bit
      PROVE  k \in shr(shl(v, 16), 16) <=> IF k <= 15 THEN k \in v ELSE 15 \in v
  BY DEF shr, shl, Bit
<1>2. xor(shr(shl(v, 16), 16), v) = {} <=> \A k \in 16..31 : k \in v <=> 15 \in v
  <2>1. shr(shl(v, 16), 16) \subseteq Bit
    BY DEF shr
  <2>2. xor(shr(shl(v, 16), 16), v) = {} <=> \A k \in Bit : k \in shr(shl(v, 16), 16) <=> k \in v
    BY <2>1 DEF xor
  <2>3. (\A k \in Bit : k \in shr(shl(v, 16), 16) <=> k \in v)
          <=> \A k \in Bit : k > 15 => (k \in v <=> 15 \in v)
    BY <1>1 DEF Bit
  <2> QED
    BY <2>2, <2>3 DEF Bit
<1>3. InRange(v, 16) <=> \A k \in 16..31 : k \in v <=> 15 \in v
  BY DEF InRange
<1> QED
  BY <1>2, <1>3 DEF fitsShort, truth

LEMMA NegateIsRight == ASSUME NEW v \in SUBSET Bit PROVE negate(v) = test_negate(v)
BY Words, NegateIs DEF negate

\* Above a mask of n bits a sum is that of a carry or of none.
LEMMA AddMask ==
  ASSUME NEW v \in SUBSET Bit, NEW n \in 0..30, NEW k \in n..31
  PROVE  k \in add(v, 0..(n - 1))
           <=> (k \in v <=> ~((\E j \in v : j < n) /\ n..(k - 1) \subseteq v))
<1>1. k \in carries(v, 0..(n - 1)) <=> (\E j \in v : j < n) /\ n..(k - 1) \subseteq v
  <2>1. k \in Bit /\ k \in Int /\ n \in Int /\ \A j \in v : j \in Int /\ j >= 0
    BY DEF Bit
  <2>2. ASSUME NEW j \in v \cap 0..(n - 1), (j + 1)..(k - 1) \subseteq v \cup 0..(n - 1)
        PROVE  (\E h \in v : h < n) /\ n..(k - 1) \subseteq v
    <3>1. j < n /\ j \in v
      BY <2>1
    <3>2. ASSUME NEW m \in n..(k - 1) PROVE m \in (j + 1)..(k - 1) /\ m \notin 0..(n - 1)
      BY <2>1, <3>1
    <3> QED
      BY <2>2, <3>1, <3>2
  <2>3. ASSUME NEW j \in v, j < n, n..(k - 1) \subseteq v
        PROVE  j \in 0..(n - 1) /\ j < k /\ (j + 1)..(k - 1) \subseteq v \cup 0..(n - 1)
    BY <2>1, <2>3
  <2>4. k \in carries(v, 0..(n - 1))
          <=> \E j \in v \cap 0..(n - 1) : j < k /\ (j + 1)..(k - 1) \subseteq v \cup 0..(n - 1)
    BY <2>1 DEF carries
  <2> QED
    BY <2>2, <2>3, <2>4
<1>2. k \notin 0..(n - 1)
  OBVIOUS
<1> QED
  BY <1>1, <1>2 DEF add, xor

\* The bias of a negative dividend.
LEMMA Mask == ASSUME NEW n \in 0..30 PROVE add(shl(word(1), n), minusOne) = 0..(n - 1)
<1>1. shl(word(1), n) = {n} /\ minusOne = Bit /\ n \in Bit
  BY Words, ConstantsAreRight DEF shl, Bit
<1>2. carries({n}, Bit) = (n + 1)..31
  <2>1. ASSUME NEW k \in Bit PROVE (n + 1)..(k - 1) \subseteq {n} \cup Bit
    BY DEF Bit
  <2>2. carries({n}, Bit) = {k \in Bit : n < k}
    BY <1>1, <2>1 DEF carries
  <2>3. \A k \in Int : k \in Bit /\ n < k <=> k \in (n + 1)..31
    BY DEF Bit
  <2>4. Bit \subseteq Int /\ (n + 1)..31 \subseteq Int
    BY DEF Bit
  <2> QED
    BY <2>2, <2>3, <2>4
<1>3. xor({n}, Bit) = Bit \ {n}
  BY <1>1 DEF xor
<1>4. xor(Bit \ {n}, (n + 1)..31) = 0..(n - 1)
  BY DEF xor, Bit
<1> QED
  BY <1>1, <1>2, <1>3, <1>4 DEF add

LEMMA QuotientOfPositive ==
  ASSUME NEW v \in SUBSET Bit, NEW n \in 0..30, 31 \notin v
  PROVE  dividePower2(v, n) = test_dividePower2(v, n)
<1>1. shr(v, 31) = {}
  BY DEF shr, Bit
<1>2. dividePower2(v, n) = shr(v, n)
  BY <1>1, AddNothing DEF dividePower2
<1>3. shr(v, n) = {k \in Bit : k + n \in v}
  BY DEF shr, Bit
<1> QED
  BY <1>2, <1>3 DEF test_dividePower2

\* The negative of a word without low bits, shifted, is that of the word shifted.
LEMMA NoLowBits ==
  ASSUME NEW v \in SUBSET Bit, NEW n \in 0..30, \A j \in v : j >= n,
         NEW q \in SUBSET Bit, \A h \in Bit : h \in q <=> h + n \in test_negate(v),
         NEW k \in Bit
  PROVE  /\ (\A j \in 0..(k - 1) : j \notin q) <=> \A j \in 0..(k - 1) : j + n \notin v
         /\ k \in q <=> k + n <= 31 /\ (k + n \in v <=> \A j \in 0..(k - 1) : j + n \notin v)
<1>1. ASSUME NEW h \in Bit
      PROVE  h \in q <=> h + n <= 31 /\ (h + n \in v <=> \A j \in 0..(h - 1) : j + n \notin v)
  <2>1. h \in Int /\ n \in Int /\ h >= 0 /\ n >= 0 /\ (h + n \in Bit <=> h + n <= 31)
    BY DEF Bit
  <2>2. h \in q <=> h + n <= 31 /\ (h + n \in v <=> \A j \in 0..(h + n - 1) : j \notin v)
    BY <2>1 DEF test_negate
  <2>3. (\A j \in 0..(h + n - 1) : j \notin v) <=> \A j \in 0..(h - 1) : j + n \notin v
    <3>1. ASSUME NEW j \in 0..(h - 1) PROVE j + n \in 0..(h + n - 1)
      BY <2>1
    <3>2. ASSUME NEW j \in 0..(h + n - 1), j \in v PROVE j - n \in 0..(h - 1) /\ j - n + n = j
      BY <2>1, <3>2
    <3> QED
      BY <3>1, <3>2
  <2> QED
    BY <2>2, <2>3
<1>2. ASSUME NEW h \in 0..(k - 1), h + n \in v PROVE \E j \in 0..(k - 1) : j \in q
  <2> DEFINE T == {j \in 0..(k - 1) : j + n \in v}
  <2>1. T \in SUBSET Nat /\ T # {}
    BY <1>2
  <2>2. PICK m \in T : \A j \in T : m <= j
    BY <2>1, Least
  <2>3. m \in Bit /\ m + n \in v /\ m + n <= 31 /\ m \in 0..(k - 1)
    BY <2>2 DEF Bit
  <2>4. ASSUME NEW j \in 0..(m - 1) PROVE j + n \notin v
    <3>1. j \in 0..(k - 1) /\ ~(m <= j)
      BY <2>3 DEF Bit
    <3> QED
      BY <2>2, <3>1
  <2> QED
    BY <1>1, <2>3, <2>4
<1>3. ASSUME NEW h \in 0..(k - 1), h \in q PROVE \E j \in 0..(k - 1) : j + n \in v
  <2>1. h \in Bit /\ 0..(h - 1) \subseteq 0..(k - 1)
    BY <1>3 DEF Bit
  <2> QED
    BY <1>1, <1>3, <2>1
<1> QED
  BY <1>1, <1>2, <1>3

LEMMA QuotientOfNegative ==
  ASSUME NEW v \in SUBSET Bit, NEW n \in 0..30, 31 \in v
  PROVE  dividePower2(v, n) = test_dividePower2(v, n)
<1>1. shr(v, 31) = Bit
  BY DEF shr, Bit
<1>2. PICK s : s = add(v, 0..(n - 1))
  OBVIOUS
<1>3. dividePower2(v, n) = shr(s, n)
  <2>1. Bit \cap 0..(n - 1) = 0..(n - 1)
    BY DEF Bit
  <2> QED
    BY <1>1, <1>2, <2>1, Mask DEF dividePower2
<1>4. PICK q : q = {k \in Bit : k + n \in test_negate(v)}
  OBVIOUS
<1>5. test_dividePower2(v, n) = {k \in Bit : k \in q <=> \A j \in 0..(k - 1) : j \notin q}
  BY <1>4 DEF test_dividePower2, test_negate
<1>6. shr(s, n) = {k \in Bit : IF k + n <= 31 THEN k + n \in s ELSE 31 \in s}
  BY DEF shr
<1> SUFFICES ASSUME NEW k \in Bit
             PROVE  (IF k + n <= 31 THEN k + n \in s ELSE 31 \in s)
                      <=> (k \in q <=> \A j \in 0..(k - 1) : j \notin q)
  BY <1>3, <1>5, <1>6
<1>7. k \in Int /\ k >= 0 /\ k <= 31 /\ n \in Int /\ n >= 0 /\ n <= 30
  BY DEF Bit
<1>8. CASE \E j \in v : j < n
  <2>1. ASSUME NEW h \in n..31 PROVE h \in s <=> (h \in v <=> ~(n..(h - 1) \subseteq v))
    BY <1>2, <1>8, AddMask
  <2>2. ASSUME NEW h \in Bit PROVE h \in q <=> h + n <= 31 /\ h + n \notin v
    <3>1. PICK j \in v : j < n
      BY <1>8
    <3>2. j \in 0..(h + n - 1) /\ (h + n \in Bit <=> h + n <= 31)
      BY <3>1 DEF Bit
    <3> QED
      BY <1>4, <3>1, <3>2 DEF test_negate
  <2>3. (\A j \in 0..(k - 1) : j \notin q) <=> \A j \in 0..(k - 1) : j + n <= 31 => j + n \in v
    <3>1. 0..(k - 1) \subseteq Bit
      BY DEF Bit
    <3> QED
      BY <2>2, <3>1
  <2>4. CASE k + n <= 31
    <3>1. (\A j \in 0..(k - 1) : j + n <= 31 => j + n \in v) <=> n..(k + n - 1) \subseteq v
      <4>1. ASSUME NEW j \in 0..(k - 1) PROVE j + n \in n..(k + n - 1) /\ j + n <= 31
        BY <1>7, <2>4
      <4>2. ASSUME NEW j \in n..(k + n - 1) PROVE j - n \in 0..(k - 1) /\ j - n + n = j
        BY <1>7
      <4> QED
        BY <4>1, <4>2
    <3>2. k + n \in n..31
      BY <1>7, <2>4
    <3>3. k + n \in s <=> (k + n \in v <=> ~(n..(k + n - 1) \subseteq v))
      BY <1>7, <2>1, <3>2
    <3>4. k \in q <=> k + n \notin v
      BY <2>2, <2>4
    <3>5. (\A j \in 0..(k - 1) : j \notin q) <=> n..(k + n - 1) \subseteq v
      BY <2>3, <3>1
    <3> QED
      BY <2>4, <3>3, <3>4, <3>5
  <2>5. CASE k + n > 31
    <3>1. (\A j \in 0..(k - 1) : j + n <= 31 => j + n \in v) <=> n..31 \subseteq v
      <4>1. ASSUME NEW j \in 0..(k - 1), j + n <= 31 PROVE j + n \in n..31
        BY <1>7, <4>1
      <4>2. ASSUME NEW j \in n..31 PROVE j - n \in 0..(k - 1) /\ j - n + n = j
        BY <1>7, <2>5
      <4> QED
        BY <4>1, <4>2
    <3>2. n..31 \subseteq v <=> n..(31 - 1) \subseteq v
      BY <1>7
    <3>3. 31 \in n..31 /\ ~(k + n <= 31)
      BY <1>7, <2>5
    <3> QED
      BY <2>1, <2>2, <2>3, <3>1, <3>2, <3>3
  <2> QED
    BY <1>7, <2>4, <2>5
<1>9. CASE \A j \in v : j >= n
  <2>1. ~\E j \in v : j < n
    BY <1>7, <1>9 DEF Bit
  <2>2. ASSUME NEW h \in n..31 PROVE h \in s <=> h \in v
    BY <1>2, <2>1, AddMask
  <2>3. /\ (\A j \in 0..(k - 1) : j \notin q) <=> \A j \in 0..(k - 1) : j + n \notin v
        /\ k \in q <=> k + n <= 31 /\ (k + n \in v <=> \A j \in 0..(k - 1) : j + n \notin v)
    <3>1. q \in SUBSET Bit /\ \A h \in Bit : h \in q <=> h + n \in test_negate(v)
      BY <1>4
    <3> QED
      BY <1>9, <3>1, NoLowBits
  <2>4. CASE k + n <= 31
    <3>1. k + n \in n..31
      BY <1>7, <2>4
    <3> QED
      BY <2>2, <2>3, <2>4, <3>1
  <2>5. CASE k + n > 31
    <3>1. 31 - n \in 0..(k - 1) /\ 31 - n + n = 31 /\ 31 \in n..31 /\ ~(k + n <= 31)
      BY <1>7, <2>5
    <3> QED
      BY <2>2, <2>3, <3>1
  <2> QED
    BY <1>7, <2>4, <2>5
<1>10. (\E j \in v : j < n) \/ \A j \in v : j >= n
  BY <1>7 DEF Bit
<1> QED
  BY <1>8, <1>9, <1>10

LEMMA DividePower2IsRight ==
  ASSUME NEW v \in SUBSET Bit, NEW n \in 0..30
  PROVE  dividePower2(v, n) = test_dividePower2(v, n)
BY QuotientOfPositive, QuotientOfNegative

\* A puzzle of bits.c that is finished computes, on every word and for every number
\* of bits it may be given, what its test function in tests.c does.
THEOREM FinishedPuzzlesAreRight ==
  /\ tmax = TMax /\ tmin = TMin /\ minusOne = Bit
  /\ thirdBits = test_thirdBits /\ specialBits = test_specialBits
  /\ \A v \in SUBSET Bit :
       /\ isTmax(v) = truth(v = TMax) /\ isTmin(v) = truth(v = TMin) /\ isZero(v) = truth(v = {})
       /\ fitsShort(v) = truth(InRange(v, 16))
       /\ negate(v) = test_negate(v)
       /\ \A n \in 0..30 : dividePower2(v, n) = test_dividePower2(v, n)
BY ConstantsAreRight, IsTmaxIsRight, IsTminIsRight, FitsShortIsRight, NegateIsRight,
   DividePower2IsRight DEF isZero

-----------------------------------------------------------------------------
(* btest.c on the puzzles of bits.c                                          *)

\* The functions of which the solution is unfinished.
Unfinished == {10, 13, 14, 15}

LEMMA Table ==
  /\ DOMAIN test_set = 1..15 /\ Len(test_set) = 15
  /\ test_set[1] = test_rec("isTmax", 1, <<Full>>) /\ test_set[2] = test_rec("isTmin", 1, <<Full>>)
  /\ test_set[3] = test_rec("isZero", 1, <<Full>>) /\ test_set[4] = test_rec("tmax", 1, <<>>)
  /\ test_set[5] = test_rec("tmin", 1, <<>>) /\ test_set[6] = test_rec("minusOne", 1, <<>>)
  /\ test_set[7] = test_rec("fitsShort", 1, <<Full>>) /\ test_set[8] = test_rec("thirdBits", 1, <<>>)
  /\ test_set[9] = test_rec("specialBits", 1, <<>>)
  /\ test_set[10] = test_rec("upperBits", 1, <<Short(0, 32)>>)
  /\ test_set[11] = test_rec("negate", 2, <<Full>>)
  /\ test_set[12] = test_rec("dividePower2", 2, <<Full, Short(0, 30)>>)
  /\ test_set[13] = test_rec("fitsBits", 2, <<Full, Short(1, 32)>>)
  /\ test_set[14] = test_rec("floatAbsVal", 2, <<Float>>)
  /\ test_set[15] = test_rec("floatNegate", 2, <<Float>>)
BY DEF test_set

\* What the table says of the k-th function.
NameOf(k) == test_set[k].name
RangesOf(k) == test_set[k].ranges

LEMMA Names ==
  /\ NameOf(1) = "isTmax" /\ NameOf(2) = "isTmin" /\ NameOf(3) = "isZero" /\ NameOf(4) = "tmax"
  /\ NameOf(5) = "tmin" /\ NameOf(6) = "minusOne" /\ NameOf(7) = "fitsShort"
  /\ NameOf(8) = "thirdBits" /\ NameOf(9) = "specialBits" /\ NameOf(10) = "upperBits"
  /\ NameOf(11) = "negate" /\ NameOf(12) = "dividePower2" /\ NameOf(13) = "fitsBits"
  /\ NameOf(14) = "floatAbsVal" /\ NameOf(15) = "floatNegate"
BY Table DEF NameOf, test_rec

LEMMA RangesAre ==
  /\ \A k \in {4, 5, 6, 8, 9} : RangesOf(k) = <<>>
  /\ \A k \in {1, 2, 3, 7, 11} : RangesOf(k) = <<Full>>
  /\ RangesOf(10) = <<Short(0, 32)>>
  /\ RangesOf(12) = <<Full, Short(0, 30)>> /\ RangesOf(13) = <<Full, Short(1, 32)>>
  /\ RangesOf(14) = <<Float>> /\ RangesOf(15) = <<Float>>
<1>1. /\ \A k \in {4, 5, 6} : RangesOf(k) = <<>>
      /\ \A k \in {8, 9} : RangesOf(k) = <<>>
  BY Table DEF RangesOf, test_rec
<1>2. /\ \A k \in {1, 2, 3} : RangesOf(k) = <<Full>>
      /\ \A k \in {7, 11} : RangesOf(k) = <<Full>>
  BY Table DEF RangesOf, test_rec
<1>3. /\ RangesOf(10) = <<Short(0, 32)>>
      /\ RangesOf(12) = <<Full, Short(0, 30)>> /\ RangesOf(13) = <<Full, Short(1, 32)>>
      /\ RangesOf(14) = <<Float>> /\ RangesOf(15) = <<Float>>
  BY Table DEF RangesOf, test_rec
<1> QED
  BY <1>1, <1>2, <1>3

LEMMA Rated == \A k \in 1..15 : test_set[k].rating \in Nat
BY Table DEF test_rec

LEMMA Nought == word(0) = {}
<1>1. ASSUME NEW k \in 0..30 PROVE ~((0 \div 2^k) % 2 = 1)
  <2>1. 2^0 = 1
    OBVIOUS
  <2>2. 2^0 <= 2^k /\ 2^k \in Nat
    <3>1. \A m \in Nat : m <= k => 2^m <= 2^k /\ 2^k \in Nat
      BY PowersGrow
    <3>2. 0 \in Nat /\ 0 <= k
      OBVIOUS
    <3> QED
      BY <3>1, <3>2, Zenon
  <2>3. PICK p \in Nat : p = 2^k /\ 1 <= p
    BY <2>1, <2>2
  <2>4. 0 \div p = 0
    BY <2>3
  <2> QED
    BY <2>3, <2>4
<1> QED
  BY <1>1, Zenon DEF word

\* What a range holds.
Values(range) == IF range.kind = "short" THEN range.min..range.max ELSE SUBSET Bit

LEMMA ValuesOf ==
  /\ Values(Full) = SUBSET Bit /\ Values(Float) = SUBSET Bit
  /\ Values(Short(0, 32)) = 0..32 /\ Values(Short(0, 30)) = 0..30 /\ Values(Short(1, 32)) = 1..32
BY DEF Values, Full, Float, Short

Fit(a, ranges) == \A arg \in 1..Len(ranges) : a[arg] \in Values(ranges[arg])

\* A puzzle that is finished is right on every argument.
LEMMA FinishedAgree ==
  ASSUME NEW k \in 1..15, k \notin Unfinished, NEW a, Fit(a, RangesOf(k))
  PROVE  Agree(NameOf(k), a)
<1>1. RangesOf(k) = <<Full>> => a[1] \in SUBSET Bit
  BY ValuesOf DEF Fit
<1>2. RangesOf(k) = <<Full, Short(0, 30)>> => a[1] \in SUBSET Bit /\ a[2] \in 0..30
  <2>1. RangesOf(k) = <<Full, Short(0, 30)>>
          => a[1] \in Values(Full) /\ a[2] \in Values(Short(0, 30))
    BY DEF Fit
  <2>2. Values(Full) = SUBSET Bit /\ Values(Short(0, 30)) = 0..30
    BY ValuesOf
  <2> QED
    BY <2>1, <2>2
<1>3. CASE k = 1
  BY <1>1, <1>3, Names, RangesAre, IsTmaxIsRight DEF Agree
<1>4. CASE k = 2
  BY <1>1, <1>4, Names, RangesAre, IsTminIsRight DEF Agree
<1>5. CASE k = 3
  BY <1>5, Names DEF Agree, isZero
<1>6. CASE k = 4
  BY <1>6, Names, ConstantsAreRight DEF Agree
<1>7. CASE k = 5
  BY <1>7, Names, ConstantsAreRight DEF Agree
<1>8. CASE k = 6
  BY <1>8, Names, ConstantsAreRight DEF Agree
<1>9. CASE k = 7
  BY <1>1, <1>9, Names, RangesAre, FitsShortIsRight DEF Agree
<1>10. CASE k = 8
  BY <1>10, Names, ConstantsAreRight DEF Agree
<1>11. CASE k = 9
  BY <1>11, Names, ConstantsAreRight DEF Agree
<1>12. CASE k = 11
  BY <1>1, <1>12, Names, RangesAre, NegateIsRight DEF Agree
<1>13. CASE k = 12
  BY <1>2, <1>13, Names, RangesAre, DividePower2IsRight DEF Agree
<1> QED
  BY <1>3, <1>4, <1>5, <1>6, <1>7, <1>8, <1>9, <1>10, <1>11, <1>12, <1>13 DEF Unfinished

\* The value that btest takes first of a range.
First(range) ==
  IF range.kind = "short" THEN range.min ELSE IF range.kind = "full" THEN TMin ELSE {}

LEMMA Firsts ==
  /\ First(Full) = TMin /\ First(Float) = {}
  /\ First(Short(0, 32)) = 0 /\ First(Short(0, 30)) = 0 /\ First(Short(1, 32)) = 1
BY DEF First, Full, Float, Short

\* A puzzle that is not finished is wrong on the first arguments.
LEMMA UnfinishedDiffer ==
  ASSUME NEW k \in Unfinished, NEW a,
         \A arg \in 1..Len(RangesOf(k)) : a[arg] = First(RangesOf(k)[arg])
  PROVE  ~Agree(NameOf(k), a)
<1>1. CASE k = 10
  <2>1. a[1] = 0
    <3>1. RangesOf(k) = <<Short(0, 32)>>
      BY <1>1, RangesAre
    <3>2. a[1] = First(Short(0, 32))
      BY <3>1
    <3> QED
      BY <3>2, Firsts
  <2>2. upperBits(0) = {1} /\ test_upperBits(0) = {}
    BY Words DEF upperBits, test_upperBits
  <2> QED
    BY <1>1, <2>1, <2>2, Names DEF Agree
<1>2. CASE k = 13
  <2>1. a[1] = {31} /\ a[2] = 1
    <3>1. RangesOf(k) = <<Full, Short(1, 32)>>
      BY <1>2, RangesAre
    <3>2. a[1] = First(Full) /\ a[2] = First(Short(1, 32))
      BY <3>1
    <3> QED
      BY <3>2, Firsts DEF TMin
  <2>2. 0 \in word(31)
    BY DEF word
  <2>3. 0 \in fitsBits({31}, 1)
    BY <2>2 DEF fitsBits
  <2>4. ~InRange({31}, 1)
    <3>1. 0 \in (1 - 1)..31
      OBVIOUS
    <3> QED
      BY <3>1 DEF InRange
  <2> QED
    BY <1>2, <2>1, <2>3, <2>4, Names DEF Agree, truth
<1>3. CASE k = 14
  <2>1. a[1] = {}
    <3>1. RangesOf(k) = <<Float>>
      BY <1>3, RangesAre
    <3>2. a[1] = First(Float)
      BY <3>1
    <3> QED
      BY <3>2, Firsts
  <2>2. test_floatAbsVal({}) = {}
    BY DEF test_floatAbsVal, isnan
  <2>3. NameOf(k) = "floatAbsVal"
    BY <1>3, Names
  <2>4. floatAbsVal({}) # test_floatAbsVal({})
    <3>1. word(2) = {1}
      BY Words
    <3> QED
      BY <2>2, <3>1 DEF floatAbsVal
  <2> QED
    BY <2>1, <2>3, <2>4 DEF Agree
<1>4. CASE k = 15
  <2>1. a[1] = {}
    <3>1. RangesOf(k) = <<Float>>
      BY <1>4, RangesAre
    <3>2. a[1] = First(Float)
      BY <3>1
    <3> QED
      BY <3>2, Firsts
  <2>2. test_floatNegate({}) = {31}
    BY DEF test_floatNegate, isnan, xor
  <2>3. NameOf(k) = "floatNegate"
    BY <1>4, Names
  <2>4. floatNegate({}) # test_floatNegate({})
    <3>1. word(2) = {1}
      BY Words
    <3> QED
      BY <2>2, <3>1 DEF floatNegate
  <2> QED
    BY <2>1, <2>3, <2>4 DEF Agree
<1> QED
  BY <1>1, <1>2, <1>3, <1>4 DEF Unfinished

LEMMA SampleWords == Sample \subseteq SUBSET Bit /\ {} \in Sample /\ {31} \in Sample
<1>1. ASSUME NEW n \in 0..9 PROVE word(n) \in SUBSET Bit
  BY DEF word, Bit
<1>2. ASSUME NEW n \in 1..9 PROVE Negated(word(n)) \in SUBSET Bit
  BY DEF Negated, add, xor, not, carries, word, Bit
<1>3. ASSUME NEW k \in Bit PROVE k..31 \in SUBSET Bit /\ 0..k \in SUBSET Bit /\ {k} \in SUBSET Bit
  BY DEF Bit
<1>4. {31} \in Sample
  BY DEF Sample, Bit
<1>5. {} \in Sample
  <2>1. word(0) \in Sample
    BY DEF Sample
  <2> QED
    BY <2>1, Nought
<1>6. ASSUME NEW v \in Sample PROVE v \in SUBSET Bit
  <2>1. \/ \E n \in 0..9 : v = word(n)
        \/ \E n \in 1..9 : v = Negated(word(n))
        \/ \E k \in Bit : v = k..31 \/ v = 0..k \/ v = {k}
    BY <1>6 DEF Sample
  <2> QED
    BY <1>1, <1>2, <1>3, <2>1
<1> QED
  BY <1>4, <1>5, <1>6

\* The sample of a range is of its values and has the first one.
Fine(range) == AllOf(range) \subseteq Values(range) /\ First(range) \in AllOf(range)

LEMMA RangesFine ==
  ASSUME NEW k \in 1..15
  PROVE  /\ Len(RangesOf(k)) \in 0..2
         /\ Len(RangesOf(k)) \in 1..2 => Fine(RangesOf(k)[1])
         /\ Len(RangesOf(k)) = 2 => Fine(RangesOf(k)[2])
<1>1. /\ AllOf(Full) = Sample /\ AllOf(Float) = Sample /\ AllOf(Short(0, 32)) = 0..32
      /\ AllOf(Short(0, 30)) = 0..30 /\ AllOf(Short(1, 32)) = 1..32
  BY DEF AllOf, Full, Float, Short
<1>2. /\ Values(Full) = SUBSET Bit /\ Values(Float) = SUBSET Bit /\ Values(Short(0, 32)) = 0..32
      /\ Values(Short(0, 30)) = 0..30 /\ Values(Short(1, 32)) = 1..32
  BY ValuesOf
<1>3. /\ First(Full) = {31} /\ First(Float) = {} /\ First(Short(0, 32)) = 0
      /\ First(Short(0, 30)) = 0 /\ First(Short(1, 32)) = 1
  BY Firsts DEF TMin
<1>4. /\ Fine(Full) /\ Fine(Float) /\ Fine(Short(0, 32)) /\ Fine(Short(0, 30))
      /\ Fine(Short(1, 32))
  BY <1>1, <1>2, <1>3, SampleWords DEF Fine
<1>5. \/ RangesOf(k) = <<>>
      \/ RangesOf(k) = <<Full>>
      \/ RangesOf(k) = <<Float>>
      \/ RangesOf(k) = <<Short(0, 32)>>
      \/ RangesOf(k) = <<Full, Short(0, 30)>>
      \/ RangesOf(k) = <<Full, Short(1, 32)>>
  BY RangesAre
<1> QED
  BY <1>4, <1>5

\* The sample tells the finished functions from the others.
LEMMA RightIs == Right = (1..15) \ Unfinished
<1> DEFINE IsRight(k) ==
      CASE Len(RangesOf(k)) = 0 -> Agree(NameOf(k), <<>>)
        [] Len(RangesOf(k)) = 1 -> \A v \in AllOf(RangesOf(k)[1]) : Agree(NameOf(k), <<v>>)
        [] Len(RangesOf(k)) = 2 -> \A v \in AllOf(RangesOf(k)[1]), w \in AllOf(RangesOf(k)[2]) :
                                      Agree(NameOf(k), <<v, w>>)
<1>1. Right = {k \in 1..15 : IsRight(k)}
  BY Table, Zenon DEF Right, NameOf, RangesOf
<1>2. ASSUME NEW k \in 1..15
      PROVE  /\ Len(RangesOf(k)) \in 0..2
             /\ Len(RangesOf(k)) \in 1..2 => Fine(RangesOf(k)[1])
             /\ Len(RangesOf(k)) = 2 => Fine(RangesOf(k)[2])
  BY RangesFine
<1>3. ASSUME NEW k \in 1..15, k \notin Unfinished PROVE IsRight(k)
  <2>1. Len(RangesOf(k)) = 0 => Fit(<<>>, RangesOf(k))
    BY DEF Fit
  <2>2. ASSUME Len(RangesOf(k)) = 1, NEW v \in AllOf(RangesOf(k)[1])
        PROVE  Fit(<<v>>, RangesOf(k))
    <3>1. v \in Values(RangesOf(k)[1])
      <4>1. 1 \in 1..2
        OBVIOUS
      <4>2. Fine(RangesOf(k)[1])
        BY <1>2, <2>2, <4>1, Zenon
      <4> QED
        BY <2>2, <4>2 DEF Fine
    <3> QED
      BY <2>2, <3>1 DEF Fit
  <2>3. ASSUME Len(RangesOf(k)) = 2, NEW v \in AllOf(RangesOf(k)[1]), NEW w \in AllOf(RangesOf(k)[2])
        PROVE  Fit(<<v, w>>, RangesOf(k))
    <3>1. v \in Values(RangesOf(k)[1]) /\ w \in Values(RangesOf(k)[2])
      <4>1. 2 \in 1..2
        OBVIOUS
      <4>2. Fine(RangesOf(k)[1]) /\ Fine(RangesOf(k)[2])
        BY <1>2, <2>3, <4>1, Zenon
      <4> QED
        BY <2>3, <4>2 DEF Fine
    <3> QED
      BY <2>3, <3>1 DEF Fit
  <2>4. \A a : Fit(a, RangesOf(k)) => Agree(NameOf(k), a)
    BY <1>3, FinishedAgree
  <2> QED
    <3>1. Len(RangesOf(k)) = 0 => IsRight(k)
      BY <2>1, <2>4
    <3>2. Len(RangesOf(k)) = 1 => IsRight(k)
      BY <2>2, <2>4
    <3>3. Len(RangesOf(k)) = 2 => IsRight(k)
      BY <2>3, <2>4
    <3>4. Len(RangesOf(k)) \in 0..2
      BY <1>2
    <3> HIDE DEF IsRight
    <3> QED
      BY <3>1, <3>2, <3>3, <3>4
<1>4. ASSUME NEW k \in Unfinished PROVE ~IsRight(k)
  <2>1. k \in 1..15 /\ Len(RangesOf(k)) \in 1..2
    BY RangesAre DEF Unfinished
  <2>2. \A a : (\A arg \in 1..Len(RangesOf(k)) : a[arg] = First(RangesOf(k)[arg]))
                 => ~Agree(NameOf(k), a)
    BY UnfinishedDiffer
  <2>3. CASE Len(RangesOf(k)) = 1
    <3>1. PICK v : v = First(RangesOf(k)[1])
      OBVIOUS
    <3>2. v \in AllOf(RangesOf(k)[1])
      BY <1>2, <2>1, <2>3, <3>1 DEF Fine
    <3>3. ~Agree(NameOf(k), <<v>>)
      BY <2>2, <2>3, <3>1
    <3> QED
      BY <2>3, <3>2, <3>3
  <2>4. CASE Len(RangesOf(k)) = 2
    <3>1. PICK v, w : v = First(RangesOf(k)[1]) /\ w = First(RangesOf(k)[2])
      OBVIOUS
    <3>2. v \in AllOf(RangesOf(k)[1]) /\ w \in AllOf(RangesOf(k)[2])
      BY <1>2, <2>1, <2>4, <3>1 DEF Fine
    <3>3. ~Agree(NameOf(k), <<v, w>>)
      BY <2>2, <2>4, <3>1
    <3> QED
      BY <2>4, <3>2, <3>3
  <2> HIDE DEF IsRight
  <2> QED
    BY <2>1, <2>3, <2>4
<1>5. Unfinished \subseteq 1..15
  BY DEF Unfinished
<1> HIDE DEF IsRight
<1> QED
  BY <1>1, <1>3, <1>4, <1>5

LEMMA Induction ==
  ASSUME NEW S, 0 \in S, \A n \in Nat : n \in S => n + 1 \in S
  PROVE  \A n \in Nat : n \in S
<1> DEFINE T == Nat \ S
<1> SUFFICES ASSUME T # {} PROVE FALSE
  OBVIOUS
<1>1. PICK m \in T : \A j \in T : m <= j
  BY Least
<1>2. m # 0 /\ m \in Nat /\ m - 1 \in Nat /\ m - 1 < m /\ m - 1 + 1 = m
  OBVIOUS
<1>3. m - 1 \in T
  BY <1>2
<1> QED
  BY <1>1, <1>2, <1>3

\* w holds what the first k sequences of s make when put together, for k up to n.
Flattens(w, s, n) ==
  w = [k \in 1..n |-> IF k = 1 THEN s[k] ELSE w[k - 1] \o s[k]]

LEMMA FlattensExists == ASSUME NEW s PROVE \A n \in Nat : \E w : Flattens(w, s, n)
<1> DEFINE G == {n \in Nat : \E w : Flattens(w, s, n)}
<1>1. 0 \in G
  <2>1. PICK w : w = [k \in 1..0 |-> s[k]]
    OBVIOUS
  <2>2. Flattens(w, s, 0)
    BY <2>1 DEF Flattens
  <2> QED
    BY <2>2
<1>2. ASSUME NEW n \in Nat, n \in G PROVE n + 1 \in G
  <2>1. PICK w : Flattens(w, s, n)
    BY <1>2
  <2>2. PICK u : u = [k \in 1..(n + 1) |->
                        IF k = n + 1 THEN IF k = 1 THEN s[k] ELSE w[n] \o s[k] ELSE w[k]]
    OBVIOUS
  <2>3. ASSUME NEW k \in 1..(n + 1) PROVE u[k] = IF k = 1 THEN s[k] ELSE u[k - 1] \o s[k]
    <3>1. CASE k = n + 1
      <4>1. k # 1 => k - 1 = n /\ n \in 1..(n + 1) /\ n # n + 1
        BY <3>1
      <4> QED
        BY <2>2, <3>1, <4>1
    <3>2. CASE k # n + 1
      <4>1. k \in 1..n /\ (k # 1 => k - 1 \in 1..(n + 1) /\ k - 1 # n + 1 /\ k - 1 \in 1..n)
        BY <3>2
      <4>2. w[k] = IF k = 1 THEN s[k] ELSE w[k - 1] \o s[k]
        BY <2>1, <4>1 DEF Flattens
      <4> QED
        BY <2>2, <3>2, <4>1, <4>2
    <3> QED
      BY <3>1, <3>2
  <2>4. u = [k \in 1..(n + 1) |-> u[k]]
    BY <2>2
  <2>5. Flattens(u, s, n + 1)
    BY <2>3, <2>4 DEF Flattens
  <2> QED
    BY <2>5
<1> HIDE DEF G
<1>3. \A n \in Nat : n \in G
  BY <1>1, <1>2, Induction
<1> QED
  BY <1>3 DEF G

LEMMA Rounds ==
  ASSUME NEW c \in Nat \ {0}, NEW k \in Nat
  PROVE  c * k \in Nat /\ c * (k + 1) = c * k + c /\ (k # 0 => c * k > 0)
<1>1. k # 0 => (c - 1) * (k - 1) >= 0
  OBVIOUS
<1>2. (c - 1) * (k - 1) = c * k - c - k + 1
  OBVIOUS
<1> QED
  BY <1>1, <1>2

Word == SUBSET Bit

LEMMA Together ==
  ASSUME NEW u \in Seq(Word), NEW r \in Seq(Word), Len(u) > 0
  PROVE  u \o r \in Seq(Word) /\ Len(u \o r) = Len(u) + Len(r) /\ (u \o r)[1] = u[1]
<1>1. 1 \in 1..Len(u)
  OBVIOUS
<1> QED
  BY <1>1

\* Of sequences of c words.
LEMMA Flattened ==
  ASSUME NEW c \in Nat \ {0}, NEW n \in Nat \ {0},
         NEW s \in Seq(Seq(Word)), Len(s) = n, \A k \in 1..n : Len(s[k]) = c
  PROVE  /\ FlattenSeq(s) \in Seq(Word) /\ Len(FlattenSeq(s)) = c * n
         /\ FlattenSeq(s)[1] = s[1][1]
<1>1. Len(s) # 0 /\ \A k \in 1..n : s[k] \in Seq(Word)
  OBVIOUS
<1>2. PICK w : w = CHOOSE u : Flattens(u, s, n)
  OBVIOUS
<1>3. Flattens(w, s, n)
  BY <1>2, FlattensExists
<1>4. FlattenSeq(s) = w[n]
  BY <1>1, <1>2 DEF FlattenSeq, Flattens
<1> DEFINE Is(u, k) == u \in Seq(Word) /\ Len(u) = c * k /\ u[1] = s[1][1]
<1> DEFINE G == {k \in Nat : k \in 1..n => Is(w[k], k)}
<1>5. 0 \in G
  OBVIOUS
<1>6. ASSUME NEW k \in Nat, k \in G PROVE k + 1 \in G
  <2> SUFFICES ASSUME k + 1 \in 1..n PROVE Is(w[k + 1], k + 1)
    OBVIOUS
  <2>1. w[k + 1] = IF k + 1 = 1 THEN s[k + 1] ELSE w[k + 1 - 1] \o s[k + 1]
    <3>1. \A j \in 1..n : w[j] = IF j = 1 THEN s[j] ELSE w[j - 1] \o s[j]
      BY <1>3 DEF Flattens
    <3>2. PICK j \in 1..n : j = k + 1
      OBVIOUS
    <3>3. w[j] = IF j = 1 THEN s[j] ELSE w[j - 1] \o s[j]
      BY <3>1
    <3> QED
      BY <3>2, <3>3
  <2>2. s[k + 1] \in Seq(Word) /\ Len(s[k + 1]) = c
    BY <1>1
  <2>3. CASE k = 0
    BY <2>1, <2>2, <2>3
  <2>4. CASE k # 0
    <3>1. k \in 1..n /\ k + 1 - 1 = k /\ k + 1 # 1
      BY <2>4
    <3>2. Is(w[k], k)
      BY <1>6, <3>1
    <3>3. w[k + 1] = w[k] \o s[k + 1]
      BY <2>1, <3>1
    <3>4. c * k \in Nat /\ c * k > 0 /\ c * (k + 1) = c * k + c
      BY <2>4, Rounds
    <3>5. PICK u \in Seq(Word) : u = w[k] /\ Len(u) = c * k /\ u[1] = s[1][1]
      BY <3>2
    <3>6. Len(u) > 0 /\ Len(u) + c = c * (k + 1)
      BY <3>4, <3>5
    <3>7. u \o s[k + 1] \in Seq(Word) /\ Len(u \o s[k + 1]) = Len(u) + c /\ (u \o s[k + 1])[1] = u[1]
      BY <2>2, <3>6, Together
    <3> QED
      BY <3>3, <3>5, <3>6, <3>7
  <2> QED
    BY <2>3, <2>4
<1> HIDE DEF G
<1>7. \A k \in Nat : k \in G
  BY <1>5, <1>6, Induction
<1>8. n \in G /\ n \in 1..n
  BY <1>7
<1>9. Is(w[n], n)
  BY <1>8 DEF G
<1> QED
  BY <1>4, <1>9

\* As many rounds of values as the square root of TEST_RANGE, or TEST_RANGE itself.
LEMMA RangeIsRoot ==
  ASSUME NEW args \in 0..2
  PROVE  arg_test_range(args) \in 1..TEST_RANGE
<1>1. TEST_RANGE \in Nat /\ TEST_RANGE >= 4
  BY RangeAssumption
<1> DEFINE Root(n) == n * n <= TEST_RANGE /\ TEST_RANGE < (n + 1) * (n + 1)
<1>2. \E n \in 0..TEST_RANGE : Root(n)
  <2> DEFINE T == {n \in Nat : TEST_RANGE < (n + 1) * (n + 1)}
  <2>1. TEST_RANGE \in T
    BY <1>1
  <2>2. PICK m \in T : \A j \in T : m <= j
    BY <2>1, Least
  <2>3. m \in Nat /\ TEST_RANGE < (m + 1) * (m + 1)
    BY <2>2
  <2>4. m # 0
    BY <1>1, <2>3
  <2>5. m * m <= TEST_RANGE
    <3>1. m - 1 \in Nat /\ m - 1 + 1 = m /\ ~(m <= m - 1)
      BY <2>3, <2>4
    <3>2. m - 1 \notin T
      BY <2>2, <3>1
    <3>3. ~(TEST_RANGE < (m - 1 + 1) * (m - 1 + 1))
      BY <3>1, <3>2
    <3> QED
      BY <1>1, <2>3, <3>1, <3>3
  <2>6. m <= m * m
    BY <2>3, <2>4
  <2>7. m \in 0..TEST_RANGE
    BY <1>1, <2>3, <2>5, <2>6
  <2> QED
    BY <2>3, <2>5, <2>7
<1>3. PICK n : n = CHOOSE m \in 0..TEST_RANGE : Root(m)
  OBVIOUS
<1>4. n \in 0..TEST_RANGE /\ Root(n)
  BY <1>2, <1>3
<1>5. n # 0
  BY <1>1, <1>4
<1>6. args >= 2 => arg_test_range(args) = n
  BY <1>3 DEF arg_test_range
<1>7. args < 2 => arg_test_range(args) = TEST_RANGE
  BY DEF arg_test_range
<1> QED
  BY <1>1, <1>4, <1>5, <1>6, <1>7

\* Every operator on words gives a word.
LEMMA AreWords ==
  /\ \A n : word(n) \in SUBSET Bit
  /\ \A v, w \in SUBSET Bit : add(v, w) \in SUBSET Bit
  /\ \A v : Negated(v) \in SUBSET Bit
  /\ \A n : \A v \in SUBSET Bit : Minus(v, n) \in SUBSET Bit
<1>1. \A n : word(n) \in SUBSET Bit
  BY DEF word, Bit
<1>2. \A v, w : carries(v, w) \in SUBSET Bit
  BY DEF carries
<1>3. \A v, w \in SUBSET Bit : xor(v, w) \in SUBSET Bit
  BY DEF xor
<1>4. \A v, w \in SUBSET Bit : add(v, w) \in SUBSET Bit
  BY <1>2, <1>3 DEF add
<1>5. \A v : not(v) \in SUBSET Bit
  BY DEF not
<1>6. \A v : Negated(v) \in SUBSET Bit
  BY <1>1, <1>4, <1>5 DEF Negated
<1>7. \A n : \A v \in SUBSET Bit : Minus(v, n) \in SUBSET Bit
  BY <1>4, <1>6 DEF Minus
<1> QED
  BY <1>1, <1>4, <1>6, <1>7

LEMMA Signed ==
  ASSUME NEW s \in Seq(Word)
  PROVE  /\ WithSign(s) \in Seq(Word) /\ Len(WithSign(s)) = 2 * Len(s)
         /\ Len(s) > 0 => WithSign(s)[1] = s[1]
<1>1. PICK r : r = [k \in DOMAIN s |-> s[k] \cup {31}]
  OBVIOUS
<1>2. r \in Seq(Word) /\ Len(r) = Len(s)
  <2>1. 31 \in Bit
    BY DEF Bit
  <2>2. DOMAIN s = 1..Len(s) /\ Len(s) \in Nat
    OBVIOUS
  <2>3. \A k \in 1..Len(s) : r[k] \in SUBSET Bit
    BY <1>1, <2>1, <2>2 DEF Word
  <2>4. \A k \in 1..Len(s) : r[k] \in Word
    BY <2>3 DEF Word
  <2> QED
    BY <1>1, <2>2, <2>4
<1>3. WithSign(s) = s \o r
  BY <1>1 DEF WithSign
<1>4. (s \o r)[1] = s[1] \/ Len(s) = 0
  <2>1. Len(s) # 0 => 1 \in 1..Len(s)
    OBVIOUS
  <2> QED
    BY <1>2, <2>1
<1>5. s \o r \in Seq(Word) /\ Len(s \o r) = Len(s) + Len(r) /\ Len(s) \in Nat
  BY <1>2
<1> QED
  BY <1>2, <1>3, <1>4, <1>5

LEMMA FullValsAre ==
  ASSUME NEW n \in Nat \ {0}, NEW random \in [1..n -> Randoms]
  PROVE  /\ FullVals(n, random) \in Seq(Word) /\ Len(FullVals(n, random)) = 5 * n
         /\ FullVals(n, random)[1] = TMin
<1> DEFINE Round(k) == <<add(TMin, word(k - 1)), Minus(TMax, k - 1), word(k - 1),
                         Negated(word(k - 1)), random[k]>>
<1>1. PICK s : s = [k \in 1..n |-> Round(k)]
  OBVIOUS
<1>2. TMin \in SUBSET Bit /\ TMax \in SUBSET Bit
  BY DEF TMin, TMax, Bit
<1>3. ASSUME NEW k \in 1..n PROVE Round(k) \in Seq(Word) /\ Len(Round(k)) = 5
  <2>1. /\ add(TMin, word(k - 1)) \in SUBSET Bit /\ Minus(TMax, k - 1) \in SUBSET Bit
        /\ word(k - 1) \in SUBSET Bit /\ Negated(word(k - 1)) \in SUBSET Bit
    BY <1>2, AreWords
  <2>2. random[k] \in SUBSET Bit
    BY RandomsAssumption
  <2> QED
    BY <2>1, <2>2 DEF Word
<1> HIDE DEF Round
<1>4. s \in Seq(Seq(Word)) /\ Len(s) = n /\ \A k \in 1..n : Len(s[k]) = 5
  BY <1>1, <1>3
<1>5. /\ FlattenSeq(s) \in Seq(Word) /\ Len(FlattenSeq(s)) = 5 * n
      /\ FlattenSeq(s)[1] = s[1][1]
  <2>1. 5 \in Nat \ {0}
    OBVIOUS
  <2> QED
    BY <1>4, <2>1, Flattened
<1>6. s[1][1] = TMin
  <2>1. 1 \in 1..n /\ 1 - 1 = 0
    OBVIOUS
  <2>2. s[1] = Round(1)
    BY <1>1, <2>1
  <2>3. Round(1)[1] = add(TMin, word(1 - 1))
    BY DEF Round
  <2> QED
    BY <1>2, <2>1, <2>2, <2>3, Nought, AddNothing
<1>7. FullVals(n, random) = FlattenSeq(s)
  BY <1>1, Zenon DEF FullVals, Round
<1> QED
  BY <1>5, <1>6, <1>7

LEMMA FloatValsAre ==
  ASSUME NEW n \in Nat \ {0}
  PROVE  /\ FloatVals(n) \in Seq(Word) /\ Len(FloatVals(n)) = 12 * n + 4
         /\ FloatVals(n)[1] = {}
<1> DEFINE Pair(w, k) == WithSign(<<add(w, word(k)), Minus(w, k)>>)
<1> DEFINE Round(k) == WithSign(<<word(k)>>) \o Pair({23}, k) \o Pair(23..29, k)
                         \o WithSign(<<Minus(24..30, k)>>)
<1>1. PICK s : s = [k \in 1..n |-> Round(k - 1)]
  OBVIOUS
<1>2. {23} \in Word /\ 23..29 \in Word /\ 24..30 \in Word
  BY DEF Bit, Word
<1>3. ASSUME NEW w \in Word
       PROVE  WithSign(<<w>>) \in Seq(Word) /\ Len(WithSign(<<w>>)) = 2 /\ WithSign(<<w>>)[1] = w
  <2>0. <<w>> \in Seq(Word) /\ Len(<<w>>) = 1 /\ <<w>>[1] = w
    OBVIOUS
  <2>1. PICK q \in Seq(Word) : q = <<w>> /\ Len(q) = 1 /\ q[1] = w
    BY <2>0, Zenon
  <2>2. /\ WithSign(q) \in Seq(Word) /\ Len(WithSign(q)) = 2 * Len(q)
        /\ Len(q) > 0 => WithSign(q)[1] = q[1]
    BY Signed, Zenon
  <2> QED
    BY <2>1, <2>2
<1>4. ASSUME NEW w \in Word, NEW k
       PROVE  Pair(w, k) \in Seq(Word) /\ Len(Pair(w, k)) = 4
  <2>1. add(w, word(k)) \in Word /\ Minus(w, k) \in Word
    BY AreWords DEF Word
  <2>2. PICK v1, v2 \in Word : v1 = add(w, word(k)) /\ v2 = Minus(w, k)
    BY <2>1, Zenon
  <2>3. <<v1, v2>> \in Seq(Word) /\ Len(<<v1, v2>>) = 2
    OBVIOUS
  <2>4. PICK q \in Seq(Word) : q = <<v1, v2>> /\ Len(q) = 2
    BY <2>3, Zenon
  <2>5. WithSign(q) \in Seq(Word) /\ Len(WithSign(q)) = 2 * Len(q)
    BY Signed, Zenon
  <2>6. Pair(w, k) = WithSign(q)
    BY <2>2, <2>4
  <2> HIDE DEF Pair
  <2> QED
    BY <2>4, <2>5, <2>6
<1> HIDE DEF Pair
<1>5. ASSUME NEW k
      PROVE  Round(k) \in Seq(Word) /\ Len(Round(k)) = 12 /\ Round(k)[1] = word(k)
  <2>1. word(k) \in Word /\ Minus(24..30, k) \in Word
    BY <1>2, AreWords DEF Word
  <2>2. PICK q1 \in Seq(Word) : q1 = WithSign(<<word(k)>>) /\ Len(q1) = 2 /\ q1[1] = word(k)
    BY <2>1, <1>3
  <2>3. PICK q2 \in Seq(Word) : q2 = Pair({23}, k) /\ Len(q2) = 4
    BY <1>2, <1>4
  <2>4. PICK q3 \in Seq(Word) : q3 = Pair(23..29, k) /\ Len(q3) = 4
    BY <1>2, <1>4
  <2>5. PICK q4 \in Seq(Word) : q4 = WithSign(<<Minus(24..30, k)>>) /\ Len(q4) = 2
    BY <2>1, <1>3
  <2>6. Round(k) = q1 \o q2 \o q3 \o q4
    BY <2>2, <2>3, <2>4, <2>5, Zenon
  <2>7. q1 \o q2 \in Seq(Word) /\ Len(q1 \o q2) = Len(q1) + Len(q2) /\ (q1 \o q2)[1] = q1[1]
    BY <2>2, Together
  <2>8. PICK u \in Seq(Word) : u = q1 \o q2 /\ Len(u) = Len(q1) + Len(q2) /\ u[1] = q1[1]
    BY <2>7, Zenon
  <2>9. u \o q3 \in Seq(Word) /\ Len(u \o q3) = Len(u) + Len(q3) /\ (u \o q3)[1] = u[1]
    BY <2>2, <2>3, <2>8, Together
  <2>10. PICK v \in Seq(Word) : v = u \o q3 /\ Len(v) = Len(u) + Len(q3) /\ v[1] = u[1]
    BY <2>9, Zenon
  <2>11. v \o q4 \in Seq(Word) /\ Len(v \o q4) = Len(v) + Len(q4) /\ (v \o q4)[1] = v[1]
    BY <2>2, <2>3, <2>4, <2>8, <2>10, Together
  <2>12. Len(v \o q4) = 12
    <3>1. Len(q1) = 2 /\ Len(q2) = 4 /\ Len(q3) = 4 /\ Len(q4) = 2
      BY <2>2, <2>3, <2>4, <2>5, Zenon
    <3>2. Len(u) = Len(q1) + Len(q2) /\ Len(v) = Len(u) + Len(q3)
      BY <2>8, <2>10, Zenon
    <3>3. Len(v \o q4) = Len(v) + Len(q4)
      BY <2>11, Zenon
    <3>4. PICK l \in Int : l = Len(v) + Len(q4)
      BY <3>1, <3>2
    <3>5. l = 12
      BY <3>1, <3>2, <3>4
    <3> QED
      BY <3>3, <3>4, <3>5, Zenon
  <2>13. (v \o q4)[1] = word(k)
    BY <2>2, <2>8, <2>10, <2>11, Zenon
  <2>14. Round(k) = v \o q4
    BY <2>6, <2>8, <2>10, Zenon
  <2> HIDE DEF Round
  <2> QED
    BY <2>11, <2>12, <2>13, <2>14, Zenon
<1> HIDE DEF Round
<1>6. s \in Seq(Seq(Word)) /\ Len(s) = n /\ \A k \in 1..n : Len(s[k]) = 12
  BY <1>1, <1>5
<1>7. /\ FlattenSeq(s) \in Seq(Word) /\ Len(FlattenSeq(s)) = 12 * n
      /\ FlattenSeq(s)[1] = s[1][1]
  <2>1. 12 \in Nat \ {0}
    OBVIOUS
  <2> QED
    BY <1>6, <2>1, Flattened
<1>8. s[1][1] = {}
  <2>1. 1 \in 1..n /\ 1 - 1 = 0
    OBVIOUS
  <2>2. s[1] = Round(0)
    BY <1>1, <2>1
  <2> QED
    BY <1>5, <2>2, Nought
<1>9. PICK r1, r2 : r1 = WithSign(<<23..30>>) /\ r2 = WithSign(<<22..30>>)
  OBVIOUS
<1>10. r1 \in Seq(Word) /\ Len(r1) = 2 /\ r2 \in Seq(Word) /\ Len(r2) = 2
  <2>1. 23..30 \in Word /\ 22..30 \in Word
    BY DEF Bit, Word
  <2> QED
    BY <1>9, <1>3, <2>1
<1>11. FloatVals(n) = FlattenSeq(s) \o r1 \o r2
  BY <1>1, <1>9, Zenon DEF FloatVals, Round, Pair
<1>12. PICK u \in Seq(Word) : u = FlattenSeq(s) /\ Len(u) = 12 * n /\ u[1] = {}
  BY <1>7, <1>8
<1>13. PICK v \in Seq(Word) : v = u \o r1 /\ Len(v) = 12 * n + 2 /\ v[1] = u[1]
  <2>1. Len(u) > 0
    BY <1>12
  <2>2. u \o r1 \in Seq(Word) /\ Len(u \o r1) = Len(u) + Len(r1) /\ (u \o r1)[1] = u[1]
    BY <1>10, <2>1, Together
  <2> QED
    BY <1>10, <1>12, <2>2
<1>14. v \o r2 \in Seq(Word) /\ Len(v \o r2) = 12 * n + 4 /\ (v \o r2)[1] = v[1]
  <2>1. Len(v) > 0
    BY <1>13
  <2>2. v \o r2 \in Seq(Word) /\ Len(v \o r2) = Len(v) + Len(r2) /\ (v \o r2)[1] = v[1]
    BY <1>10, <2>1, Together
  <2> QED
    BY <1>10, <1>13, <2>2
<1> QED
  BY <1>11, <1>12, <1>13, <1>14

\* The ranges that the table has.
AllRanges == {Full, Float, Short(0, 32), Short(0, 30), Short(1, 32)}

LEMMA RangesIn ==
  ASSUME NEW k \in 1..15
  PROVE  /\ Len(RangesOf(k)) \in 0..2
         /\ \A arg \in 1..Len(RangesOf(k)) : RangesOf(k)[arg] \in AllRanges
<1>1. \/ RangesOf(k) = <<>>
      \/ RangesOf(k) = <<Full>>
      \/ RangesOf(k) = <<Float>>
      \/ RangesOf(k) = <<Short(0, 32)>>
      \/ RangesOf(k) = <<Full, Short(0, 30)>>
      \/ RangesOf(k) = <<Full, Short(1, 32)>>
  BY RangesAre
<1> QED
  BY <1>1 DEF AllRanges

\* The values of an argument fit its range and their array.
Good(s, range) ==
  /\ Len(s) \in 1..MAX_TEST_VALS /\ s[1] = First(range)
  /\ \A k \in 1..Len(s) : s[k] \in Values(range)

LEMMA GenValsAre ==
  ASSUME NEW range \in AllRanges, NEW n \in 1..TEST_RANGE, NEW random \in [1..n -> Randoms]
  PROVE  Good(gen_vals(range, n, random), range)
<1>1. /\ TEST_RANGE \in Nat /\ TEST_RANGE >= 4 /\ n \in Nat \ {0} /\ n <= TEST_RANGE
      /\ MAX_TEST_VALS = 13 * TEST_RANGE
  BY RangeAssumption DEF MAX_TEST_VALS
<1>2. CASE range = Full
  <2>1. gen_vals(range, n, random) = FullVals(n, random)
    BY <1>2 DEF gen_vals, Full
  <2>2. PICK s \in Seq(Word) : s = FullVals(n, random) /\ Len(s) = 5 * n /\ s[1] = TMin
    BY <1>1, FullValsAre
  <2>3. Values(range) = Word /\ First(range) = TMin
    BY <1>2, ValuesOf, Firsts DEF Word
  <2>4. Len(s) \in 1..MAX_TEST_VALS
    BY <1>1, <2>2
  <2> QED
    BY <2>1, <2>2, <2>3, <2>4 DEF Good
<1>3. CASE range = Float
  <2>1. gen_vals(range, n, random) = FloatVals(n)
    BY <1>3 DEF gen_vals, Float
  <2>2. PICK s \in Seq(Word) : s = FloatVals(n) /\ Len(s) = 12 * n + 4 /\ s[1] = {}
    BY <1>1, FloatValsAre
  <2>3. Values(range) = Word /\ First(range) = {}
    BY <1>3, ValuesOf, Firsts DEF Word
  <2>4. Len(s) \in 1..MAX_TEST_VALS
    BY <1>1, <2>2
  <2> QED
    BY <2>1, <2>2, <2>3, <2>4 DEF Good
<1>4. ASSUME NEW min \in 0..1, NEW max \in {30, 32}, range = Short(min, max),
             Values(range) = min..max, First(range) = min
      PROVE  Good(gen_vals(range, n, random), range)
  <2>1. PICK s : s = [k \in 1..(max - min + 1) |-> min + k - 1]
    OBVIOUS
  <2>2. gen_vals(range, n, random) = s
    BY <1>4, <2>1 DEF gen_vals, Short
  <2>3. max - min + 1 \in Nat /\ max - min + 1 \in 1..MAX_TEST_VALS
    BY <1>1
  <2>4. Len(s) = max - min + 1
    BY <2>1, <2>3
  <2>5. s[1] = min /\ \A k \in 1..(max - min + 1) : s[k] \in min..max
    BY <2>1
  <2> QED
    BY <1>4, <2>2, <2>3, <2>4, <2>5 DEF Good
<1>5. CASE range = Short(0, 32)
  BY <1>4, <1>5, ValuesOf, Firsts
<1>6. CASE range = Short(0, 30)
  BY <1>4, <1>6, ValuesOf, Firsts
<1>7. CASE range = Short(1, 32)
  BY <1>4, <1>7, ValuesOf, Firsts
<1> QED
  BY <1>2, <1>3, <1>5, <1>6, <1>7 DEF AllRanges

-----------------------------------------------------------------------------
\* w holds what the first k functions without errors are worth.
Worth(v, k) == IF v[k] = 0 THEN test_set[k].rating ELSE 0
Sums(w, v) ==
  /\ w \in [0..Len(v) -> Nat] /\ w[0] = 0
  /\ \A k \in 1..Len(v) : w[k] = w[k - 1] + Worth(v, k)

LEMMA SumsRatings ==
  ASSUME NEW v, Len(v) \in Nat, NEW w, Sums(w, v)
  PROVE  Ratings(v) = w[Len(v)]
<1> DEFINE Is(u) == u = [k \in 0..Len(v) |-> IF k = 0 THEN 0 ELSE u[k - 1] + Worth(v, k)]
<1>1. Is(w)
  <2>1. w = [k \in 0..Len(v) |-> w[k]]
    BY DEF Sums
  <2>2. ASSUME NEW k \in 0..Len(v) PROVE w[k] = IF k = 0 THEN 0 ELSE w[k - 1] + Worth(v, k)
    <3>1. k # 0 => k \in 1..Len(v)
      OBVIOUS
    <3> QED
      BY <3>1 DEF Sums
  <2> QED
    BY <2>1, <2>2
<1>2. PICK u : u = CHOOSE s : Is(s)
  OBVIOUS
<1>3. Is(u)
  BY <1>1, <1>2
<1>4. Ratings(v) = u[Len(v)]
  BY <1>2 DEF Ratings, Worth
<1> DEFINE G == {k \in Nat : k <= Len(v) => u[k] = w[k]}
<1>5. 0 \in G
  BY <1>3 DEF Sums
<1>6. ASSUME NEW k \in Nat, k \in G PROVE k + 1 \in G
  <2> SUFFICES ASSUME k + 1 <= Len(v) PROVE u[k + 1] = w[k + 1]
    OBVIOUS
  <2>1. k + 1 \in 0..Len(v) /\ k + 1 # 0 /\ k + 1 - 1 = k /\ k + 1 \in 1..Len(v)
    OBVIOUS
  <2>2. u[k + 1] = u[k] + Worth(v, k + 1)
    BY <1>3, <2>1
  <2>3. w[k + 1] = w[k] + Worth(v, k + 1)
    <3>1. \A j \in 1..Len(v) : w[j] = w[j - 1] + Worth(v, j)
      BY DEF Sums
    <3> QED
      BY <2>1, <3>1
  <2>4. u[k] = w[k]
    BY <1>6, <2>1
  <2> QED
    BY <2>2, <2>3, <2>4
<1> HIDE DEF G
<1>7. \A k \in Nat : k \in G
  BY <1>5, <1>6, Induction
<1> QED
  BY <1>4, <1>7 DEF G

\* Counting goes on with the next verdict.
LEMMA SumsNext ==
  ASSUME NEW v \in Seq({0, 1}), NEW w, Sums(w, v), NEW e \in {0, 1},
         Len(v) + 1 \in 1..15
  PROVE  \E u : Sums(u, Append(v, e))
                  /\ u[Len(v) + 1] = w[Len(v)] + IF e = 0 THEN test_set[Len(v) + 1].rating ELSE 0
<1>1. PICK n \in Nat : n = Len(v)
  OBVIOUS
<1>2. PICK m : m = Append(v, e)
  OBVIOUS
<1>3. Len(m) = n + 1 /\ m[n + 1] = e /\ \A k \in 1..n : m[k] = v[k]
  BY <1>1, <1>2
<1>4. Worth(m, n + 1) \in Nat
  <2>1. test_set[n + 1].rating \in Nat
    BY <1>1, Rated
  <2> QED
    BY <2>1 DEF Worth
<1>5. PICK u : u = [k \in 0..(n + 1) |-> IF k = n + 1 THEN w[n] + Worth(m, n + 1) ELSE w[k]]
  OBVIOUS
<1>6. /\ w \in [0..n -> Nat] /\ w[0] = 0 /\ \A k \in 1..n : w[k] = w[k - 1] + Worth(v, k)
  BY <1>1 DEF Sums
<1>7. u \in [0..(n + 1) -> Nat] /\ u[0] = 0 /\ u[n + 1] = w[n] + Worth(m, n + 1)
  BY <1>4, <1>5, <1>6
<1>8. ASSUME NEW k \in 1..(n + 1) PROVE u[k] = u[k - 1] + Worth(m, k)
  <2>1. CASE k = n + 1
    <3>1. u[k - 1] = w[n]
      BY <1>5, <2>1
    <3> QED
      BY <1>7, <2>1, <3>1
  <2>2. CASE k # n + 1
    <3>1. k \in 1..n /\ k \in 0..(n + 1) /\ k - 1 \in 0..(n + 1) /\ k - 1 # n + 1
      BY <2>2
    <3>2. u[k] = w[k] /\ u[k - 1] = w[k - 1]
      BY <1>5, <2>2, <3>1
    <3>3. Worth(m, k) = Worth(v, k)
      BY <1>3, <3>1 DEF Worth
    <3> QED
      BY <1>6, <3>1, <3>2, <3>3
  <2> QED
    BY <2>1, <2>2
<1>9. Sums(u, m)
  BY <1>3, <1>7, <1>8 DEF Sums
<1> QED
  BY <1>1, <1>2, <1>3, <1>7, <1>9 DEF Worth

\* The values are there while they are tried, and good for the ranges.
Generated ==
  IF pc \in {"set_alarm", "test"}
  THEN /\ DOMAIN arg_test_vals = 1..Len(RangesOf(t))
       /\ \A arg \in 1..Len(RangesOf(t)) : Good(arg_test_vals[arg], RangesOf(t)[arg])
  ELSE arg_test_vals = <<>>

\* The loops stay within the values, and go on only while no difference is found.
Sweeps ==
  /\ a1 \in Nat /\ a2 \in Nat
  /\ IF pc = "test"
     THEN \A arg \in 1..Len(RangesOf(t)) :
            (IF arg = 1 THEN a1 ELSE a2) \in 1..Len(arg_test_vals[arg])
     ELSE a1 = 1 /\ a2 = 1
  /\ t \in Unfinished => a1 = 1 /\ a2 = 1

\* A function has errors if it is unfinished or was stopped, and none if it is finished.
Deserved(k, e) ==
  /\ e \in {0, 1}
  /\ e = 0 => k \notin Unfinished
  /\ e = 1 => k \in Unfinished \/ k \in Stopped

Judged ==
  /\ t \in 1..15
  /\ pc \in {"set_alarm", "test"} => errors = 0
  /\ pc = "report" => Deserved(t, errors)
  /\ verdict \in Seq({0, 1}) /\ Len(verdict) \in 0..15
  /\ pc \in {"generate", "set_alarm", "test", "report"} => Len(verdict) = t - 1
  /\ \A k \in 1..Len(verdict) : Deserved(k, verdict[k])

Counted == \E w : Sums(w, verdict) /\ points = w[Len(verdict)]

VerdictInv == Generated /\ Sweeps /\ Judged /\ Counted

LEMMA VerdictInvInit == Init => VerdictInv
<1> SUFFICES ASSUME Init PROVE VerdictInv
  OBVIOUS
<1>1. /\ t = 1 /\ pc = "generate" /\ arg_test_vals = <<>> /\ a1 = 1 /\ a2 = 1
      /\ verdict = <<>> /\ points = 0
  BY DEF Init
<1>2. Generated /\ Sweeps
  BY <1>1 DEF Generated, Sweeps, Unfinished
<1>3. Judged
  BY <1>1 DEF Judged
<1>4. Counted
  <2>1. PICK w : w = [k \in 0..0 |-> 0]
    OBVIOUS
  <2>2. Len(verdict) = 0 /\ w \in [0..0 -> Nat] /\ w[0] = 0
    BY <1>1, <2>1
  <2>3. Sums(w, verdict)
    BY <2>2 DEF Sums
  <2> QED
    BY <1>1, <2>2, <2>3 DEF Counted
<1> QED
  BY <1>2, <1>3, <1>4 DEF VerdictInv

\* The record of the function under test.
LEMMA TestIs == Test.ranges = RangesOf(t) /\ Test.name = NameOf(t) /\ Args = Len(RangesOf(t))
BY DEF Test, Args, RangesOf, NameOf

\* Verdicts that stand go on standing.
LEMMA JudgedStays ==
  ASSUME Judged, verdict' = verdict, charged \subseteq charged'
  PROVE  /\ verdict' \in Seq({0, 1}) /\ Len(verdict') \in 0..15
         /\ \A k \in 1..Len(verdict') : Deserved(k, verdict[k])'
<1>1. Stopped \subseteq Stopped'
  BY DEF Stopped
<1> QED
  BY <1>1 DEF Judged, Deserved

LEMMA CountedStays ==
  ASSUME Counted, verdict' = verdict, points' = points
  PROVE  Counted'
BY DEF Counted

LEMMA GenerateVerdict == ASSUME VerdictInv, generate PROVE VerdictInv'
<1>1. /\ pc = "generate" /\ pc' \in {"set_alarm", "test"} /\ t' = t /\ a1' = a1 /\ a2' = a2
      /\ errors' = 0 /\ verdict' = verdict /\ points' = points /\ charged' = charged
  BY DEF generate
<1>2. t \in 1..15 /\ a1 = 1 /\ a2 = 1
  BY <1>1 DEF VerdictInv, Judged, Sweeps
<1>3. PICK n : n = arg_test_range(Args)
  OBVIOUS
<1>4. PICK random \in [1..n -> Randoms] :
        arg_test_vals' = [arg \in 1..Args |-> gen_vals(Test.ranges[arg], n, random)]
  BY <1>3 DEF generate
<1>5. n \in 1..TEST_RANGE /\ Args \in 0..2
  BY <1>2, <1>3, RangesIn, RangeIsRoot, TestIs
<1>6. /\ DOMAIN arg_test_vals' = 1..Len(RangesOf(t))
      /\ \A arg \in 1..Len(RangesOf(t)) : Good(arg_test_vals'[arg], RangesOf(t)[arg])
  <2>1. arg_test_vals' = [arg \in 1..Len(RangesOf(t)) |-> gen_vals(RangesOf(t)[arg], n, random)]
    BY <1>4, TestIs
  <2>2. ASSUME NEW arg \in 1..Len(RangesOf(t))
        PROVE  Good(gen_vals(RangesOf(t)[arg], n, random), RangesOf(t)[arg])
    BY <1>2, <1>5, RangesIn, GenValsAre
  <2> QED
    BY <2>1, <2>2
<1>7. Generated'
  BY <1>1, <1>6 DEF Generated
<1>8. Sweeps'
  <2>1. \A arg \in 1..Len(RangesOf(t)) : 1 \in 1..Len(arg_test_vals'[arg])
    BY <1>6 DEF Good
  <2> QED
    BY <1>1, <1>2, <2>1 DEF Sweeps
<1>9. Judged'
  BY <1>1, JudgedStays DEF VerdictInv, Judged
<1>10. Counted'
  BY <1>1, CountedStays DEF VerdictInv
<1> QED
  BY <1>7, <1>8, <1>9, <1>10 DEF VerdictInv

LEMMA SetAlarmVerdict == ASSUME VerdictInv, set_alarm PROVE VerdictInv'
<1>1. /\ pc = "set_alarm" /\ pc' = "test" /\ t' = t /\ a1' = a1 /\ a2' = a2
      /\ arg_test_vals' = arg_test_vals
      /\ errors' = errors /\ verdict' = verdict /\ points' = points /\ charged' = charged
  BY DEF set_alarm
<1>2. a1 = 1 /\ a2 = 1
  BY <1>1 DEF VerdictInv, Sweeps
<1>3. Generated'
  BY <1>1 DEF VerdictInv, Generated
<1>4. Sweeps'
  <2>1. \A arg \in 1..Len(RangesOf(t)) : 1 \in 1..Len(arg_test_vals[arg])
    BY <1>1 DEF VerdictInv, Generated, Good
  <2> QED
    BY <1>1, <1>2, <2>1 DEF Sweeps
<1>5. Judged'
  BY <1>1, JudgedStays DEF VerdictInv, Judged
<1>6. Counted'
  BY <1>1, CountedStays DEF VerdictInv
<1> QED
  BY <1>3, <1>4, <1>5, <1>6 DEF VerdictInv

\* The first arguments show that a function is unfinished; none shows it of the others.
LEMMA DifferIs ==
  ASSUME VerdictInv, pc = "test"
  PROVE  Differ <=> t \in Unfinished
<1>1. t \in 1..15
  BY DEF VerdictInv, Judged
<1>2. PICK a : a = Arguments
  OBVIOUS
<1>3. ASSUME NEW arg \in 1..Len(RangesOf(t))
      PROVE  a[arg] = arg_test_vals[arg][IF arg = 1 THEN a1 ELSE a2]
  BY <1>2, TestIs DEF Arguments
<1>4. ASSUME NEW arg \in 1..Len(RangesOf(t))
      PROVE  /\ Good(arg_test_vals[arg], RangesOf(t)[arg])
             /\ (IF arg = 1 THEN a1 ELSE a2) \in 1..Len(arg_test_vals[arg])
  BY DEF VerdictInv, Generated, Sweeps
<1>5. CASE t \in Unfinished
  <2>1. a1 = 1 /\ a2 = 1
    BY <1>5 DEF VerdictInv, Sweeps
  <2>2. \A arg \in 1..Len(RangesOf(t)) : a[arg] = First(RangesOf(t)[arg])
    BY <1>3, <1>4, <2>1 DEF Good
  <2> QED
    BY <1>2, <1>5, <2>2, UnfinishedDiffer, TestIs DEF Differ
<1>6. CASE t \notin Unfinished
  <2>1. Fit(a, RangesOf(t))
    BY <1>3, <1>4 DEF Good, Fit
  <2> QED
    BY <1>1, <1>2, <1>6, <2>1, FinishedAgree, TestIs DEF Differ
<1> QED
  BY <1>5, <1>6

LEMMA TestVerdict == ASSUME VerdictInv, test PROVE VerdictInv'
<1>1. /\ pc = "test" /\ pc' = pc /\ t' = t /\ arg_test_vals' = arg_test_vals
      /\ errors' = errors /\ verdict' = verdict /\ points' = points /\ charged' = charged
      /\ ~Differ /\ (More(1, a1) \/ More(2, a2)) /\ NextArguments
  BY DEF test
<1>2. t \notin Unfinished
  BY <1>1, DifferIs
<1>3. t \in 1..15 /\ Len(RangesOf(t)) \in 0..2 /\ a1 \in Nat /\ a2 \in Nat
  BY RangesIn DEF VerdictInv, Judged, Sweeps
<1>4. Generated'
  BY <1>1 DEF VerdictInv, Generated
<1>5. Sweeps'
  <2>1. ASSUME NEW arg \in 1..Len(RangesOf(t))
        PROVE  /\ Len(arg_test_vals[arg]) \in Nat \ {0}
               /\ arg \in {1, 2}
               /\ arg = 1 => a1 \in 1..Len(arg_test_vals[arg])
               /\ arg = 2 => a2 \in 1..Len(arg_test_vals[arg])
    <3>1. arg \in {1, 2}
      <4>1. PICK n \in 0..2 : n = Len(RangesOf(t))
        BY <1>3
      <4>2. arg \in 1..n
        BY <4>1
      <4> QED
        BY <4>2
    <3>2. Len(arg_test_vals[arg]) \in Nat \ {0}
      <4>1. Len(arg_test_vals[arg]) \in 1..MAX_TEST_VALS
        BY <1>1 DEF VerdictInv, Generated, Good
      <4> QED
        BY <4>1, RangeAssumption DEF MAX_TEST_VALS
    <3>3. (IF arg = 1 THEN a1 ELSE a2) \in 1..Len(arg_test_vals[arg])
      BY <1>1 DEF VerdictInv, Sweeps
    <3> QED
      BY <3>1, <3>2, <3>3
  <2>2. CASE More(2, a2)
    <3>1. a1' = a1 /\ a2' = a2 + 1
      BY <1>1, <2>2 DEF NextArguments
    <3>2. 2 \in 1..Len(RangesOf(t)) => a2 + 1 \in 1..Len(arg_test_vals[2])
      BY <1>3, <2>1, <2>2, TestIs DEF More
    <3> QED
      BY <1>1, <1>2, <1>3, <2>1, <3>1, <3>2 DEF Sweeps
  <2>3. CASE ~More(2, a2)
    <3>1. a1' = a1 + 1 /\ a2' = 1 /\ More(1, a1)
      BY <1>1, <2>3 DEF NextArguments
    <3>2. 1 \in 1..Len(RangesOf(t)) => a1 + 1 \in 1..Len(arg_test_vals[1])
      BY <1>3, <2>1, <3>1, TestIs DEF More
    <3> QED
      BY <1>1, <1>2, <1>3, <2>1, <3>1, <3>2 DEF Sweeps
  <2> QED
    BY <2>2, <2>3
<1>6. Judged'
  BY <1>1, JudgedStays DEF VerdictInv, Judged
<1>7. Counted'
  BY <1>1, CountedStays DEF VerdictInv
<1> QED
  BY <1>4, <1>5, <1>6, <1>7 DEF VerdictInv

\* test_function returns with the errors that the function deserves.
LEMMA ReturnsVerdict ==
  ASSUME VerdictInv, pc \in {"set_alarm", "test"}, NEW e, Returns(e), Deserved(t, e)', t' = t,
         verdict' = verdict, points' = points, charged \subseteq charged'
  PROVE  VerdictInv'
<1>1. pc' = "report" /\ errors' = e /\ arg_test_vals' = <<>> /\ a1' = 1 /\ a2' = 1
  BY DEF Returns
<1>2. Generated' /\ Sweeps'
  BY <1>1 DEF Generated, Sweeps
<1>3. Judged'
  BY <1>1, JudgedStays DEF VerdictInv, Judged
<1>4. Counted'
  BY CountedStays DEF VerdictInv
<1> QED
  BY <1>2, <1>3, <1>4 DEF VerdictInv

LEMMA TestEndsVerdict == ASSUME VerdictInv, test_ends PROVE VerdictInv'
<1>1. /\ pc = "test" /\ t' = t /\ verdict' = verdict /\ points' = points /\ charged' = charged
      /\ Returns(IF Differ THEN errors + 1 ELSE errors)
  BY DEF test_ends
<1>2. errors = 0
  BY <1>1 DEF VerdictInv, Judged
<1>3. Differ <=> t \in Unfinished
  BY <1>1, DifferIs
<1>4. CASE Differ
  <2>1. Returns(1)
    BY <1>1, <1>2, <1>4
  <2>2. Deserved(t, 1)'
    BY <1>1, <1>3, <1>4 DEF Deserved
  <2> QED
    BY <1>1, <2>1, <2>2, ReturnsVerdict
<1>5. CASE ~Differ
  <2>1. Returns(0)
    BY <1>1, <1>2, <1>5
  <2>2. Deserved(t, 0)'
    BY <1>1, <1>3, <1>5 DEF Deserved
  <2> QED
    BY <1>1, <2>1, <2>2, ReturnsVerdict
<1> QED
  BY <1>4, <1>5

LEMMA RingVerdict == ASSUME VerdictInv, timeout_handler PROVE VerdictInv'
<1>1. t' = t /\ verdict' = verdict /\ points' = points
  BY DEF timeout_handler
<1>2. CASE pc \in {"set_alarm", "test"}
  <2>1. Returns(1) /\ charged' = charged \cup {<<t, armed>>}
    BY <1>2 DEF timeout_handler
  <2>2. Deserved(t, 1)'
    <3>1. <<t, armed>> \in charged' /\ <<t, armed>>[1] = t
      BY <2>1
    <3>2. t \in Stopped'
      BY <3>1 DEF Stopped
    <3> QED
      BY <1>1, <3>2 DEF Deserved
  <2> QED
    BY <1>1, <1>2, <2>1, <2>2, ReturnsVerdict
<1>3. CASE pc \notin {"set_alarm", "test"}
  <2>1. /\ pc' = "undefined" /\ arg_test_vals' = arg_test_vals /\ a1' = a1 /\ a2' = a2
        /\ errors' = errors /\ charged' = charged
    BY <1>3 DEF timeout_handler
  <2>2. Generated' /\ Sweeps'
    BY <1>1, <1>3, <2>1 DEF VerdictInv, Generated, Sweeps
  <2>3. Judged'
    BY <1>1, <2>1, JudgedStays DEF VerdictInv, Judged
  <2>4. Counted'
    BY <1>1, CountedStays DEF VerdictInv
  <2> QED
    BY <2>2, <2>3, <2>4 DEF VerdictInv
<1> QED
  BY <1>2, <1>3

LEMMA ReportVerdict == ASSUME VerdictInv, report PROVE VerdictInv'
<1>1. /\ pc = "report" /\ verdict' = Append(verdict, errors) /\ points' = points + Score
      /\ charged' = charged /\ arg_test_vals' = arg_test_vals /\ a1' = a1 /\ a2' = a2
      /\ \/ t < Len(test_set) /\ t' = t + 1 /\ pc' = "generate"
         \/ ~(t < Len(test_set)) /\ t' = t /\ pc' = "total"
  BY DEF report
<1>2. /\ t \in 1..15 /\ errors \in {0, 1} /\ Deserved(t, errors) /\ Len(verdict) = t - 1
      /\ verdict \in Seq({0, 1}) /\ Len(test_set) = 15
  BY <1>1, Table DEF VerdictInv, Judged, Deserved
<1>3. Generated' /\ Sweeps'
  BY <1>1 DEF VerdictInv, Generated, Sweeps
<1>4. PICK m \in Seq({0, 1}) :
        /\ m = Append(verdict, errors) /\ Len(m) = t /\ m[t] = errors
        /\ \A k \in 1..(t - 1) : m[k] = verdict[k]
  <2>1. PICK m : m = Append(verdict, errors)
    OBVIOUS
  <2>2. m \in Seq({0, 1})
    BY <1>2, <2>1
  <2>3. Len(m) = t
    BY <1>2, <2>1
  <2>4. m[t] = errors /\ \A k \in 1..(t - 1) : m[k] = verdict[k]
    BY <1>2, <2>1
  <2> QED
    BY <2>1, <2>2, <2>3, <2>4
<1>5. Judged'
  <2>1. t' \in 1..15 /\ (pc' = "generate" => t' - 1 = t)
    <3>1. t < Len(test_set) <=> t < 15
      BY <1>2
    <3>2. \/ t < 15 /\ t' = t + 1 /\ pc' = "generate"
          \/ t' = t /\ pc' = "total"
      BY <1>1, <3>1
    <3>3. CASE t < 15 /\ t' = t + 1 /\ pc' = "generate"
      BY <1>2, <3>3
    <3>4. CASE t' = t /\ pc' = "total"
      BY <1>2, <3>4
    <3> QED
      BY <3>2, <3>3, <3>4
  <2>2. \A k \in 1..t : Deserved(k, m[k])
    BY <1>2, <1>4 DEF VerdictInv, Judged
  <2>3. \A k \in 1..Len(verdict') : Deserved(k, verdict[k])'
    BY <1>1, <1>4, <2>2 DEF Deserved, Stopped
  <2>4. verdict' \in Seq({0, 1}) /\ Len(verdict') = t /\ t \in 0..15
    BY <1>1, <1>2, <1>4
  <2>5. pc' \notin {"set_alarm", "test", "report"}
    BY <1>1
  <2> QED
    BY <2>1, <2>3, <2>4, <2>5 DEF Judged
<1>6. Counted'
  <2>1. PICK w : Sums(w, verdict) /\ points = w[Len(verdict)]
    BY DEF VerdictInv, Counted
  <2>2. Len(verdict) + 1 \in 1..15 /\ Len(verdict) + 1 = t
    BY <1>2
  <2>3. PICK u : Sums(u, m) /\ u[t] = points + IF errors = 0 THEN test_set[t].rating ELSE 0
    <3>1. verdict \in Seq({0, 1}) /\ errors \in {0, 1}
      BY <1>2
    <3>2. PICK u : Sums(u, Append(verdict, errors))
                   /\ u[Len(verdict) + 1]
                        = w[Len(verdict)] + IF errors = 0 THEN test_set[Len(verdict) + 1].rating ELSE 0
      BY <2>1, <2>2, <3>1, SumsNext
    <3> QED
      BY <1>4, <2>1, <2>2, <3>2
  <2>4. Sums(u, verdict') /\ points' = u[Len(verdict')]
    BY <1>1, <1>4, <2>3 DEF Score, Test
  <2> QED
    BY <2>4 DEF Counted
<1> QED
  BY <1>3, <1>5, <1>6 DEF VerdictInv

LEMMA QuietVerdict == ASSUME VerdictInv, returns_0 \/ UNCHANGED vars PROVE VerdictInv'
<1>1. /\ t' = t /\ arg_test_vals' = arg_test_vals /\ a1' = a1 /\ a2' = a2 /\ errors' = errors
      /\ verdict' = verdict /\ points' = points /\ charged' = charged
      /\ \/ pc' = pc
         \/ pc = "total" /\ pc' = "exited"
  BY DEF returns_0, vars
<1>2. Generated' /\ Sweeps'
  BY <1>1 DEF VerdictInv, Generated, Sweeps
<1>3. Judged'
  BY <1>1, JudgedStays DEF VerdictInv, Judged, Deserved, Stopped
<1>4. Counted'
  BY <1>1, CountedStays DEF VerdictInv
<1> QED
  BY <1>2, <1>3, <1>4 DEF VerdictInv

LEMMA VerdictInvNext == VerdictInv /\ [Next]_vars => VerdictInv'
BY GenerateVerdict, SetAlarmVerdict, TestVerdict, TestEndsVerdict, RingVerdict, ReportVerdict,
   QuietVerdict DEF Next

LEMMA VerdictInvRight == VerdictInv => VerdictsAreRight
<1> SUFFICES ASSUME VerdictInv PROVE VerdictsAreRight
  OBVIOUS
<1>1. verdict \in Seq({0, 1}) /\ DOMAIN verdict = 1..Len(verdict) /\ Len(verdict) \in 0..15
  BY DEF VerdictInv, Judged
<1>2. ASSUME NEW k \in DOMAIN verdict
      PROVE  /\ verdict[k] \in {0, 1}
             /\ verdict[k] = 0 => k \in Right
             /\ verdict[k] = 1 => k \notin Right \/ k \in Stopped
  <2>1. k \in 1..15 /\ (k \in Right <=> k \notin Unfinished)
    BY <1>1, RightIs
  <2>2. Deserved(k, verdict[k])
    BY <1>1 DEF VerdictInv, Judged
  <2> QED
    BY <2>1, <2>2 DEF Deserved
<1>3. points = Ratings(verdict)
  BY <1>1, SumsRatings DEF VerdictInv, Counted
<1>4. \A arg \in DOMAIN arg_test_vals : Len(arg_test_vals[arg]) <= MAX_TEST_VALS
  <2>1. DOMAIN <<>> = {}
    OBVIOUS
  <2>2. MAX_TEST_VALS \in Nat
    BY RangeAssumption DEF MAX_TEST_VALS
  <2> QED
    BY <2>1, <2>2 DEF VerdictInv, Generated, Good
<1> QED
  BY <1>2, <1>3, <1>4 DEF VerdictsAreRight

\* Whatever values it draws and whenever an alarm rings, btest gives points to the
\* functions that are right and takes them from those that are wrong or were stopped.
THEOREM VerdictsAreRightCorrect == Spec => []VerdictsAreRight
BY VerdictInvInit, VerdictInvNext, VerdictInvRight, PTL DEF Spec

-----------------------------------------------------------------------------
(* tracegen.c and trans.c                                                    *)

\* The blocks of transpose_submit; fn = 1 has one that holds everything.
Block == IF fn = 0 THEN Side(M) ELSE M + N
LastRow == rows + Block - 1
Fits == fn = 1 \/ ((M = 32 => N % 8 = 0) /\ (M = 64 => N % 4 = 0))

Arrays ==
  /\ <<M, N>> \in Shapes /\ fn \in {0, 1}
  /\ B = [k \in 0..(Cells - 1) |-> B[k]]

Loops ==
  /\ rows \in Nat /\ cols \in Nat /\ x \in Nat /\ y \in Nat
  /\ rows < N /\ cols < M
  /\ fn = 0 => rows % Side(M) = 0 /\ cols % Side(M) = 0
  /\ fn = 1 => rows = 0 /\ cols = 0
  /\ rows <= x /\ x <= rows + Block /\ cols <= y /\ y <= cols + Block

\* What is under way at each place.
Places ==
  /\ at \in {"load", "store", "exit"}
  /\ at = "store" => InRows /\ InCols /\ (fn = 0 => x # y) /\ element = A[x * M + y]
  /\ at = "exit" => ~InRows /\ (fn = 0 => cols + Side(M) >= M /\ rows + Side(M) >= N)

\* In a block on the diagonal temp is of the row that i names, once there is one,
\* and i is this row from the diagonal on.
Kept ==
  fn = 0 /\ rows = cols =>
    /\ y > x \/ x > rows => /\ i \in rows..x /\ i < M /\ temp = A[i * M + i]
                            /\ Fits => i < N
    /\ y > x => i = x

\* The elements the loops have gone through and stored, in the order of the loops.
Passed(a, c) ==
  \/ a < rows
  \/ /\ a < rows + Block
     /\ \/ c < cols
        \/ c < cols + Block /\ (a < x \/ (a = x /\ c < y /\ (fn = 0 => a # c)))
Copied ==
  Fits => \A a \in 0..(N - 1), c \in 0..(M - 1) : Passed(a, c) => B[c * N + a] = A[a * M + c]

\* A last block that reaches over the last row puts what lies behind A into a
\* cell of B, and no later store repairs it.
Spoilt ==
  ~Fits /\ rows + Block >= N /\ cols + Block >= M /\ (x > LastRow \/ (x = LastRow /\ y > cols))
    => B[cols * N + LastRow] = 0

LoopInv == Arrays /\ Loops /\ Places /\ Kept /\ Copied /\ Spoilt
TracegenInv == at # "off" => LoopInv

-----------------------------------------------------------------------------
\* Cells of a matrix with rows of n.
LEMMA RowsGrow ==
  ASSUME NEW p \in Nat, NEW q \in Nat, p < q, NEW n \in Nat
  PROVE  p * n \in Nat /\ q * n \in Nat /\ p * n + n <= q * n
<1>1. (q - p - 1) * n >= 0
  OBVIOUS
<1> QED
  BY <1>1

LEMMA CellInside ==
  ASSUME NEW p \in Nat, NEW q \in Nat, p < q, NEW n \in Nat, NEW j \in Nat, j < n
  PROVE  p * n + j \in Nat /\ p * n + j < q * n
BY RowsGrow

LEMMA CellsApart ==
  ASSUME NEW p \in Nat, NEW q \in Nat, NEW n \in Nat, NEW j \in Nat, NEW k \in Nat,
         j < n, k < n, p * n + j = q * n + k
  PROVE  p = q /\ j = k
<1>1. p < q => p * n + n <= q * n
  BY RowsGrow
<1>2. q < p => q * n + n <= p * n
  BY RowsGrow
<1>3. p * n \in Nat /\ q * n \in Nat
  OBVIOUS
<1>4. p = q
  BY <1>1, <1>2, <1>3
<1> QED
  BY <1>3, <1>4

\* What the constants say of the shape and of the kept cells.
LEMMA ShapeFacts ==
  ASSUME Arrays
  PROVE  /\ M \in 1..256 /\ N \in 1..256 /\ Cells \in Nat
         /\ M * N \in Nat /\ N * M = M * N /\ M * N <= Cells
         /\ M = 32 => 32 * (N + 7) <= Cells
         /\ M = 64 => 64 * (N + 3) <= Cells
         /\ fn \in {0, 1} /\ DOMAIN B = 0..(Cells - 1)
<1>1. M \in 1..256 /\ N \in 1..256 /\ Cells \in Nat /\ M * N <= Cells
  BY ShapesAssumption DEF Arrays
<1>2. (M = 32 => 32 * (N + 7) <= Cells) /\ (M = 64 => 64 * (N + 3) <= Cells)
  BY ShapesAssumption DEF Arrays
<1>3. fn \in {0, 1} /\ DOMAIN B = 0..(Cells - 1)
  BY DEF Arrays
<1>4. M * N \in Nat /\ N * M = M * N
  BY <1>1
<1> QED
  BY <1>1, <1>2, <1>3, <1>4

LEMMA SideFacts ==
  /\ M = 32 => Side(M) = 8
  /\ M = 64 => Side(M) = 4
  /\ M \notin {32, 64} => Side(M) = 16
BY DEF Side

\* An element that is loaded is in A and in its block; when the blocks fit it is
\* in the matrix.
LEMMA InBlock ==
  ASSUME Arrays, Loops, InRows
  PROVE  /\ x < rows + Block /\ (Fits => x < N)
         /\ fn = 1 => x < N
         /\ InCols => y < cols + Block /\ y < M
<1>1. M \in 1..256 /\ N \in 1..256 /\ fn \in {0, 1}
  BY ShapeFacts
<1>2. CASE fn = 1
  BY <1>1, <1>2 DEF Loops, InRows, InCols, Block
<1>3. CASE fn = 0 /\ M = 32
  <2>1. Block = 8 /\ x < rows + 8 /\ (Fits => N % 8 = 0) /\ rows % 8 = 0 /\ cols % 8 = 0
    BY <1>3, SideFacts DEF Loops, InRows, Block, Fits
  <2>2. InCols => y < cols + 8
    BY <1>3, SideFacts DEF InCols
  <2>3. rows \in Nat /\ cols \in Nat /\ x \in Nat /\ y \in Nat /\ rows < N /\ cols < M
    BY DEF Loops
  <2> QED
    BY <1>1, <1>3, <2>1, <2>2, <2>3
<1>4. CASE fn = 0 /\ M = 64
  <2>1. Block = 4 /\ x < rows + 4 /\ (Fits => N % 4 = 0) /\ rows % 4 = 0 /\ cols % 4 = 0
    BY <1>4, SideFacts DEF Loops, InRows, Block, Fits
  <2>2. InCols => y < cols + 4
    BY <1>4, SideFacts DEF InCols
  <2>3. rows \in Nat /\ cols \in Nat /\ x \in Nat /\ y \in Nat /\ rows < N /\ cols < M
    BY DEF Loops
  <2> QED
    BY <1>1, <1>4, <2>1, <2>2, <2>3
<1>5. CASE fn = 0 /\ M \notin {32, 64}
  BY <1>1, <1>5, SideFacts DEF Loops, InRows, InCols, Block, Fits
<1> QED
  BY <1>1, <1>2, <1>3, <1>4, <1>5

\* Blocks start at multiples of their side.
LEMMA OnDiagonal ==
  ASSUME Arrays, Loops, fn = 0
  PROVE  /\ rows # cols => rows + Block <= cols \/ cols + Block <= rows
         /\ Block \in {4, 8, 16} /\ LastRow # cols
<1>1. M \in 1..256 /\ N \in 1..256
  BY ShapeFacts
<1>2. CASE M = 32
  BY <1>1, <1>2, SideFacts DEF Loops, Block, LastRow
<1>3. CASE M = 64
  BY <1>1, <1>3, SideFacts DEF Loops, Block, LastRow
<1>4. CASE M \notin {32, 64}
  BY <1>1, <1>4, SideFacts DEF Loops, Block, LastRow
<1> QED
  BY <1>1, <1>2, <1>3, <1>4

LEMMA BlockNat == ASSUME Arrays, Loops PROVE Block \in Nat \ {0}
<1>1. M \in 1..256 /\ N \in 1..256 /\ fn \in {0, 1}
  BY ShapeFacts
<1> QED
  BY <1>1, OnDiagonal DEF Block

\* Blocks that do not fit are as wide as they may be and go over the last row.
LEMMA LastBlock ==
  ASSUME Arrays, Loops, ~Fits, rows + Block >= N, cols + Block >= M
  PROVE  /\ fn = 0 /\ M \in {32, 64} /\ Block \in {4, 8}
         /\ cols + Block = M /\ N <= LastRow /\ LastRow < N + Block - 1
         /\ LastRow = rows + Block - 1 /\ LastRow \in Nat
<1>1. M \in 1..256 /\ N \in 1..256
  BY ShapeFacts
<1>2. fn = 0 /\ M \in {32, 64}
  BY ShapeFacts DEF Fits
<1>3. CASE M = 32
  <2>1. Block = 8 /\ N % 8 # 0 /\ rows % 8 = 0 /\ cols % 8 = 0
    BY <1>2, <1>3, SideFacts DEF Block, Fits, Loops
  <2> QED
    BY <1>1, <1>2, <1>3, <2>1 DEF Loops, LastRow
<1>4. CASE M = 64
  <2>1. Block = 4 /\ N % 4 # 0 /\ rows % 4 = 0 /\ cols % 4 = 0
    BY <1>2, <1>4, SideFacts DEF Block, Fits, Loops
  <2> QED
    BY <1>1, <1>2, <1>4, <2>1 DEF Loops, LastRow
<1> QED
  BY <1>2, <1>3, <1>4

\* The cells that the spoilt element comes from and goes to.
LEMMA SpoiltCells ==
  ASSUME Arrays, Loops, ~Fits, rows + Block >= N, cols + Block >= M
  PROVE  /\ A[LastRow * M + cols] = 0
         /\ cols * N + LastRow \in 0..(Cells - 1)
<1>1. /\ M \in 1..256 /\ N \in 1..256 /\ Cells \in Nat /\ M * N <= Cells
      /\ M = 32 => 32 * (N + 7) <= Cells
      /\ M = 64 => 64 * (N + 3) <= Cells
  BY ShapeFacts
<1>2. /\ fn = 0 /\ M \in {32, 64} /\ Block \in {4, 8} /\ cols \in Nat
      /\ cols + Block = M /\ N <= LastRow /\ LastRow < N + Block - 1 /\ LastRow \in Nat
  BY LastBlock DEF Loops
<1>3. (M = 32 => Block = 8) /\ (M = 64 => Block = 4)
  BY <1>2, SideFacts DEF Block
<1>4. CASE M = 32
  <2>1. Block = 8 /\ cols = 24
    BY <1>2, <1>3, <1>4
  <2>2. LastRow * M + cols \in 0..(Cells - 1) /\ ~(LastRow * M + cols < N * M)
    BY <1>1, <1>2, <1>4, <2>1
  <2>3. cols * N + LastRow \in 0..(Cells - 1)
    BY <1>1, <1>2, <1>4, <2>1
  <2> QED
    BY <2>2, <2>3 DEF A
<1>5. CASE M = 64
  <2>1. Block = 4 /\ cols = 60
    BY <1>2, <1>3, <1>5
  <2>2. LastRow * M + cols \in 0..(Cells - 1) /\ ~(LastRow * M + cols < N * M)
    BY <1>1, <1>2, <1>5, <2>1
  <2>3. cols * N + LastRow \in 0..(Cells - 1)
    BY <1>1, <1>2, <1>5, <2>1
  <2> QED
    BY <2>2, <2>3 DEF A
<1> QED
  BY <1>2, <1>4, <1>5

-----------------------------------------------------------------------------
SameShape == M' = M /\ N' = N /\ fn' = fn

LEMMA ShapeStays ==
  ASSUME SameShape
  PROVE  A' = A /\ Block' = Block /\ (Fits' <=> Fits) /\ Side(M)' = Side(M)
BY DEF SameShape, A, Block, Fits, Side

\* Before the first element nothing has been passed.
Start ==
  /\ <<M, N>> \in Shapes /\ fn \in {0, 1} /\ B = [k \in 0..(Cells - 1) |-> B[k]]
  /\ rows = 0 /\ cols = 0 /\ x = 0 /\ y = 0 /\ at = "load"

LEMMA StartInv == Start => LoopInv
<1> SUFFICES ASSUME Start
             PROVE  LoopInv
  OBVIOUS
<1>1. Arrays
  BY DEF Start, Arrays
<1>2. M \in 1..256 /\ N \in 1..256
  BY <1>1, ShapeFacts
<1>3. Side(M) \in {4, 8, 16}
  BY SideFacts
<1>4. Block \in Nat \ {0} /\ (fn = 0 => Block = Side(M))
  BY <1>2, <1>3 DEF Block
<1>5. rows % Side(M) = 0 /\ cols % Side(M) = 0
  BY <1>3 DEF Start
<1>6. Loops
  <2>1. rows = 0 /\ cols = 0 /\ x = 0 /\ y = 0
    BY DEF Start
  <2> QED
    BY <1>2, <1>4, <1>5, <2>1 DEF Loops
<1>7. Places /\ Kept
  BY DEF Places, Kept, Start
<1>8. Copied
  BY <1>2, <1>4 DEF Copied, Passed, Start
<1>9. Spoilt
  <2>1. ~Fits => Block \in {4, 8, 16}
    BY <1>3, <1>4 DEF Fits, Start
  <2> QED
    BY <2>1 DEF Spoilt, LastRow, Start
<1> QED
  BY <1>1, <1>6, <1>7, <1>8, <1>9 DEF LoopInv

LEMMA MainInv == ASSUME NEW sh \in Shapes, NEW g \in {0, 1}, main(sh, g) PROVE LoopInv'
<1>1. /\ M' = sh[1] /\ N' = sh[2] /\ fn' = g /\ rows' = 0 /\ cols' = 0 /\ x' = 0 /\ y' = 0
      /\ at' = "load" /\ B' = [k \in 0..(Cells - 1) |-> IF k < M' * N' THEN -1 ELSE 0]
  BY DEF main
<1>2. sh = <<sh[1], sh[2]>>
  BY ShapesAssumption
<1>3. Start'
  BY <1>1, <1>2 DEF Start
<1>4. Start' => LoopInv'
  BY StartInv, PTL
<1> QED
  BY <1>3, <1>4

\* Steps that only read.
LEMMA ReadsInv ==
  ASSUME LoopInv,
         SameShape, UNCHANGED loops, B' = B, temp' = temp, i' = i, element' = element, at' = at
  PROVE  LoopInv'
<1>1. rows' = rows /\ cols' = cols /\ x' = x /\ y' = y
  BY DEF loops
<1>2. A' = A /\ Block' = Block /\ (Fits' <=> Fits) /\ Side(M)' = Side(M)
  BY ShapeStays
<1>3. Arrays' /\ Loops'
  BY <1>1, <1>2 DEF Arrays, Loops, LoopInv, SameShape
<1>4. Places' /\ Kept'
  BY <1>1, <1>2 DEF Places, Kept, LoopInv, SameShape, InRows, InCols
<1>5. Copied' /\ Spoilt'
  BY <1>1, <1>2 DEF Copied, Passed, Spoilt, LastRow, LoopInv, SameShape
<1> QED
  BY <1>3, <1>4, <1>5 DEF LoopInv

LEMMA CallsInv == ASSUME LoopInv, calls PROVE LoopInv'
<1>1. /\ SameShape /\ UNCHANGED loops /\ B' = B
      /\ temp' = temp /\ i' = i /\ element' = element /\ at' = at
  BY DEF calls, SameShape
<1> QED
  BY <1>1, ReadsInv

LEMMA LoadInv == ASSUME LoopInv, load PROVE LoopInv'
<1>1. /\ SameShape /\ rows' = rows /\ cols' = cols /\ x' = x /\ y' = y /\ B' = B
      /\ temp' = temp /\ i' = i /\ element' = A[x * M + y] /\ at' = "store"
      /\ InRows /\ InCols /\ (fn = 0 => x # y)
  BY DEF load, SameShape, loops
<1>2. A' = A /\ Block' = Block /\ (Fits' <=> Fits) /\ Side(M)' = Side(M)
  BY <1>1, ShapeStays
<1>3. Arrays' /\ Loops'
  BY <1>1, <1>2 DEF Arrays, Loops, LoopInv, SameShape
<1>4. Places'
  <2>1. InRows' /\ InCols'
    BY <1>1, <1>2 DEF InRows, InCols, SameShape
  <2> QED
    BY <1>1, <1>2, <2>1 DEF Places, SameShape
<1>5. Kept'
  BY <1>1, <1>2 DEF Kept, LoopInv, SameShape
<1>6. Copied' /\ Spoilt'
  BY <1>1, <1>2 DEF Copied, Passed, Spoilt, LastRow, LoopInv, SameShape
<1> QED
  BY <1>3, <1>4, <1>5, <1>6 DEF LoopInv

LEMMA ReturnsInv == ASSUME LoopInv, returns PROVE LoopInv'
<1>1. /\ SameShape /\ rows' = rows /\ cols' = cols /\ x' = x /\ y' = y /\ B' = B
      /\ temp' = temp /\ i' = i /\ at' = "exit"
      /\ ~InRows /\ (fn = 0 => cols + Side(M) >= M /\ rows + Side(M) >= N)
  BY DEF returns, SameShape, loops
<1>2. A' = A /\ Block' = Block /\ (Fits' <=> Fits) /\ Side(M)' = Side(M)
  BY <1>1, ShapeStays
<1>3. Arrays' /\ Loops'
  BY <1>1, <1>2 DEF Arrays, Loops, LoopInv, SameShape
<1>4. Places'
  <2>1. ~InRows'
    BY <1>1, <1>2 DEF InRows, SameShape
  <2> QED
    BY <1>1, <1>2, <2>1 DEF Places, SameShape
<1>5. Kept'
  BY <1>1, <1>2 DEF Kept, LoopInv, SameShape
<1>6. Copied' /\ Spoilt'
  BY <1>1, <1>2 DEF Copied, Passed, Spoilt, LastRow, LoopInv, SameShape
<1> QED
  BY <1>3, <1>4, <1>5, <1>6 DEF LoopInv

-----------------------------------------------------------------------------
\* A block that has come to its end has been copied, and all before it.
LEMMA BlockCopied ==
  ASSUME LoopInv, ~InRows, Fits, NEW a \in 0..(N - 1), NEW c \in 0..(M - 1),
         a < rows + Block, a < rows \/ c < cols + Block
  PROVE  B[c * N + a] = A[a * M + c]
<1>1. M \in 1..256 /\ N \in 1..256 /\ fn \in {0, 1}
  BY ShapeFacts DEF LoopInv
<1>2. rows \in Nat /\ cols \in Nat /\ x \in Nat /\ y \in Nat /\ Block \in Nat
  BY BlockNat DEF LoopInv, Loops
<1>3. a < x
  BY <1>1, <1>2 DEF InRows, Block
<1>4. Passed(a, c)
  BY <1>1, <1>2, <1>3 DEF Passed
<1> QED
  BY <1>4 DEF LoopInv, Copied

LEMMA NextBlockInv == ASSUME LoopInv, next_block PROVE LoopInv'
<1>1. /\ SameShape /\ rows' = rows /\ cols' = cols + Side(M) /\ x' = rows /\ y' = cols'
      /\ B' = B /\ at' = "load" /\ ~InRows /\ fn = 0 /\ cols + Side(M) < M
  BY DEF next_block, SameShape, Loading
<1>2. /\ A' = A /\ Block' = Block /\ (Fits' <=> Fits) /\ Side(M)' = Side(M)
      /\ Block = Side(M)
  BY <1>1, ShapeStays DEF Block
<1>3. /\ M \in 1..256 /\ N \in 1..256
      /\ rows \in Nat /\ cols \in Nat /\ rows < N /\ Block \in {4, 8, 16}
      /\ rows % Block = 0 /\ cols % Block = 0
  BY <1>1, <1>2, ShapeFacts, OnDiagonal DEF LoopInv, Loops
<1>4. Arrays'
  BY <1>1 DEF Arrays, LoopInv, SameShape
<1>5. Loops'
  <2>1. (cols + Block) % Block = 0
    BY <1>3
  <2> QED
    BY <1>1, <1>2, <1>3, <2>1 DEF Loops, SameShape
<1>6. Places' /\ Kept'
  BY <1>1, <1>3 DEF Places, Kept
<1>7. Copied'
  <2> SUFFICES ASSUME Fits, NEW a \in 0..(N - 1), NEW c \in 0..(M - 1), Passed(a, c)'
               PROVE  B[c * N + a] = A[a * M + c]
    BY <1>1, <1>2 DEF Copied, SameShape
  <2>1. a < rows + Block /\ (a < rows \/ c < cols + Block)
    BY <1>1, <1>2, <1>3 DEF Passed
  <2> QED
    BY <1>1, <2>1, BlockCopied
<1>8. Spoilt'
  BY <1>1, <1>2, <1>3 DEF Spoilt, LastRow
<1> QED
  BY <1>4, <1>5, <1>6, <1>7, <1>8 DEF LoopInv

LEMMA NextRowsInv == ASSUME LoopInv, next_rows PROVE LoopInv'
<1>1. /\ SameShape /\ rows' = rows + Side(M) /\ cols' = 0 /\ x' = rows' /\ y' = 0 /\ B' = B
      /\ at' = "load" /\ ~InRows /\ fn = 0 /\ cols + Side(M) >= M /\ rows + Side(M) < N
  BY DEF next_rows, SameShape, Loading
<1>2. /\ A' = A /\ Block' = Block /\ (Fits' <=> Fits) /\ Side(M)' = Side(M)
      /\ Block = Side(M)
  BY <1>1, ShapeStays DEF Block
<1>3. /\ M \in 1..256 /\ N \in 1..256
      /\ rows \in Nat /\ cols \in Nat /\ rows < N /\ Block \in {4, 8, 16}
      /\ rows % Block = 0
  BY <1>1, <1>2, ShapeFacts, OnDiagonal DEF LoopInv, Loops
<1>4. Arrays'
  BY <1>1 DEF Arrays, LoopInv, SameShape
<1>5. Loops'
  <2>1. (rows + Block) % Block = 0 /\ 0 % Block = 0
    BY <1>3
  <2> QED
    BY <1>1, <1>2, <1>3, <2>1 DEF Loops, SameShape
<1>6. Places' /\ Kept'
  BY <1>1, <1>3 DEF Places, Kept
<1>7. Copied'
  <2> SUFFICES ASSUME Fits, NEW a \in 0..(N - 1), NEW c \in 0..(M - 1), Passed(a, c)'
               PROVE  B[c * N + a] = A[a * M + c]
    BY <1>1, <1>2 DEF Copied, SameShape
  <2>1. a < rows + Block /\ c < cols + Block
    BY <1>1, <1>2, <1>3 DEF Passed
  <2> QED
    BY <1>1, <2>1, BlockCopied
<1>8. Spoilt'
  BY <1>1, <1>2, <1>3 DEF Spoilt, LastRow
<1> QED
  BY <1>4, <1>5, <1>6, <1>7, <1>8 DEF LoopInv

-----------------------------------------------------------------------------
LEMMA LoadDiagonalInv == ASSUME LoopInv, load_diagonal PROVE LoopInv'
<1>1. /\ SameShape /\ rows' = rows /\ cols' = cols /\ x' = x /\ y' = y + 1 /\ B' = B
      /\ temp' = A[x * M + y] /\ i' = x /\ at' = "load"
      /\ InRows /\ InCols /\ fn = 0 /\ x = y
  BY DEF load_diagonal, SameShape, Loading
<1>2. A' = A /\ Block' = Block /\ (Fits' <=> Fits) /\ Side(M)' = Side(M)
  BY <1>1, ShapeStays
<1>3. /\ M \in 1..256 /\ N \in 1..256 /\ Block \in {4, 8, 16} /\ LastRow # cols
      /\ rows \in Nat /\ cols \in Nat /\ x \in Nat /\ y \in Nat /\ rows <= x /\ cols <= y
      /\ x < rows + Block /\ y < cols + Block /\ y < M /\ (Fits => x < N)
  BY <1>1, ShapeFacts, OnDiagonal, InBlock DEF LoopInv, Loops
<1>4. Arrays'
  BY <1>1 DEF Arrays, LoopInv, SameShape
<1>5. Loops'
  BY <1>1, <1>2, <1>3 DEF Loops, LoopInv, SameShape
<1>6. Places'
  BY <1>1 DEF Places
<1>7. Kept'
  BY <1>1, <1>2, <1>3 DEF Kept, SameShape
<1>8. Copied'
  <2> SUFFICES ASSUME Fits, NEW a \in 0..(N - 1), NEW c \in 0..(M - 1), Passed(a, c)'
               PROVE  B[c * N + a] = A[a * M + c]
    BY <1>1, <1>2 DEF Copied, SameShape
  <2>1. Passed(a, c)
    BY <1>1, <1>2, <1>3 DEF Passed, SameShape
  <2> QED
    BY <2>1 DEF LoopInv, Copied
<1>9. Spoilt'
  <2> SUFFICES ASSUME ~Fits, rows + Block >= N, cols + Block >= M, x = LastRow
               PROVE  B[cols * N + LastRow] = 0
    BY <1>1, <1>2, <1>3 DEF Spoilt, LastRow, SameShape
  <2>1. y > cols
    BY <1>1, <1>3
  <2> QED
    BY <2>1 DEF LoopInv, Spoilt
<1> QED
  BY <1>4, <1>5, <1>6, <1>7, <1>8, <1>9 DEF LoopInv

\* A store changes one cell, if the cell is kept.
LEMMA OneCell ==
  ASSUME Arrays, NEW k \in Nat, NEW value, B' = [B EXCEPT ![k] = value], SameShape
  PROVE  /\ Arrays'
         /\ k \in 0..(Cells - 1) => B'[k] = value
         /\ \A n \in Nat : n # k => B'[n] = B[n]
<1>1. DOMAIN B = 0..(Cells - 1)
  BY DEF Arrays
<1>2. B' = [n \in 0..(Cells - 1) |-> B'[n]]
  BY <1>1
<1>3. Arrays'
  BY <1>2 DEF Arrays, SameShape
<1> QED
  BY <1>1, <1>3

LEMMA StoreInv == ASSUME LoopInv, store PROVE LoopInv'
<1>1. /\ SameShape /\ rows' = rows /\ cols' = cols /\ x' = x /\ y' = y + 1
      /\ B' = [B EXCEPT ![y * N + x] = element]
      /\ temp' = temp /\ i' = i /\ at = "store" /\ at' = "load"
  BY DEF store, SameShape
<1>2. A' = A /\ Block' = Block /\ (Fits' <=> Fits) /\ Side(M)' = Side(M)
  BY <1>1, ShapeStays
<1>3. InRows /\ InCols /\ (fn = 0 => x # y) /\ element = A[x * M + y]
  BY <1>1 DEF LoopInv, Places
<1>4. /\ M \in 1..256 /\ N \in 1..256 /\ Cells \in Nat /\ M * N <= Cells /\ Block \in Nat \ {0}
      /\ rows \in Nat /\ cols \in Nat /\ x \in Nat /\ y \in Nat /\ rows <= x /\ cols <= y
      /\ x < rows + Block /\ y < cols + Block /\ y < M /\ (Fits => x < N) /\ fn \in {0, 1}
  BY <1>3, ShapeFacts, BlockNat, InBlock DEF LoopInv, Loops
<1>5. y * N + x \in Nat
  BY <1>4
<1>6. /\ Arrays'
      /\ y * N + x \in 0..(Cells - 1) => B'[y * N + x] = element
      /\ \A n \in Nat : n # y * N + x => B'[n] = B[n]
  BY <1>1, <1>5, OneCell DEF LoopInv
<1>7. Loops'
  BY <1>1, <1>2, <1>4 DEF Loops, LoopInv, SameShape
<1>8. Places'
  BY <1>1 DEF Places
<1>9. Kept'
  <2>1. fn = 0 /\ y + 1 > x => y > x
    BY <1>3, <1>4
  <2> QED
    BY <1>1, <1>2, <2>1 DEF Kept, LoopInv, SameShape
<1>10. Copied'
  <2> SUFFICES ASSUME Fits, NEW a \in 0..(N - 1), NEW c \in 0..(M - 1), Passed(a, c)'
               PROVE  B'[c * N + a] = A[a * M + c]
    BY <1>1, <1>2 DEF Copied, SameShape
  <2>1. x < N /\ a \in Nat /\ a < N /\ c \in Nat /\ c < M /\ N \in Nat /\ M \in Nat
    BY <1>4
  <2>2. c * N + a \in Nat /\ y * N + x < M * N
    BY <1>4, <2>1, CellInside
  <2>3. CASE a = x /\ c = y
    BY <1>3, <1>4, <1>5, <1>6, <2>2, <2>3
  <2>4. CASE ~(a = x /\ c = y)
    <3>1. c * N + a # y * N + x
      BY <1>4, <2>1, <2>4, CellsApart
    <3>2. Passed(a, c)
      BY <1>1, <1>2, <1>4, <2>4 DEF Passed, SameShape
    <3> QED
      BY <1>6, <2>2, <3>1, <3>2 DEF LoopInv, Copied
  <2> QED
    BY <2>3, <2>4
<1>11. Spoilt'
  <2> SUFFICES ASSUME ~Fits, rows + Block >= N, cols + Block >= M, x = LastRow
               PROVE  B'[cols * N + LastRow] = 0
    BY <1>1, <1>2, <1>4 DEF Spoilt, LastRow, SameShape
  <2>1. A[LastRow * M + cols] = 0 /\ cols * N + LastRow \in 0..(Cells - 1)
    BY SpoiltCells DEF LoopInv
  <2>2. CASE y = cols
    BY <1>3, <1>6, <2>1, <2>2
  <2>3. CASE y > cols
    <3>1. cols * N + x # y * N + x
      BY <1>4, <2>3, RowsGrow
    <3>2. B[cols * N + LastRow] = 0
      BY <2>3 DEF LoopInv, Spoilt
    <3> QED
      BY <1>4, <1>6, <3>1, <3>2
  <2> QED
    BY <1>4, <2>2, <2>3
<1> QED
  BY <1>6, <1>7, <1>8, <1>9, <1>10, <1>11 DEF LoopInv

\* At the end of a row what is kept of the diagonal is right, and of this row
\* when the row meets the diagonal.
LEMMA KeptIsRight ==
  ASSUME LoopInv, InRows, ~InCols, fn = 0, rows = cols
  PROVE  /\ i \in Nat /\ rows <= i /\ i <= x /\ i < M /\ temp = A[i * M + i] /\ (Fits => i < N)
         /\ M \in {32, 64} => i = x
         /\ x < M => i = x
<1>1. /\ M \in 1..256 /\ Block = Side(M) /\ rows \in Nat /\ cols \in Nat /\ x \in Nat /\ y \in Nat
      /\ cols < M /\ x < rows + Block /\ Block \in {4, 8, 16}
  BY ShapeFacts, OnDiagonal, InBlock DEF LoopInv, Loops, Block
<1>2. y >= cols + Block \/ (M \notin {32, 64} /\ y >= M)
  BY <1>1 DEF InCols
<1>3. (M \in {32, 64} => y > x) /\ (x < M => y > x) /\ (y > x \/ x > rows)
  BY <1>1, <1>2
<1> QED
  BY <1>1, <1>3 DEF LoopInv, Kept

LEMMA EndOfRowInv == ASSUME LoopInv, end_of_row PROVE LoopInv'
<1>1. /\ SameShape /\ rows' = rows /\ cols' = cols /\ x' = x + 1 /\ y' = (IF fn = 0 THEN cols ELSE 0)
      /\ B' = (IF fn = 0 /\ cols = rows THEN [B EXCEPT ![i * N + i] = temp] ELSE B)
      /\ temp' = temp /\ i' = i /\ at' = "load" /\ InRows /\ ~InCols
  BY DEF end_of_row, SameShape, Loading
<1>2. A' = A /\ Block' = Block /\ (Fits' <=> Fits) /\ Side(M)' = Side(M)
  BY <1>1, ShapeStays
<1>3. /\ M \in 1..256 /\ N \in 1..256 /\ Cells \in Nat /\ M * N <= Cells /\ Block \in Nat \ {0}
      /\ rows \in Nat /\ cols \in Nat /\ x \in Nat /\ y \in Nat /\ rows <= x /\ cols <= y
      /\ x < rows + Block /\ fn \in {0, 1} /\ (fn = 1 => cols = 0 /\ rows = 0)
  BY <1>1, ShapeFacts, BlockNat, InBlock DEF LoopInv, Loops
<1>4. y' = cols
  BY <1>1, <1>3
<1>5. y >= cols + Block \/ y >= M
  BY <1>1, <1>3 DEF InCols, Block
<1>6. ASSUME fn = 0, cols = rows
      PROVE  /\ i \in Nat /\ rows <= i /\ i <= x /\ i < M /\ temp = A[i * M + i] /\ (Fits => i < N)
             /\ (M \in {32, 64} => i = x) /\ (x < M => i = x)
             /\ Arrays'
             /\ i * N + i \in 0..(Cells - 1) => B'[i * N + i] = temp
             /\ \A n \in Nat : n # i * N + i => B'[n] = B[n]
  <2>1. /\ i \in Nat /\ rows <= i /\ i <= x /\ i < M /\ temp = A[i * M + i] /\ (Fits => i < N)
        /\ (M \in {32, 64} => i = x) /\ (x < M => i = x)
    BY <1>1, <1>6, KeptIsRight
  <2>2. i * N + i \in Nat /\ B' = [B EXCEPT ![i * N + i] = temp] /\ Arrays
    BY <1>1, <1>3, <1>6, <2>1 DEF LoopInv
  <2>3. /\ Arrays'
        /\ i * N + i \in 0..(Cells - 1) => B'[i * N + i] = temp
        /\ \A n \in Nat : n # i * N + i => B'[n] = B[n]
    BY <1>1, <2>2, OneCell
  <2> QED
    BY <2>1, <2>3
<1>7. Arrays'
  <2>1. CASE fn = 0 /\ cols = rows
    BY <1>6, <2>1
  <2>2. CASE ~(fn = 0 /\ cols = rows)
    BY <1>1, <2>2 DEF LoopInv, Arrays, SameShape
  <2> QED
    BY <2>1, <2>2
<1>8. Loops'
  BY <1>1, <1>2, <1>3, <1>4 DEF Loops, LoopInv, SameShape
<1>9. Places'
  BY <1>1 DEF Places
<1>10. Kept'
  <2> SUFFICES ASSUME fn = 0, cols = rows
               PROVE  /\ i \in rows..(x + 1) /\ i < M /\ temp = A[i * M + i] /\ (Fits => i < N)
                      /\ ~(cols > x + 1)
    BY <1>1, <1>2, <1>4 DEF Kept, SameShape
  <2> QED
    BY <1>3, <1>6
<1>11. Copied'
  <2> SUFFICES ASSUME Fits, NEW a \in 0..(N - 1), NEW c \in 0..(M - 1), Passed(a, c)'
               PROVE  B'[c * N + a] = A[a * M + c]
    BY <1>1, <1>2 DEF Copied, SameShape
  <2>1. a \in Nat /\ a < N /\ c \in Nat /\ c < M /\ N \in Nat /\ M \in Nat
    BY <1>3
  <2>2. c * N + a \in Nat
    BY <2>1
  <2>3. Passed(a, c) \/ (a = x /\ cols <= c /\ c < cols + Block)
    BY <1>1, <1>2, <1>3, <1>4, <2>1 DEF Passed, SameShape
  <2>4. Passed(a, c) \/ (fn = 0 /\ a = x /\ c = x /\ cols <= x /\ x < cols + Block)
    <3>1. c < y \/ c >= cols + Block
      BY <1>5, <2>1, <1>3
    <3> QED
      BY <1>3, <2>1, <2>3, <3>1 DEF Passed
  <2>5. Passed(a, c) => B[c * N + a] = A[a * M + c]
    BY DEF LoopInv, Copied
  <2>6. CASE ~(fn = 0 /\ cols = rows)
    <3>1. Passed(a, c)
      <4>1. fn = 0 => rows + Block <= cols \/ cols + Block <= rows
        BY <2>6, OnDiagonal DEF LoopInv
      <4> QED
        BY <1>3, <2>4, <4>1
    <3> QED
      BY <1>1, <2>5, <2>6, <3>1
  <2>7. CASE fn = 0 /\ cols = rows
    <3>1. /\ i \in Nat /\ i < M /\ i < N /\ temp = A[i * M + i] /\ (x < M => i = x)
          /\ i * N + i \in 0..(Cells - 1) => B'[i * N + i] = temp
          /\ \A n \in Nat : n # i * N + i => B'[n] = B[n]
      BY <1>6, <2>7
    <3>2. CASE a = i /\ c = i
      <4>1. i * N + i \in Nat /\ i * N + i < M * N
        BY <2>1, <3>1, CellInside
      <4> QED
        BY <1>3, <3>1, <3>2, <4>1
    <3>3. CASE ~(a = i /\ c = i)
      <4>1. Passed(a, c)
        BY <2>1, <2>4, <3>1, <3>3
      <4>2. c * N + a # i * N + i
        BY <2>1, <3>1, <3>3, CellsApart
      <4> QED
        BY <2>2, <2>5, <3>1, <4>1, <4>2
    <3> QED
      BY <3>2, <3>3
  <2> QED
    BY <2>6, <2>7
<1>12. Spoilt'
  <2> SUFFICES ASSUME ~Fits, rows + Block >= N, cols + Block >= M, x = LastRow
               PROVE  B'[cols * N + LastRow] = 0
    BY <1>1, <1>2, <1>3, <1>4 DEF Spoilt, LastRow, SameShape
  <2>1. M \in {32, 64} /\ fn = 0 /\ LastRow # cols /\ cols * N + LastRow \in 0..(Cells - 1)
    BY LastBlock, OnDiagonal, SpoiltCells DEF LoopInv
  <2>2. y > cols
    BY <1>1, <1>3, <2>1 DEF InCols, Block
  <2>3. B[cols * N + LastRow] = 0
    BY <2>2 DEF LoopInv, Spoilt
  <2>4. CASE cols = rows
    <3>1. i = x /\ i * N + i # cols * N + LastRow
      <4>1. i = x
        BY <1>6, <2>1, <2>4
      <4>2. cols < x
        BY <1>3, <2>1, <2>4
      <4>3. cols * N + x # x * N + x
        BY <1>3, <4>2, RowsGrow
      <4> QED
        BY <4>1, <4>3
    <3> QED
      BY <1>3, <1>6, <2>1, <2>3, <2>4, <3>1
  <2>5. CASE cols # rows
    BY <1>1, <2>3, <2>5
  <2> QED
    BY <2>4, <2>5
<1> QED
  BY <1>7, <1>8, <1>9, <1>10, <1>11, <1>12 DEF LoopInv

LEMMA LoopInvNext == LoopInv /\ tracegen => LoopInv'
BY CallsInv, LoadInv, StoreInv, LoadDiagonalInv, EndOfRowInv, NextBlockInv, NextRowsInv, ReturnsInv
   DEF tracegen

-----------------------------------------------------------------------------
\* Where the spoilt cell lies in the transpose: not in row cols, which is full.
LEMMA SpoiltElement ==
  ASSUME Arrays, Loops, ~Fits, rows + Block >= N, cols + Block >= M
  PROVE  \E j \in 0..(M - 1), k \in 0..(N - 1) : cols * N + LastRow = j * N + k
<1>1. M \in 1..256 /\ N \in 1..256
  BY ShapeFacts
<1>2. /\ cols + Block = M /\ N <= LastRow /\ LastRow < N + Block - 1 /\ LastRow \in Nat
      /\ Block \in {4, 8} /\ LastRow = rows + Block - 1 /\ cols \in Nat /\ rows \in Nat
      /\ rows % Block = 0 /\ rows < N
  <2>1. Block = Side(M)
    BY LastBlock DEF Block
  <2> QED
    BY <2>1, LastBlock DEF Loops
<1>3. \E d \in 1..(Block - 1), k \in 0..(N - 1) : LastRow = d * N + k
  <2>1. CASE N >= Block
    <3>1. LastRow = 1 * N + (LastRow - N) /\ LastRow - N \in 0..(N - 1) /\ 1 \in 1..(Block - 1)
      BY <1>1, <1>2, <2>1
    <3> QED
      BY <3>1
  <2>2. CASE N < Block
    <3>1. LastRow = Block - 1 /\ N \in 1..7
      BY <1>1, <1>2, <2>2
    <3>2. CASE Block = 4
      <4>1. LastRow = 3 /\ N \in {1, 2, 3}
        BY <2>2, <3>1, <3>2
      <4>2. 3 = 3 * 1 + 0 /\ 3 = 1 * 2 + 1 /\ 3 = 1 * 3 + 0
        OBVIOUS
      <4> QED
        BY <3>2, <4>1, <4>2
    <3>3. CASE Block = 8
      <4>1. LastRow = 7 /\ N \in {1, 2, 3, 4, 5, 6, 7}
        BY <2>2, <3>1, <3>3
      <4>2. /\ 7 = 7 * 1 + 0 /\ 7 = 3 * 2 + 1 /\ 7 = 2 * 3 + 1 /\ 7 = 1 * 4 + 3
            /\ 7 = 1 * 5 + 2 /\ 7 = 1 * 6 + 1 /\ 7 = 1 * 7 + 0
        OBVIOUS
      <4> QED
        BY <3>3, <4>1, <4>2
    <3> QED
      BY <1>2, <3>2, <3>3
  <2> QED
    BY <1>1, <1>2, <2>1, <2>2
<1>4. PICK d \in 1..(Block - 1), k \in 0..(N - 1) : LastRow = d * N + k
  BY <1>3
<1>5. cols + d \in 0..(M - 1) /\ cols * N + LastRow = (cols + d) * N + k
  BY <1>1, <1>2, <1>4
<1> QED
  BY <1>5

\* tracegen accepts the result where the blocks fit and nowhere else.
LEMMA LoopInvTransposes == ASSUME LoopInv, at = "exit" PROVE validate <=> Fits
<1>1. /\ M \in 1..256 /\ N \in 1..256 /\ Cells \in Nat /\ N * M <= Cells /\ Block \in Nat \ {0}
      /\ rows \in Nat /\ cols \in Nat /\ x \in Nat /\ fn \in {0, 1} /\ (fn = 1 => cols = 0 /\ rows = 0)
  BY ShapeFacts, BlockNat DEF LoopInv, Loops
<1>2. ~InRows /\ rows + Block >= N /\ cols + Block >= M
  BY <1>1 DEF LoopInv, Places, Block
<1>3. ASSUME Fits PROVE validate
  <2> SUFFICES ASSUME NEW c \in 0..(M - 1), NEW a \in 0..(N - 1)
               PROVE  B[c * N + a] = A[a * M + c]
    BY DEF validate
  <2>1. a < rows + Block /\ c < cols + Block
    BY <1>1, <1>2
  <2> QED
    BY <1>2, <1>3, <2>1, BlockCopied
<1>4. ASSUME ~Fits PROVE ~validate
  <2>1. PICK c \in 0..(M - 1), a \in 0..(N - 1) : cols * N + LastRow = c * N + a
    BY <1>2, <1>4, SpoiltElement DEF LoopInv
  <2>2. x > LastRow
    BY <1>1, <1>2, <1>4, LastBlock DEF LoopInv, InRows, Block
  <2>3. B[c * N + a] = 0
    BY <1>2, <1>4, <2>1, <2>2 DEF LoopInv, Spoilt
  <2>4. a * M + c \in Nat /\ a * M + c < N * M
    BY <1>1, CellInside
  <2>5. A[a * M + c] = a * M + c + 1
    BY <1>1, <2>4 DEF A
  <2> QED
    BY <2>3, <2>4, <2>5 DEF validate
<1> QED
  BY <1>3, <1>4

-----------------------------------------------------------------------------
\* Every element that the functions of trans.c load or store lies in the cells of
\* A and B that are kept, also where blocks reach over the last row.
StaysInside ==
  /\ Loading /\ InRows /\ InCols => x * M + y \in 0..(Cells - 1)
  /\ at = "store" => y * N + x \in 0..(Cells - 1)
  /\ Loading /\ InRows /\ ~InCols /\ fn = 0 /\ cols = rows => i * N + i \in 0..(Cells - 1)

\* A row that is not in the matrix is at most a block away from it.
LEMMA CellsSuffice ==
  ASSUME Arrays, NEW r \in Nat, NEW c \in Nat, c < M,
         \/ r < N
         \/ M = 32 /\ r < N + 7
         \/ M = 64 /\ r < N + 3
  PROVE  r * M + c \in 0..(Cells - 1) /\ c * N + r \in 0..(Cells - 1)
<1>1. /\ M \in 1..256 /\ N \in 1..256 /\ Cells \in Nat /\ M * N <= Cells /\ N * M <= Cells
      /\ M = 32 => 32 * (N + 7) <= Cells
      /\ M = 64 => 64 * (N + 3) <= Cells
  BY ShapeFacts
<1>2. CASE r < N
  <2>1. r * M + c \in Nat /\ r * M + c < N * M
    BY <1>1, <1>2, CellInside
  <2>2. c * N + r \in Nat /\ c * N + r < M * N
    BY <1>1, <1>2, CellInside
  <2> QED
    BY <1>1, <2>1, <2>2
<1>3. c * N \in Nat /\ c * N + N <= M * N
  BY <1>1, RowsGrow
<1>4. CASE M = 32 /\ r < N + 7
  BY <1>1, <1>3, <1>4
<1>5. CASE M = 64 /\ r < N + 3
  BY <1>1, <1>3, <1>5
<1> QED
  BY <1>2, <1>4, <1>5

LEMMA RowsInReach ==
  ASSUME Arrays, Loops, InRows
  PROVE  x < N \/ (M = 32 /\ x < N + 7) \/ (M = 64 /\ x < N + 3)
<1>1. M \in 1..256 /\ N \in 1..256 /\ x \in Nat /\ rows \in Nat /\ rows < N /\ (fn = 1 => x < N)
      /\ fn \in {0, 1}
  BY ShapeFacts, InBlock DEF Loops
<1>2. CASE M = 32
  BY <1>1, <1>2, SideFacts DEF InRows
<1>3. CASE M = 64
  BY <1>1, <1>3, SideFacts DEF InRows
<1>4. CASE M \notin {32, 64}
  BY <1>1, <1>4 DEF InRows
<1> QED
  BY <1>2, <1>3, <1>4

LEMMA LoopInvStaysInside == LoopInv => StaysInside
<1> SUFFICES ASSUME LoopInv, InRows
             PROVE  /\ InCols => x * M + y \in 0..(Cells - 1) /\ y * N + x \in 0..(Cells - 1)
                    /\ ~InCols /\ fn = 0 /\ cols = rows => i * N + i \in 0..(Cells - 1)
  BY DEF StaysInside, LoopInv, Places
<1>1. /\ x \in Nat /\ y \in Nat /\ M \in 1..256 /\ N \in 1..256
      /\ x < N \/ (M = 32 /\ x < N + 7) \/ (M = 64 /\ x < N + 3)
  BY RowsInReach, ShapeFacts DEF LoopInv, Loops
<1>2. ASSUME InCols PROVE x * M + y \in 0..(Cells - 1) /\ y * N + x \in 0..(Cells - 1)
  <2>1. y < M
    BY <1>2, InBlock DEF LoopInv
  <2> QED
    BY <1>1, <2>1, CellsSuffice DEF LoopInv
<1>3. ASSUME ~InCols, fn = 0, cols = rows PROVE i * N + i \in 0..(Cells - 1)
  <2>1. i \in Nat /\ i <= x /\ i < M
    BY <1>3, KeptIsRight
  <2>2. i < N \/ (M = 32 /\ i < N + 7) \/ (M = 64 /\ i < N + 3)
    BY <1>1, <2>1
  <2> QED
    BY <2>1, <2>2, CellsSuffice DEF LoopInv
<1> QED
  BY <1>2, <1>3

-----------------------------------------------------------------------------
(* test-trans.c                                                              *)

\* How far the run is, and what it has printed.
Stages ==
  /\ shape \in Shapes /\ f \in 0..func_counter
  /\ stage \in {"next", "tracing", "traced", "simulate", "collect", "aborted", "summary", "exited"}
  /\ stage = "tracing" => at # "off" /\ fn = f /\ M = shape[1] /\ N = shape[2]
  /\ stage \in {"tracing", "traced", "simulate", "collect"} => f < func_counter
  /\ stage \notin {"summary", "exited"} => lines = <<>>
  /\ stage = "summary" => lines = <<results>> /\ f = func_counter
  /\ stage = "exited" /\ lines[1] # [correct |-> 0, misses |-> 0] =>
       lines[1] = results /\ f = func_counter

Excused == "killed" \in faults
NotItsOwn == faults \cap {"csim-ref failed", "leftover"} # {} \/ Excused

\* The submission is flagged when its status was 0.
Flag ==
  /\ results = [correct |-> results.correct, misses |-> results.misses] /\ results.correct \in {0, 1}
  /\ results.correct = 1 => ShapeIsGood \/ Excused
  /\ f = submit /\ stage \in {"traced", "simulate", "collect"} => ShapeIsGood \/ Excused

\* Its misses go from the trace through the file of csim-ref to the results.
Count ==
  /\ f = submit => results.misses = INT_MAX
  /\ f = submit /\ stage \in {"traced", "simulate"} => trace = counted \/ NotItsOwn
  /\ f = submit /\ stage = "collect" => csim_results = counted \/ NotItsOwn
  /\ f > submit => results.misses \in {counted, INT_MAX} \/ NotItsOwn

\* What is known of a run without a fault.
NoFault ==
  faults = {} =>
    /\ f = submit /\ stage \in {"next", "tracing", "traced"} => results.correct = 0
    /\ f = submit /\ stage \in {"traced", "simulate", "collect"} => ShapeIsGood
    /\ f = submit /\ stage \in {"simulate", "collect"} => results.correct = 1
    /\ f = submit /\ stage \in {"traced", "simulate"} => trace = counted
    /\ f = submit /\ stage = "collect" => csim_results = counted
    /\ f > submit => results = IF ShapeIsGood THEN [correct |-> 1, misses |-> counted]
                                                ELSE [correct |-> 0, misses |-> INT_MAX]

Told == Flag /\ Count /\ NoFault
EvalInv == TracegenInv /\ Stages /\ Told

LEMMA EvalInvInit == EvalInit => EvalInv
<1> SUFFICES ASSUME EvalInit
             PROVE  EvalInv
  OBVIOUS
<1>1. at = "off"
  BY DEF EvalInit, Off
<1>2. /\ shape \in Shapes /\ stage = "next" /\ f = 0 /\ lines = <<>> /\ faults = {}
      /\ results = [correct |-> 0, misses |-> INT_MAX]
  BY DEF EvalInit
<1>3. Stages
  BY <1>2 DEF Stages, func_counter
<1>4. Told
  BY <1>2 DEF Told, Flag, Count, NoFault, submit
<1> QED
  BY <1>1, <1>3, <1>4 DEF EvalInv, TracegenInv

\* A fault stays, and is kept only for the submission.
LEMMA FaultAdds ==
  ASSUME NEW fault, Fault(fault)
  PROVE  faults \subseteq faults' /\ (f = submit => fault \in faults') /\ (f # submit => faults' = faults)
BY DEF Fault

LEMMA FaultsStay ==
  ASSUME EvalNext \/ UNCHANGED eval_vars
  PROVE  /\ shape' = shape
         /\ faults \subseteq faults' /\ (f # submit => faults' = faults)
<1>1. shape' = shape
  BY DEF EvalNext, eval_vars, test_vars, starts_tracegen, no_valgrind, traces, tracegen_exits,
         tracegen_killed, filters, csim_ref, collects, collects_nothing, summary, main_returns,
         sigalrm_handler, leftover_ends
<1>2. faults' = faults \/ \E fault : Fault(fault)
  BY DEF EvalNext, eval_vars, test_vars, starts_tracegen, no_valgrind, traces, tracegen_exits,
         tracegen_killed, filters, csim_ref, collects, collects_nothing, summary, main_returns,
         sigalrm_handler, leftover_ends
<1> QED
  BY <1>1, <1>2, FaultAdds

LEMMA ExcusesStay ==
  ASSUME EvalNext \/ UNCHANGED eval_vars
  PROVE  /\ ShapeIsGood' <=> ShapeIsGood
         /\ Excused => Excused'
         /\ NotItsOwn => NotItsOwn'
BY FaultsStay DEF ShapeIsGood, Excused, NotItsOwn

LEMMA TracegenEndsOff == ASSUME TracegenEnds PROVE at' = "off"
BY DEF TracegenEnds

LEMMA TracegenInvNext == ASSUME TracegenInv, Stages, EvalNext \/ UNCHANGED eval_vars PROVE TracegenInv'
<1>1. CASE UNCHANGED tracegen_vars
  <2>1. LoopInv => LoopInv'
    BY <1>1, ReadsInv DEF tracegen_vars, SameShape
  <2>2. at' = at
    BY <1>1 DEF tracegen_vars
  <2> QED
    BY <2>1, <2>2 DEF TracegenInv
<1>2. CASE TracegenEnds
  BY <1>2, TracegenEndsOff DEF TracegenInv
<1>3. CASE starts_tracegen
  <2>1. shape \in Shapes /\ f \in {0, 1} /\ main(shape, f)
    BY <1>3 DEF starts_tracegen, Stages, func_counter
  <2> QED
    BY <2>1, MainInv DEF TracegenInv
<1>4. CASE traces
  <2>1. tracegen /\ at # "off"
    BY <1>4 DEF traces, Stages
  <2> QED
    BY <2>1, LoopInvNext DEF TracegenInv
<1>5. \/ UNCHANGED tracegen_vars
      \/ TracegenEnds
      \/ starts_tracegen
      \/ traces
  BY DEF EvalNext, eval_vars, no_valgrind, tracegen_exits,
         tracegen_killed, filters, csim_ref, collects, collects_nothing, summary, main_returns,
         sigalrm_handler, leftover_ends
<1> QED
  BY <1>1, <1>2, <1>3, <1>4, <1>5

\* Steps that change neither what is known of the submission nor what is printed.
LEMMA QuietSteps ==
  ASSUME Stages, Told, starts_tracegen \/ collects_nothing \/ UNCHANGED eval_vars
  PROVE  Stages' /\ Told'
<1>1. /\ ShapeIsGood' <=> ShapeIsGood
      /\ Excused => Excused'
      /\ NotItsOwn => NotItsOwn'
      /\ shape' = shape
  BY ExcusesStay, FaultsStay DEF EvalNext
<1>2. /\ f' = f /\ results' = results /\ trace' = trace /\ csim_results' = csim_results /\ lines' = lines
      /\ counted' = counted /\ faults' = faults
      /\ \/ stage = "next" /\ stage' = "tracing" /\ f < func_counter /\ main(shape, f)
         \/ stage = "collect" /\ stage' = "aborted"
         \/ stage' = stage /\ UNCHANGED tracegen_vars
  BY DEF starts_tracegen, collects_nothing, eval_vars, test_vars
<1>3. Stages'
  <2>1. CASE main(shape, f) /\ stage' = "tracing" /\ stage = "next" /\ f < func_counter
    <3>1. at' # "off" /\ fn' = f /\ M' = shape[1] /\ N' = shape[2]
      BY <2>1 DEF main
    <3> QED
      BY <1>1, <1>2, <2>1, <3>1 DEF Stages
  <2>2. CASE UNCHANGED tracegen_vars /\ stage' = stage
    <3>1. at' = at /\ fn' = fn /\ M' = M /\ N' = N
      BY <2>2 DEF tracegen_vars
    <3> QED
      BY <1>1, <1>2, <2>2, <3>1 DEF Stages
  <2>3. CASE stage = "collect" /\ stage' = "aborted"
    BY <1>1, <1>2, <2>3 DEF Stages
  <2> QED
    BY <1>2, <2>1, <2>2, <2>3
<1>4. Told'
  BY <1>1, <1>2 DEF Told, Flag, Count, NoFault
<1> QED
  BY <1>3, <1>4

LEMMA TracesStep == ASSUME TracegenInv, Stages, Told, traces PROVE Stages' /\ Told'
<1>1. /\ ShapeIsGood' <=> ShapeIsGood
      /\ Excused => Excused'
      /\ NotItsOwn => NotItsOwn'
  BY ExcusesStay DEF EvalNext
<1>2. /\ shape' = shape /\ f' = f /\ results' = results /\ trace' = trace /\ csim_results' = csim_results
      /\ lines' = lines /\ counted' = counted /\ faults' = faults /\ stage' = stage /\ stage = "tracing"
      /\ tracegen
  BY DEF traces, test_vars
<1>3. at' # "off" /\ M' = M /\ N' = N /\ fn' = fn
  <2>1. LoopInv'
    BY <1>2, LoopInvNext DEF TracegenInv, Stages
  <2>2. M' = M /\ N' = N /\ fn' = fn
    BY <1>2 DEF tracegen, calls, load, store, load_diagonal, end_of_row, next_block, next_rows, returns
  <2> QED
    BY <2>1, <2>2 DEF LoopInv, Places
<1> QED
  BY <1>1, <1>2, <1>3 DEF Stages, Told, Flag, Count, NoFault

\* A function that is not run is not judged.
LEMMA NoValgrindStep == ASSUME Stages, Told, no_valgrind PROVE Stages' /\ Told'
<1>1. /\ ShapeIsGood' <=> ShapeIsGood
      /\ Excused => Excused'
      /\ NotItsOwn => NotItsOwn'
  BY ExcusesStay DEF EvalNext
<1>2. /\ shape' = shape /\ f' = f + 1 /\ f < func_counter /\ results' = results /\ lines' = lines
      /\ counted' = counted /\ stage' = "next" /\ stage = "next"
      /\ f = submit => faults' # {}
      /\ f # submit => faults' = faults
  <2>1. \E fault : Fault(fault)
    BY DEF no_valgrind
  <2> QED
    BY <2>1, FaultAdds DEF no_valgrind
<1>3. f \in {0, 1} /\ (f = 0 \/ f > 0) /\ f + 1 > 0 /\ f + 1 # 0 /\ f + 1 \in 0..2
  BY <1>2 DEF Stages, func_counter
<1> QED
  BY <1>1, <1>2, <1>3 DEF Stages, Told, Flag, Count, NoFault, submit, func_counter

LEMMA FiltersStep == ASSUME Stages, Told, filters PROVE Stages' /\ Told'
<1>1. /\ ShapeIsGood' <=> ShapeIsGood
      /\ Excused => Excused'
      /\ NotItsOwn => NotItsOwn'
  BY ExcusesStay DEF EvalNext
<1>2. /\ shape' = shape /\ f' = f /\ lines' = lines /\ trace' = trace
      /\ counted' = counted /\ stage' = "simulate" /\ stage = "traced" /\ faults' = faults
      /\ results' = IF f = submit THEN [results EXCEPT !.correct = 1] ELSE results
  BY DEF filters, Correct
<1>3. /\ results' = [correct |-> results'.correct, misses |-> results'.misses]
      /\ results'.misses = results.misses
      /\ results'.correct = IF f = submit THEN 1 ELSE results.correct
  BY <1>2 DEF Told, Flag
<1>4. Stages'
  BY <1>2 DEF Stages
<1>5. f \in {0, 1}
  BY <1>2 DEF Stages, func_counter
<1>6. Flag' /\ Count'
  BY <1>1, <1>2, <1>3, <1>5 DEF Told, Flag, Count, submit
<1>7. NoFault'
  BY <1>1, <1>2, <1>3, <1>5 DEF Told, NoFault, submit
<1> QED
  BY <1>4, <1>6, <1>7 DEF Told

\* The status of tracegen says of the submission whether its blocks fit.
LEMMA StatusIsRight ==
  ASSUME TracegenInv, Stages, stage = "tracing", at = "exit", f = submit
  PROVE  Status = 0 <=> ShapeIsGood
<1>1. LoopInv /\ fn = 0 /\ M = shape[1] /\ N = shape[2]
  BY DEF TracegenInv, Stages, submit
<1>2. validate <=> ShapeIsGood
  BY <1>1, LoopInvTransposes DEF Fits, ShapeIsGood
<1> QED
  BY <1>1, <1>2 DEF Status

LEMMA TracegenExitsStep == ASSUME TracegenInv, Stages, Told, tracegen_exits PROVE Stages' /\ Told'
<1>1. /\ ShapeIsGood' <=> ShapeIsGood
      /\ Excused => Excused'
      /\ NotItsOwn => NotItsOwn'
  BY ExcusesStay DEF EvalNext
<1>2. /\ shape' = shape /\ results' = results /\ lines' = lines /\ stage = "tracing" /\ at = "exit"
      /\ counted' = IF f = submit THEN misses ELSE counted
  BY DEF tracegen_exits
<1>3. f \in {0, 1} /\ submit = 0 /\ func_counter = 2
  BY <1>2 DEF Stages, func_counter, submit
<1>4. f = submit => (Status = 0 <=> ShapeIsGood)
  BY <1>2, StatusIsRight
<1>5. CASE Status = 0
  <2>1. /\ f' = f /\ stage' = "traced"
        /\ \/ trace' = misses /\ faults' = faults
           \/ f = submit => "leftover" \in faults'
    BY <1>5, FaultAdds DEF tracegen_exits
  <2>2. Stages'
    BY <1>2, <1>3, <2>1 DEF Stages
  <2>3. f # submit => faults' = faults
    BY FaultsStay DEF EvalNext
  <2>4. f = submit => trace' = counted' \/ NotItsOwn'
    BY <1>2, <2>1 DEF NotItsOwn
  <2>5. f = submit /\ faults' = {} => faults = {} /\ trace' = counted'
    BY <1>2, <2>1
  <2>6. Flag' /\ Count'
    BY <1>1, <1>2, <1>3, <1>4, <1>5, <2>1, <2>4 DEF Told, Flag, Count
  <2>7. NoFault'
    BY <1>1, <1>2, <1>3, <1>4, <1>5, <2>1, <2>3, <2>5 DEF Told, NoFault
  <2> QED
    BY <2>2, <2>6, <2>7 DEF Told
<1>6. CASE Status # 0
  <2>1. f' = f + 1 /\ stage' = "next" /\ trace' = trace /\ faults' = faults
    BY <1>6 DEF tracegen_exits
  <2>2. f' \in {1, 2}
    BY <1>3, <2>1
  <2>3. Stages'
    BY <1>2, <1>3, <2>1, <2>2 DEF Stages
  <2>4. Flag' /\ Count'
    BY <1>1, <1>2, <1>3, <2>1, <2>2 DEF Told, Flag, Count
  <2>5. NoFault'
    <3>1. CASE f = submit
      <4>1. faults = {} => results = [correct |-> 0, misses |-> INT_MAX]
        BY <1>2, <3>1 DEF Told, Flag, Count, NoFault
      <4>2. ~ShapeIsGood'
        BY <1>1, <1>4, <1>6, <3>1
      <4> QED
        BY <1>2, <1>3, <2>1, <2>2, <4>1, <4>2 DEF NoFault
    <3>2. CASE f = 1
      BY <1>1, <1>2, <1>3, <2>1, <2>2, <3>2 DEF Told, NoFault
    <3> QED
      BY <1>3, <3>1, <3>2
  <2> QED
    BY <2>3, <2>4, <2>5 DEF Told
<1> QED
  BY <1>5, <1>6

LEMMA TracegenKilledStep == ASSUME Stages, Told, tracegen_killed PROVE Stages' /\ Told'
<1>1. /\ ShapeIsGood' <=> ShapeIsGood
      /\ Excused => Excused'
      /\ NotItsOwn => NotItsOwn'
  BY ExcusesStay DEF EvalNext
<1>2. /\ shape' = shape /\ results' = results /\ lines' = lines /\ counted' = counted
      /\ stage = "tracing"
  BY FaultsStay DEF tracegen_killed, EvalNext
<1>3. (f = submit => "killed" \in faults') /\ (f # submit => faults' = faults)
  BY FaultAdds DEF tracegen_killed
<1>4. f \in {0, 1} /\ submit = 0 /\ func_counter = 2
  BY <1>2 DEF Stages, func_counter, submit
<1>5. CASE f' = f /\ stage' \in {"traced", "aborted"}
  <2>2. f = submit => Excused' /\ NotItsOwn'
    BY <1>2, <1>3, <1>5 DEF Excused, NotItsOwn
  <2>3. Stages'
    BY <1>2, <1>4, <1>5 DEF Stages
  <2>4. Flag' /\ Count'
    BY <1>1, <1>2, <1>4, <1>5, <2>2 DEF Told, Flag, Count
  <2>5. NoFault'
    BY <1>1, <1>2, <1>3, <1>4, <1>5 DEF Told, NoFault
  <2> QED
    BY <2>3, <2>4, <2>5 DEF Told
<1>6. CASE f' = f + 1 /\ stage' = "next"
  <2>2. f' \in {1, 2} /\ f' > 0 /\ (f # 0 => f > 0)
    BY <1>4, <1>6
  <2>3. Stages'
    BY <1>2, <1>4, <1>6, <2>2 DEF Stages
  <2>4. Flag' /\ Count'
    BY <1>1, <1>2, <1>4, <1>6, <2>2 DEF Told, Flag, Count
  <2>5. NoFault'
    BY <1>1, <1>2, <1>3, <1>4, <1>6, <2>2 DEF Told, NoFault
  <2> QED
    BY <2>3, <2>4, <2>5 DEF Told
<1>7. \/ f' = f /\ stage' \in {"traced", "aborted"}
      \/ f' = f + 1 /\ stage' = "next"
  BY DEF tracegen_killed
<1> QED
  BY <1>5, <1>6, <1>7

LEMMA CsimRefStep == ASSUME Stages, Told, csim_ref PROVE Stages' /\ Told'
<1>1. /\ ShapeIsGood' <=> ShapeIsGood
      /\ Excused => Excused'
      /\ NotItsOwn => NotItsOwn'
  BY ExcusesStay DEF EvalNext
<1>2. /\ shape' = shape /\ f' = f /\ results' = results /\ lines' = lines /\ counted' = counted
      /\ stage = "simulate" /\ stage' = "collect"
  BY DEF csim_ref
<1>3. /\ \/ csim_results' = trace /\ faults' = faults
         \/ f = submit => NotItsOwn' /\ faults' # {}
      /\ f # submit => faults' = faults
  BY FaultAdds DEF csim_ref, NotItsOwn
<1>4. f \in {0, 1} /\ submit = 0 /\ func_counter = 2
  BY <1>2 DEF Stages, func_counter, submit
<1>5. Stages'
  BY <1>2 DEF Stages
<1>6. Flag' /\ Count'
  BY <1>1, <1>2, <1>3, <1>4 DEF Told, Flag, Count
<1>7. NoFault'
  BY <1>1, <1>2, <1>3, <1>4 DEF Told, NoFault
<1> QED
  BY <1>5, <1>6, <1>7 DEF Told

LEMMA CollectsStep == ASSUME Stages, Told, collects PROVE Stages' /\ Told'
<1>1. /\ ShapeIsGood' <=> ShapeIsGood
      /\ Excused => Excused'
      /\ NotItsOwn => NotItsOwn'
  BY ExcusesStay DEF EvalNext
<1>2. /\ shape' = shape /\ f' = f + 1 /\ lines' = lines /\ counted' = counted /\ faults' = faults
      /\ stage = "collect" /\ stage' = "next"
      /\ results' = IF f = submit THEN [results EXCEPT !.misses = csim_results] ELSE results
  BY DEF collects
<1>3. f \in {0, 1} /\ f' \in {1, 2} /\ submit = 0 /\ func_counter = 2
  BY <1>2 DEF Stages, func_counter, submit
<1>4. /\ results' = [correct |-> results'.correct, misses |-> results'.misses]
      /\ results'.correct = results.correct
      /\ results'.misses = IF f = submit THEN csim_results ELSE results.misses
  BY <1>2 DEF Told, Flag
<1>5. Stages'
  BY <1>2, <1>3 DEF Stages
<1>6. Flag' /\ Count'
  BY <1>1, <1>2, <1>3, <1>4 DEF Told, Flag, Count
<1>7. NoFault'
  <2>1. CASE f = submit
    <3>1. faults = {} => ShapeIsGood /\ results.correct = 1 /\ csim_results = counted
      BY <1>2, <2>1 DEF Told, NoFault
    <3> QED
      BY <1>1, <1>2, <1>3, <1>4, <2>1, <3>1 DEF NoFault
  <2>2. CASE f = 1
    BY <1>1, <1>2, <1>3, <2>2 DEF Told, NoFault
  <2> QED
    BY <1>3, <2>1, <2>2
<1> QED
  BY <1>5, <1>6, <1>7 DEF Told

\* The lines are printed at the end.
LEMMA PrintsStep ==
  ASSUME Stages, Told, summary \/ main_returns \/ sigalrm_handler
  PROVE  Stages' /\ Told'
<1>1. /\ ShapeIsGood' <=> ShapeIsGood
      /\ Excused => Excused'
      /\ NotItsOwn => NotItsOwn'
  BY ExcusesStay DEF EvalNext
<1>2. /\ shape' = shape /\ f' = f /\ counted' = counted /\ faults' = faults /\ results' = results
      /\ \/ /\ stage = "next" /\ stage' = "summary" /\ f = func_counter
            /\ lines' = Append(lines, results)
         \/ stage = "summary" /\ stage' = "exited" /\ lines' = lines
         \/ /\ stage \notin {"exited", "aborted"} /\ stage' = "exited"
            /\ lines' = Append(lines, [correct |-> 0, misses |-> 0])
  BY DEF summary, main_returns, sigalrm_handler, Running
<1>3. Told'
  BY <1>1, <1>2 DEF Told, Flag, Count, NoFault
<1> SUFFICES Stages'
  BY <1>3
<1>4. ASSUME NEW r, NEW z
      PROVE  Append(<<>>, r) = <<r>> /\ <<r>>[1] = r /\ Append(<<r>>, z)[1] = r
  OBVIOUS
<1>5. CASE stage = "next"
  <2>1. CASE stage' = "summary"
    <3>1. lines' = <<results>> /\ f = func_counter
      BY <1>2, <1>4, <1>5, <2>1 DEF Stages
    <3> QED
      BY <1>2, <2>1, <3>1 DEF Stages
  <2>2. CASE stage' = "exited"
    <3>1. lines'[1] = [correct |-> 0, misses |-> 0]
      BY <1>2, <1>4, <1>5, <2>2 DEF Stages
    <3> QED
      BY <1>2, <2>2, <3>1 DEF Stages
  <2> QED
    BY <1>2, <1>5, <2>1, <2>2
<1>6. CASE stage = "summary"
  <2>1. lines = <<results>> /\ f = func_counter /\ stage' = "exited"
    BY <1>2, <1>6 DEF Stages
  <2>2. lines'[1] = results
    BY <1>2, <1>4, <1>6, <2>1
  <2> QED
    BY <1>2, <2>1, <2>2 DEF Stages
<1>7. CASE stage \notin {"next", "summary"}
  <2>1. stage' = "exited" /\ lines = <<>> /\ lines' = Append(lines, [correct |-> 0, misses |-> 0])
    BY <1>2, <1>7 DEF Stages
  <2>2. lines'[1] = [correct |-> 0, misses |-> 0]
    BY <1>4, <2>1
  <2> QED
    BY <1>2, <2>1, <2>2 DEF Stages
<1> QED
  BY <1>5, <1>6, <1>7

LEMMA LeftoverStep == ASSUME Stages, Told, leftover_ends PROVE Stages' /\ Told'
<1>1. /\ ShapeIsGood' <=> ShapeIsGood
      /\ Excused => Excused'
      /\ NotItsOwn => NotItsOwn'
  BY ExcusesStay DEF EvalNext
<1>2. /\ shape' = shape /\ f' = f /\ counted' = counted /\ results' = results /\ trace' = trace
      /\ lines' = lines /\ stage' = stage
      /\ at' = at /\ fn' = fn /\ M' = M /\ N' = N
  BY DEF leftover_ends, tracegen_vars
<1>3. /\ \/ csim_results' = csim_results /\ faults' = faults
         \/ f = submit => NotItsOwn' /\ faults' # {}
      /\ f # submit => faults' = faults
  BY FaultAdds DEF leftover_ends, NotItsOwn
<1>4. f \in {0, 1, 2} /\ submit = 0 /\ func_counter = 2
  BY DEF Stages, func_counter, submit
<1>5. Stages'
  BY <1>2 DEF Stages
<1>6. Told'
  BY <1>1, <1>2, <1>3, <1>4 DEF Told, Flag, Count, NoFault
<1> QED
  BY <1>5, <1>6

LEMMA EvalInvNext == EvalInv /\ [EvalNext]_eval_vars => EvalInv'
<1> SUFFICES ASSUME EvalInv, EvalNext \/ UNCHANGED eval_vars
             PROVE  EvalInv'
  OBVIOUS
<1>1. TracegenInv'
  BY TracegenInvNext DEF EvalInv
<1>2. Stages' /\ Told'
  BY QuietSteps, NoValgrindStep, TracesStep, TracegenExitsStep, TracegenKilledStep, FiltersStep,
     CsimRefStep, CollectsStep, PrintsStep, LeftoverStep DEF EvalInv, EvalNext
<1> QED
  BY <1>1, <1>2 DEF EvalInv

LEMMA EvalInvCorrect == EvalSpec => []EvalInv
BY EvalInvInit, EvalInvNext, PTL DEF EvalSpec

\* For every shape whose blocks fit, not only those that are tried: when tracegen
\* is done with a transposition of trans.c, B is the transpose of A.
THEOREM TransposesCorrect == EvalSpec => []Transposes
<1>1. ASSUME EvalInv, at = "exit", fn = 0 => (M = 32 => N % 8 = 0) /\ (M = 64 => N % 4 = 0)
      PROVE  validate
  <2>1. LoopInv
    BY <1>1 DEF EvalInv, TracegenInv
  <2>2. validate <=> Fits
    BY <1>1, <2>1, LoopInvTransposes
  <2>3. fn \in {0, 1}
    BY <2>1 DEF LoopInv, Arrays
  <2> QED
    BY <1>1, <2>2, <2>3 DEF Fits
<1>2. EvalInv => Transposes
  BY <1>1 DEF Transposes
<1> QED
  BY <1>2, EvalInvCorrect, PTL

\* No access of trans.c leaves the arrays of tracegen, 256 by 256 cells each or
\* the first Cells of them, so that none of the cells left out is missed.
THEOREM StaysInsideCorrect == EvalSpec => []StaysInside
<1>1. EvalInv => StaysInside
  <2>1. at = "off" => StaysInside
    BY DEF StaysInside, Loading
  <2> QED
    BY <2>1, LoopInvStaysInside DEF EvalInv, TracegenInv
<1> QED
  BY <1>1, EvalInvCorrect, PTL

\* Whatever fails, hangs or is left behind, the line that driver.py reads is the
\* truth about the submission, but for the faults that VerdictIsTrue names.
THEOREM VerdictIsTrueCorrect == EvalSpec => []VerdictIsTrue
<1>1. EvalInv => VerdictIsTrue
  <2> SUFFICES ASSUME EvalInv, lines # <<>>, lines[1] # [correct |-> 0, misses |-> 0]
               PROVE  /\ lines[1].correct = 1 => ShapeIsGood \/ Excused
                      /\ lines[1].misses \notin {counted, INT_MAX} => NotItsOwn
                      /\ faults = {} => lines[1] = IF ShapeIsGood THEN [correct |-> 1, misses |-> counted]
                                                                   ELSE [correct |-> 0, misses |-> INT_MAX]
    BY DEF VerdictIsTrue, Excused, NotItsOwn
  <2>1. lines[1] = results /\ f > submit
    BY DEF EvalInv, Stages, func_counter, submit
  <2> QED
    BY <2>1 DEF EvalInv, Told, Flag, Count, NoFault
<1> QED
  BY <1>1, EvalInvCorrect, PTL
=============================================================================
