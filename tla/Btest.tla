-------------------------------- MODULE Btest --------------------------------
(* datalab/handout/btest.c on the puzzles of bits.c: for every function of   *)
(* the table in decl.c it generates argument values, runs the puzzle and its *)
(* test function on each combination until they differ, and adds up points.  *)
(*                                                                           *)
(* A comparison is one step.  An alarm set for one function is never taken   *)
(* back, so that it may ring later, as long as no other is set.  Options     *)
(* other than -T are not modelled.  ScoresToFirst and RingsAgain are         *)
(* not used: they are mistakes to try TLC on.                                *)
EXTENDS Bits, SequencesExt

CONSTANTS TEST_RANGE,
          Randoms, \* what random_val may return
          MaxLate  \* bound: how many functions an alarm stops

\* The small ranges of the table are gone through exhaustively.
ASSUME RangeAssumption == TEST_RANGE \in Nat /\ TEST_RANGE >= 4
ASSUME RandomsAssumption == Randoms \subseteq SUBSET Bit /\ Randoms # {}
ASSUME LateAssumption == MaxLate \in Nat

VARIABLES timeout_limit, \* whether there is one: -T 0 for none
          t,             \* the function under test, an index of test_set
          pc,
          arg_test_vals, \* a sequence of values for each argument
          a1, a2,
          errors,        \* those of the test under way
          armed,         \* the test that has set the alarm that is to ring, or 0
          verdict,       \* the errors of every function that was tested
          points,
          charged        \* auxiliary: who was stopped by an alarm that who had set

vars == <<timeout_limit, t, pc, arg_test_vals, a1, a2, errors, armed, verdict, points, charged>>

MAX_TEST_VALS == 13 * TEST_RANGE
\* The ranges of an argument: TMin to TMax, {1, 1}, and one short enough to be exhausted.
Full == [kind |-> "full"]
Float == [kind |-> "float"]
Short(min, max) == [kind |-> "short", min |-> min, max |-> max]

test_rec(name, rating, ranges) == [name |-> name, rating |-> rating, ranges |-> ranges]

test_set == <<
  test_rec("isTmax", 1, <<Full>>), test_rec("isTmin", 1, <<Full>>), test_rec("isZero", 1, <<Full>>),
  test_rec("tmax", 1, <<>>), test_rec("tmin", 1, <<>>), test_rec("minusOne", 1, <<>>),
  test_rec("fitsShort", 1, <<Full>>), test_rec("thirdBits", 1, <<>>),
  test_rec("specialBits", 1, <<>>), test_rec("upperBits", 1, <<Short(0, 32)>>),
  test_rec("negate", 2, <<Full>>), test_rec("dividePower2", 2, <<Full, Short(0, 30)>>),
  test_rec("fitsBits", 2, <<Full, Short(1, 32)>>),
  test_rec("floatAbsVal", 2, <<Float>>), test_rec("floatNegate", 2, <<Float>>) >>

\* Whether puzzle and test function agree, on a sequence of arguments.
Agree(name, a) ==
  CASE name = "isTmax"       -> isTmax(a[1]) = truth(a[1] = TMax)
    [] name = "isTmin"       -> isTmin(a[1]) = truth(a[1] = TMin)
    [] name = "isZero"       -> isZero(a[1]) = truth(a[1] = {})
    [] name = "tmax"         -> tmax = TMax
    [] name = "tmin"         -> tmin = TMin
    [] name = "minusOne"     -> minusOne = Bit
    [] name = "fitsShort"    -> fitsShort(a[1]) = truth(InRange(a[1], 16))
    [] name = "thirdBits"    -> thirdBits = test_thirdBits
    [] name = "specialBits"  -> specialBits = test_specialBits
    [] name = "upperBits"    -> upperBits(a[1]) = test_upperBits(a[1])
    [] name = "negate"       -> negate(a[1]) = test_negate(a[1])
    [] name = "dividePower2" -> dividePower2(a[1], a[2]) = test_dividePower2(a[1], a[2])
    [] name = "fitsBits"     -> fitsBits(a[1], a[2]) = truth(InRange(a[1], a[2]))
    [] name = "floatAbsVal"  -> floatAbsVal(a[1]) = test_floatAbsVal(a[1])
    [] name = "floatNegate"  -> floatNegate(a[1]) = test_floatNegate(a[1])

-----------------------------------------------------------------------------
\* The root of the range for two arguments.
arg_test_range(args) ==
  IF args < 2 THEN TEST_RANGE
  ELSE CHOOSE n \in 0..TEST_RANGE : n * n <= TEST_RANGE /\ TEST_RANGE < (n + 1) * (n + 1)

Minus(w, n) == add(w, Negated(word(n)))
WithSign(seq) == seq \o [k \in DOMAIN seq |-> seq[k] \cup {31}]

\* Floats around zero, the smallest normalized, one, and the largest; inf and nan.
FloatVals(n) ==
  LET smallest_norm == {23}  one == 23..29  largest_norm == 24..30
      Both(w, k) == WithSign(<<add(w, word(k)), Minus(w, k)>>)
      Around(k) == WithSign(<<word(k)>>) \o Both(smallest_norm, k) \o Both(one, k)
                     \o WithSign(<<Minus(largest_norm, k)>>)
  IN FlattenSeq([k \in 1..n |-> Around(k - 1)]) \o WithSign(<<23..30>>) \o WithSign(<<22..30>>)

\* Integers at both ends, around zero, and any.
FullVals(n, random) ==
  FlattenSeq([k \in 1..n |-> <<add(TMin, word(k - 1)), Minus(TMax, k - 1), word(k - 1),
                               Negated(word(k - 1)), random[k]>>])

gen_vals(range, n, random) ==
  CASE range.kind = "float" -> FloatVals(n)
    [] range.kind = "full"  -> FullVals(n, random)
    [] range.kind = "short" -> [k \in 1..(range.max - range.min + 1) |-> range.min + k - 1]

-----------------------------------------------------------------------------
Test == test_set[t]
Args == Len(Test.ranges)

Init ==
  /\ timeout_limit \in BOOLEAN
  /\ t = 1 /\ pc = "generate" /\ arg_test_vals = <<>> /\ a1 = 1 /\ a2 = 1 /\ errors = 0
  /\ armed = 0 /\ verdict = <<>> /\ points = 0 /\ charged = {}

\* test_function up to the sigsetjmp.
generate ==
  /\ pc = "generate"
  /\ \E random \in [1..arg_test_range(Args) -> Randoms] :
       arg_test_vals' = [arg \in 1..Args |-> gen_vals(Test.ranges[arg], arg_test_range(Args), random)]
  /\ errors' = 0
  /\ pc' = IF timeout_limit THEN "set_alarm" ELSE "test"
  /\ UNCHANGED <<timeout_limit, t, a1, a2, armed, verdict, points, charged>>

\* alarm() takes the place of an alarm that is still to ring.
set_alarm ==
  /\ pc = "set_alarm"
  /\ armed' = t /\ pc' = "test"
  /\ UNCHANGED <<timeout_limit, t, arg_test_vals, a1, a2, errors, verdict, points, charged>>

Arguments == [arg \in 1..Args |-> arg_test_vals[arg][IF arg = 1 THEN a1 ELSE a2]]
Differ == ~Agree(Test.name, Arguments)

More(arg, a) == arg <= Args /\ a < Len(arg_test_vals[arg])

\* The innermost loop that is not at its end goes on.
NextArguments ==
  IF More(2, a2) THEN a2' = a2 + 1 /\ UNCHANGED a1 ELSE a2' = 1 /\ a1' = a1 + 1

\* test_function returns; its locals are gone.
Returns(e) ==
  pc' = "report" /\ errors' = e /\ arg_test_vals' = <<>> /\ a1' = 1 /\ a2' = 1

\* test_0_arg, test_1_arg or test_2_arg: the loops stop at the first difference.
test ==
  /\ pc = "test" /\ ~Differ /\ (More(1, a1) \/ More(2, a2))
  /\ NextArguments
  /\ UNCHANGED <<timeout_limit, t, pc, arg_test_vals, errors, armed, verdict, points, charged>>

test_ends ==
  /\ pc = "test" /\ (Differ \/ ~(More(1, a1) \/ More(2, a2)))
  /\ Returns(IF Differ THEN errors + 1 ELSE errors)
  /\ UNCHANGED <<timeout_limit, t, armed, verdict, points, charged>>

ScoresToFirst ==
  IF errors = 0 /\ \A k \in DOMAIN verdict : verdict[k] = 0 THEN Test.rating ELSE 0
Score == IF errors = 0 THEN Test.rating ELSE 0

\* The rest of the loop in run_tests.
report ==
  /\ pc = "report"
  /\ verdict' = Append(verdict, errors)
  /\ points' = points + Score
  /\ IF t < Len(test_set) THEN t' = t + 1 /\ pc' = "generate" ELSE pc' = "total" /\ UNCHANGED t
  /\ UNCHANGED <<timeout_limit, arg_test_vals, a1, a2, errors, armed, charged>>

returns_0 ==
  /\ pc = "total" /\ pc' = "exited"
  /\ UNCHANGED <<timeout_limit, t, arg_test_vals, a1, a2, errors, armed, verdict, points, charged>>

RingsAgain ==
  /\ armed # 0 /\ pc \notin {"exited", "undefined"}
  /\ IF pc \in {"set_alarm", "test"}
     THEN /\ Cardinality(charged) < MaxLate
          /\ Returns(1) /\ charged' = charged \cup {<<t, armed>>}
     ELSE pc' = "undefined" /\ UNCHANGED <<arg_test_vals, a1, a2, errors, charged>>
  /\ UNCHANGED <<timeout_limit, t, armed, verdict, points>>

\* SIGALRM jumps to the sigsetjmp of test_function; when that call has returned,
\* nothing is defined any more.
timeout_handler ==
  /\ armed # 0 /\ pc \notin {"exited", "undefined"}
  /\ IF pc \in {"set_alarm", "test"}
     THEN /\ Cardinality(charged) < MaxLate
          /\ Returns(1) /\ charged' = charged \cup {<<t, armed>>}
     ELSE pc' = "undefined" /\ UNCHANGED <<arg_test_vals, a1, a2, errors, charged>>
  /\ armed' = 0
  /\ UNCHANGED <<timeout_limit, t, verdict, points>>

Next ==
  \/ generate \/ set_alarm \/ test \/ test_ends \/ report \/ returns_0
  \/ timeout_handler

Spec == Init /\ [][Next]_vars
-----------------------------------------------------------------------------
\* Words that say more than the values btest takes: few bits, runs of bits, and
\* the numbers near zero.
Sample ==
  {word(n) : n \in 0..9} \cup {Negated(word(n)) : n \in 1..9}
    \cup {k..31 : k \in Bit} \cup {0..k : k \in Bit} \cup {{k} : k \in Bit}

AllOf(range) == IF range.kind = "short" THEN range.min..range.max ELSE Sample

\* The functions that are right on the sample.
Right ==
  {k \in DOMAIN test_set :
     LET name == test_set[k].name  ranges == test_set[k].ranges IN
     CASE Len(ranges) = 0 -> Agree(name, <<>>)
       [] Len(ranges) = 1 -> \A v \in AllOf(ranges[1]) : Agree(name, <<v>>)
       [] Len(ranges) = 2 -> \A v \in AllOf(ranges[1]), w \in AllOf(ranges[2]) : Agree(name, <<v, w>>)}

Stopped == {c[1] : c \in charged}

\* What the functions without errors are worth.
Ratings(v) ==
  LET upTo[k \in 0..Len(v)] ==
        IF k = 0 THEN 0 ELSE upTo[k - 1] + IF v[k] = 0 THEN test_set[k].rating ELSE 0
  IN  upTo[Len(v)]

\* A function that gets its points is right, a function that does not is wrong or
\* an alarm has stopped it, and the points are the ratings of the first kind.  The
\* values fit the arrays they are kept in.
VerdictsAreRight ==
  /\ \A k \in DOMAIN verdict :
       /\ verdict[k] \in {0, 1}
       /\ verdict[k] = 0 => k \in Right
       /\ verdict[k] = 1 => k \notin Right \/ k \in Stopped
  /\ points = Ratings(verdict)
  /\ \A arg \in DOMAIN arg_test_vals : Len(arg_test_vals[arg]) <= MAX_TEST_VALS

\* A function is stopped by its own alarm or by that of the function before it,
\* which then was not stopped itself.
ChargedOnce ==
  \A c \in charged : c[2] = c[1] \/ (c[2] = c[1] - 1 /\ c[2] \notin Stopped)

Returned == IF pc \in {"report", "total"} THEN t ELSE t - 1

\* An alarm rings where nothing is defined only when some function has returned
\* and the last one that did was not stopped.
OnlyLateAlarms ==
  [][pc' = "undefined" => Returned > 0 /\ Returned \notin Stopped]_vars
=============================================================================
