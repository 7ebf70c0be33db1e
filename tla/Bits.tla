-------------------------------- MODULE Bits --------------------------------
(* The puzzles of datalab/handout/bits.c and the functions of tests.c that   *)
(* btest compares them with.  An int is the set of its bits that are 1, at   *)
(* the width of the program, 32; sums wrap, as the build computes them.      *)
(* The operators of C that a puzzle uses are spelled out; a test function is *)
(* what its statement says of the number.                                    *)
EXTENDS Integers

Bit == 0..31

\* The natural number n, below 2^31, as a word.
word(n) == {k \in 0..30 : (n \div 2^k) % 2 = 1}

truth(b) == IF b THEN {0} ELSE {}
not(x) == Bit \ x
xor(x, y) == (x \ y) \cup (y \ x)
shl(x, n) == {k \in Bit : k - n \in x}
shr(x, n) == {k \in Bit : IF k + n <= 31 THEN k + n \in x ELSE 31 \in x}

\* The carries of x + y: from a bit that both have, up through those that either has.
carries(x, y) ==
  {k \in Bit : \E j \in x \cap y : j < k /\ (j + 1)..(k - 1) \subseteq x \cup y}

add(x, y) == xor(xor(x, y), carries(x, y))

Negated(x) == add(not(x), word(1))

TMin == {31}
TMax == 0..30

-----------------------------------------------------------------------------
\* bits.c.  ! is truth(_ = {}).
isTmax(x) == LET y == add(x, word(1)) IN truth(add(add(y, y), truth(y = {})) = {})
isTmin(x) == truth(add(add(x, x), truth(x = {})) = {})
isZero(x) == truth(x = {})
tmax == not(shl(word(1), 31))
tmin == shl(word(1), 31)
minusOne == not({})
fitsShort(x) == truth(xor(shr(shl(x, 16), 16), x) = {})

thirdBits ==
  LET two   == add(shl(word(9), 6), word(9))
      three == add(shl(two, 12), two)
  IN add(shl(three, 9), word(73))

specialBits == not(shl(word(215), 14))
upperBits(n) == word(2)
negate(x) == add(not(x), word(1))
dividePower2(x, n) == shr(add(x, shr(x, 31) \cap add(shl(word(1), n), minusOne)), n)
\* The shift is 32 - n.
fitsBits(x, n) == word(32 - n) \cup shr(shl(x, 32 - n), 32 - n)
floatAbsVal(uf) == word(2)
floatNegate(uf) == word(2)

-----------------------------------------------------------------------------
\* tests.c.
\* x is a number of n bits: from bit n - 1 on its bits are all the same.
InRange(x, n) == \A k \in (n - 1)..31 : k \in x <=> 31 \in x

test_thirdBits == {k \in Bit : k % 3 = 0}
test_specialBits == Bit \ {14, 15, 16, 18, 20, 21}
test_upperBits(n) == (32 - n)..31
test_negate(x) == {k \in Bit : k \in x <=> \A j \in 0..(k - 1) : j \notin x}

\* The quotient of the absolute value, with its sign.
test_dividePower2(x, n) ==
  IF 31 \notin x THEN {k \in Bit : k + n \in x}
                 ELSE test_negate({k \in Bit : k + n \in test_negate(x)})

isnan(uf) == 23..30 \subseteq uf /\ uf \cap 0..22 # {}
test_floatAbsVal(uf) == IF isnan(uf) THEN uf ELSE uf \ {31}
test_floatNegate(uf) == IF isnan(uf) THEN uf ELSE xor(uf, {31})
=============================================================================
