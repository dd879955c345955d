------------------------------- MODULE Money -------------------------------
(***************************************************************************)
(* Sums of points (internal/support/money).  A sum arrives as a JSON number *)
(* with two decimals, is read into the float64 nearest to it, and is kept   *)
(* as an integer of hundredths.  A float64 is given here by the hundredths  *)
(* n of its decimal.                                                        *)
(***************************************************************************)
EXTENDS Integers

\* floor(log2(n)); sums stay below 2^27, so that TLC can shift them.
Log2(n) == CHOOSE f \in 0 .. 26 : n \div 2^f = 1

\* How much less floor(log2(n/100)) is.
Gap(n) == IF 16 * n >= 25 * 2^Log2(n) THEN 6 ELSE 7

\* The double nearest to n/100 is m/2^k, its significand m having 53 bits; what
\* is rounded off is n * 2^k modulo 100: down if it is below 50 (the double is
\* less than the decimal), up if above.  Powers of two repeat after 20 there.
RoundedOff(n) ==
  LET k == 52 - Log2(n) + Gap(n)
  IN  ((n % 100) * (2^(2 + ((k - 2) % 20)) % 100)) % 100

\* The product of that double and 100 is rounded to a double again: to n, unless
\* it is more than half a step of the doubles below n away, which is 32 in units
\* of RoundedOff with a gap of 6 and 64 with one of 7.
FallsShort(n) == Gap(n) = 6 /\ RoundedOff(n) \in 33 .. 50

\* Mutant: a hundredth is added to make up for the truncation.
FloatToIntUp(n) == n + 1

\* int64(sum * 100) truncates, towards zero: 1.15 becomes 114.
FloatToInt(n) ==
  CASE n = 0 -> 0
    [] n > 0 -> IF FallsShort(n) THEN n - 1 ELSE n
    [] n < 0 -> IF FallsShort(-n) THEN n + 1 ELSE n
=============================================================================
