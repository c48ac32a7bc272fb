---------------------------- MODULE FixidityLib -----------------------------
(***************************************************************************)
(* Fixed point fractions, as FixidityLib.sol computes them: a fraction is  *)
(* the natural number of 1/FIXED1ths it stands for.  The library has       *)
(* FIXED1 = 10^24 and MulPrecision = 10^12, the square root of it; a       *)
(* smaller MulPrecision keeps every truncation the library makes.  The     *)
(* 256-bit overflow checks are left out: the quantities the governance     *)
(* contracts feed in are far below maxNewFixed.                            *)
(***************************************************************************)
EXTENDS Integers

CONSTANT MulPrecision

ASSUME MulPrecisionAssumption == MulPrecision \in Nat \ {0}

FIXED1 == MulPrecision * MulPrecision

newFixed(x) == x * FIXED1

fromFixed(x) == x \div FIXED1

\* The integer part of a fraction, and what is left of it.
integer(x) == (x \div FIXED1) * FIXED1

fractional(x) == x - integer(x)

\* The product of the two fractional parts loses the lower half of the digits
\* of each operand before they are multiplied.
multiply(x, y) ==
    LET x1 == integer(x) \div FIXED1
        y1 == integer(y) \div FIXED1
        x2 == fractional(x)
        y2 == fractional(y)
    IN  IF x = 0 \/ y = 0 THEN 0
        ELSE IF y = FIXED1 THEN x
        ELSE IF x = FIXED1 THEN y
        ELSE x1 * y1 * FIXED1 + x2 * y1 + x1 * y2
                + (x2 \div MulPrecision) * (y2 \div MulPrecision)

divide(x, y) == (x * FIXED1) \div y

newFixedFraction(numerator, denominator) ==
    divide(newFixed(numerator), newFixed(denominator))

isProperFraction(x) == x <= FIXED1

=============================================================================
