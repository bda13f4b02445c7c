------------------------------ MODULE FixedPoint ------------------------------
(***************************************************************************)
(* The fixed-point arithmetic of klend (utils/fraction.rs).                *)
(*                                                                         *)
(* A Fraction is the U68F60 type of the `fixed' crate: a natural number of *)
(* units of 1/2^60.  Here a fraction is its scaled value (the code's *_sf  *)
(* fields) and the constant One is the scaled value of 1, 2^60 in the      *)
(* program and a small even number in the model-checked instances.  Every  *)
(* operation rounds exactly as the code's does.  BigFraction, the 256-bit  *)
(* intermediate, differs only in width.                                    *)
(***************************************************************************)
EXTENDS Integers

CONSTANT One            \* FRACTION_ONE_SCALED

ASSUME OneAssumption == One \in Nat \ {0}

Smaller(a, b) == IF a <= b THEN a ELSE b
Larger(a, b) == IF a >= b THEN a ELSE b

\* Fraction::from_num / Fraction::from of a token amount.
FromNum(n) == n * One

\* The * and / operators of two fractions: both round down.
FMul(a, b) == (a * b) \div One
FDiv(a, b) == (a * One) \div b

\* Conversions of a fraction to a token amount.
ToFloor(a) == a \div One
ToCeil(a) == (a + One - 1) \div One
ToRound(a) == (a + One \div 2) \div One

\* n * a / d rounded down, on a 256-bit intermediate (full_mul_int_ratio, and
\* the same expression written out on U256 or BigFraction).
MulDivFloor(n, a, d) == (n * a) \div d

\* The same rounded up.
MulDivCeil(n, a, d) == (n * a + d - 1) \div d
===============================================================================
