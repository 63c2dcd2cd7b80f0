----------------------------- MODULE ScaleArith -----------------------------
(***************************************************************************)
(* The arithmetic of dll/scaling.cpp: mul_from and scale_u32.              *)
(*                                                                         *)
(* A multiplier is kept in hundredths (1.35 is 135), so that every product *)
(* is an exact integer number of hundredths.  The code works in doubles.   *)
(* Its relative error is far below one hundredth for every product that    *)
(* scale_u32 does not saturate, so it can only show at a product that is   *)
(* exactly halfway between two integers: 210 * 1.15 evaluates to           *)
(* 241.49999999999997 and rounds down, 10 * 1.35 evaluates to 13.5 and     *)
(* rounds up.  Rounded therefore allows either neighbour at a tie.         *)
(*                                                                         *)
(* The two integer widths are parameters: 2^32 - 1 and 2^63 - 1 in the     *)
(* code, small numbers in a model.                                         *)
(***************************************************************************)
EXTENDS Integers

CONSTANTS
  U32Max,   \* the largest uint32_t
  LLMax     \* the largest long long

ASSUME WidthAssumption ==
  /\ U32Max \in Nat
  /\ LLMax \in Nat
  /\ U32Max < LLMax

HpValues == 0 .. U32Max

(* A multiplier of 1.0, the value for which scaling.cpp skips a row.       *)
One == 100

MutMulCountsSelf(n, pct) ==
  IF pct = 0 THEN One ELSE One + n * pct

(* mul_from: 1 + (n - 1) * pct / 100, and exactly 1.0 for a lone player.   *)
MulFrom(n, pct) ==
  IF n <= 1 \/ pct = 0 THEN One ELSE One + (n - 1) * pct

(* std::llround of h hundredths: the nearest integers, both at a tie.      *)
Rounded(h) == {(h + 50) \div One, (h + 49) \div One}

(* llround outside the range of long long yields the x64 "integer          *)
(* indefinite" value, which is the least long long.                        *)
ToLongLong(q) ==
  IF q \in -(LLMax + 1) .. LLMax THEN q ELSE -(LLMax + 1)

MutClampWraps(s) == s % (U32Max + 1)

MutClampNoFloor(s) == IF s > U32Max THEN U32Max ELSE s

(* The conditional expression that saturates a long long to a uint32_t.    *)
Clamp(s) ==
  IF s > U32Max THEN U32Max ELSE IF s < 0 THEN 0 ELSE s

(* scale_u32: the values it can return for orig and a multiplier.          *)
Scaled(orig, mul) == {Clamp(ToLongLong(q)) : q \in Rounded(orig * mul)}

(* llround sees a representable value: the product fits a long long.       *)
InRange(orig, mul) == \A q \in Rounded(orig * mul) : q \in -(LLMax + 1) .. LLMax

(* s is the HP nearest to h hundredths of a unit; or the largest one, and h*)
(* exceeds it; or 0, and h is negative or exceeds a long long.             *)
Nearest(s, h) ==
  \/ s * One - h \in -50 .. 50
  \/ s = U32Max /\ h > s * One
  \/ s = 0 /\ (h < 0 \/ h > LLMax * One)
=============================================================================
