-------------------------- MODULE ScaleArithProofs --------------------------
(***************************************************************************)
(* Facts about the arithmetic of ScaleArith, for integers of any width: it *)
(* rounds to the nearest unit or saturates, never wraps, and is monotonic. *)
(* They are what the proofs about Scaling, Core and RowSession rest on.    *)
(***************************************************************************)
EXTENDS ScaleArith, TLAPS

USE WidthAssumption

-----------------------------------------------------------------------------
(* Rounding and conversion.                                                *)

(* std::llround is off by half a unit at most.                             *)
LEMMA RoundedIsNear ==
  ASSUME NEW h \in Int, NEW q \in Rounded(h)
  PROVE  q \in Int /\ q * 100 - h <= 50 /\ h - q * 100 <= 50
BY DEF Rounded, One

(* It is monotonic, but for the two outcomes of a tie.                     *)
LEMMA RoundedIsMonotonic ==
  ASSUME NEW g \in Int, NEW h \in Int, g < h, NEW p \in Rounded(g), NEW q \in Rounded(h)
  PROVE  p <= q
<1>1. p \in Int /\ q \in Int /\ p <= (g + 50) \div 100 /\ (h + 49) \div 100 <= q
  BY DEF Rounded, One
<1>2. (g + 50) \div 100 <= (h + 49) \div 100
  OBVIOUS
<1> QED
  BY <1>1, <1>2

(* A whole number of units is not rounded.                                 *)
LEMMA WholeIsExact ==
  ASSUME NEW u \in Int
  PROVE  Rounded(u * One) = {u}
BY DEF Rounded, One

LEMMA ClampFacts ==
  ASSUME NEW p \in Int, NEW q \in Int
  PROVE  /\ Clamp(q) \in HpValues
         /\ Clamp(q) \in {0, q, U32Max}
         /\ Clamp(q) = 0 \/ Clamp(q) <= q
         /\ Clamp(q) = U32Max \/ q <= Clamp(q)
         /\ p <= q => Clamp(p) <= Clamp(q)
         /\ q \in HpValues => Clamp(q) = q
BY DEF Clamp, HpValues

LEMMA LongLongFacts ==
  ASSUME NEW q \in Int
  PROVE  /\ ToLongLong(q) \in Int
         /\ q \in -(LLMax + 1) .. LLMax => ToLongLong(q) = q
         /\ q \in HpValues => ToLongLong(q) = q
BY DEF ToLongLong, HpValues

LEMMA MulFromIsLinear ==
  ASSUME NEW k \in Nat \ {0}, NEW p \in Int
  PROVE  MulFrom(k, p) = One + (k - 1) * p /\ MulFrom(k, p) \in Int
BY DEF MulFrom, One

LEMMA MulFromInt ==
  ASSUME NEW k \in Int, NEW p \in Int
  PROVE  MulFrom(k, p) \in Int
BY DEF MulFrom, One

-----------------------------------------------------------------------------
(* scale_u32.                                                              *)

(* What it returns is always a uint32_t.                                   *)
LEMMA ScaledBounds ==
  ASSUME NEW o \in Int, NEW mul \in Int
  PROVE  Scaled(o, mul) \subseteq HpValues
<1>1. o * mul \in Int
  OBVIOUS
<1>2. \A q \in Rounded(o * mul) : q \in Int
  BY <1>1, RoundedIsNear
<1> QED
  BY <1>2, LongLongFacts, ClampFacts DEF Scaled

(* A lone player's enemies have their own HP.                              *)
LEMMA ScaledByOne ==
  ASSUME NEW o \in HpValues
  PROVE  Scaled(o, One) = {o}
<1>1. o \in Int /\ Rounded(o * One) = {o}
  BY WholeIsExact DEF HpValues
<1>2. Clamp(ToLongLong(o)) = o
  BY <1>1, LongLongFacts, ClampFacts
<1> QED
  BY <1>1, <1>2 DEF Scaled

(* A row of no HP stays one.                                               *)
LEMMA ScaledZero ==
  ASSUME NEW mul \in Int
  PROVE  Scaled(0, mul) = {0}
<1>1. 0 * mul = 0 /\ Rounded(0) = {0}
  BY DEF Rounded, One
<1>2. Clamp(ToLongLong(0)) = 0
  BY DEF Clamp, ToLongLong
<1> QED
  BY <1>1, <1>2 DEF Scaled

(* What is left of a rounded value is the nearest HP to what was rounded,  *)
(* or as near as the conversions let it come.                              *)
LEMMA ClampIsNearest ==
  ASSUME NEW h \in Int, NEW q \in Rounded(h)
  PROVE  Nearest(Clamp(ToLongLong(q)), h)
<1>1. q \in Int /\ q * 100 - h <= 50 /\ h - q * 100 <= 50
  BY RoundedIsNear
<1>2. CASE q > LLMax \/ q < 0
  BY <1>1, <1>2 DEF ToLongLong, Clamp, Nearest, One
<1>3. CASE q \in 0 .. LLMax
  BY <1>1, <1>3 DEF ToLongLong, Clamp, Nearest, One
<1> QED
  BY <1>1, <1>2, <1>3

LEMMA ScaledIsNearest ==
  ASSUME NEW o \in Int, NEW mul \in Int, NEW s \in Scaled(o, mul)
  PROVE  Nearest(s, o * mul)
<1>1. o * mul \in Int
  OBVIOUS
<1> QED
  BY <1>1, ClampIsNearest DEF Scaled

(* What a scaled HP is where the product fits a long long.                 *)
LEMMA HpOfProduct ==
  ASSUME NEW o \in HpValues, NEW p \in Int, NEW k \in Nat \ {0},
         NEW h \in Scaled(o, MulFrom(k, p)), InRange(o, One + (k - 1) * p)
  PROVE  \E q \in Rounded(o * (One + (k - 1) * p)) : q \in Int /\ h = Clamp(q)
<1>1. o \in Int /\ One + (k - 1) * p \in Int /\ o * (One + (k - 1) * p) \in Int
  BY DEF HpValues, One
<1>2. PICK q \in Rounded(o * (One + (k - 1) * p)) : h = Clamp(ToLongLong(q))
  BY MulFromIsLinear DEF Scaled
<1>3. q \in Int /\ q \in -(LLMax + 1) .. LLMax
  BY <1>1, <1>2, RoundedIsNear DEF InRange
<1> QED
  BY <1>2, <1>3, LongLongFacts

(* More of a session means no less HP.                                     *)
LEMMA MoreIsNoLess ==
  ASSUME NEW o \in HpValues, NEW p \in Int, p >= 0, NEW k \in Nat \ {0}, NEW l \in Nat \ {0},
         k < l, NEW g \in Scaled(o, MulFrom(k, p)), NEW h \in Scaled(o, MulFrom(l, p)),
         InRange(o, One + (k - 1) * p), InRange(o, One + (l - 1) * p)
  PROVE  g <= h
<1> DEFINE K == o * (One + (k - 1) * p)
           L == o * (One + (l - 1) * p)
<1>1. K \in Int /\ L \in Int /\ o \in Int /\ o >= 0
  BY DEF One, HpValues
<1>2. PICK a \in Rounded(K) : a \in Int /\ g = Clamp(a)
  BY HpOfProduct
<1>3. PICK b \in Rounded(L) : b \in Int /\ h = Clamp(b)
  BY HpOfProduct
<1>4. CASE o = 0 \/ p = 0
  <2>1. K = o * One /\ L = o * One
    BY <1>1, <1>4 DEF One
  <2>2. a = o /\ b = o
    BY <1>1, <1>2, <1>3, <2>1, WholeIsExact
  <2> QED
    BY <1>1, <1>2, <1>3, <2>2, ClampFacts DEF HpValues
<1>5. CASE o > 0 /\ p > 0
  <2>1. L = K + o * ((l - k) * p)
    BY <1>1 DEF One
  <2>2. (l - k) * p \in Int /\ (l - k) * p > 0
    BY <1>5
  <2>3. o * ((l - k) * p) > 0
    BY <1>1, <1>5, <2>2
  <2>4. K < L
    BY <1>1, <2>1, <2>2, <2>3
  <2> HIDE DEF K, L
  <2>5. a <= b
    BY <1>1, <1>2, <1>3, <2>4, RoundedIsMonotonic
  <2> QED
    BY <1>2, <1>3, <2>5, ClampFacts
<1> QED
  BY <1>1, <1>4, <1>5
=============================================================================
