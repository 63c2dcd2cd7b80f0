-------------------------- MODULE RowSessionProofs --------------------------
(***************************************************************************)
(* Proofs about RowSession, for integers of any width, any percentages,    *)
(* originals and session sizes: scale_u32 rounds to the nearest unit or    *)
(* saturates, and more players never meet a weaker enemy.                  *)
(***************************************************************************)
EXTENDS RowSession, ScaleArithProofs

USE WidthAssumption, SessionAssumption

(* The hundredths that scale_u32 rounds, for k players.                    *)
Product(k) == orig * (One + (k - 1) * pct)

SessionInv ==
  /\ orig \in Originals
  /\ pct \in Percentages
  /\ players \in 1 .. MaxPlayers
  /\ hp \in Scaled(orig, MulFrom(players, pct))

-----------------------------------------------------------------------------
LEMMA SessionInvInit == Init => SessionInv
<1> SUFFICES ASSUME Init PROVE SessionInv
  OBVIOUS
<1>1. orig \in HpValues /\ pct \in Int /\ players = 1 /\ 1 \in 1 .. MaxPlayers
  BY DEF Init
<1>2. MulFrom(players, pct) = One
  BY <1>1 DEF MulFrom
<1>3. hp \in Scaled(orig, MulFrom(players, pct))
  BY <1>1, <1>2, ScaledByOne DEF Init
<1> QED
  BY <1>1, <1>3 DEF Init, SessionInv

LEMMA SessionInvStep == SessionInv /\ [Next]_vars => SessionInv'
<1> SUFFICES ASSUME SessionInv, [Next]_vars PROVE SessionInv'
  OBVIOUS
<1>1. CASE Join
  BY <1>1 DEF SessionInv, Join, Become
<1>2. CASE Leave
  BY <1>2 DEF SessionInv, Leave, Become
<1>3. CASE UNCHANGED vars
  BY <1>3 DEF SessionInv, vars
<1> QED
  BY <1>1, <1>2, <1>3 DEF Next

LEMMA SessionInvAlways == Spec => []SessionInv
BY SessionInvInit, SessionInvStep, PTL DEF Spec

-----------------------------------------------------------------------------
(* Whatever the snapshot and the settings, the HP in a row is a uint32_t.  *)
THEOREM SessionTypes == Spec => []TypeOK
<1>1. SessionInv => TypeOK
  <2> SUFFICES ASSUME SessionInv PROVE TypeOK
    OBVIOUS
  <2>1. orig \in Int /\ pct \in Int /\ players \in Nat \ {0}
    BY DEF SessionInv, HpValues
  <2>2. hp \in HpValues
    BY <2>1, MulFromIsLinear, ScaledBounds DEF SessionInv
  <2> QED
    BY <2>2 DEF SessionInv, TypeOK
<1> QED
  BY <1>1, SessionInvAlways, PTL

(* The product is right to the nearest unit, or saturated: no overflow, no *)
(* wrap, whatever the percentage and the number of players.                *)
THEOREM NearestOrSaturatedAlways == Spec => []NearestOrSaturated
<1>1. SessionInv => NearestOrSaturated
  <2> SUFFICES ASSUME SessionInv, Fits(players) PROVE NearestOrSaturated
    BY DEF NearestOrSaturated
  <2>1. orig \in HpValues /\ orig \in Int /\ pct \in Int /\ players \in Nat \ {0}
    BY DEF SessionInv, HpValues
  <2> DEFINE P == orig * (One + (players - 1) * pct)
  <2>2. P \in Int /\ P = Exact(players)
    BY <2>1 DEF Exact, One
  <2>3. PICK q \in Rounded(P) : q \in Int /\ hp = Clamp(q)
    BY <2>1, HpOfProduct DEF SessionInv, Fits
  <2> HIDE DEF P
  <2>4. q * 100 - P <= 50 /\ P - q * 100 <= 50
    BY <2>2, <2>3, RoundedIsNear
  <2>5. hp \in Int /\ (hp = 0 \/ hp <= q) /\ (hp = U32Max \/ q <= hp)
    BY <2>3, ClampFacts DEF HpValues
  <2>6. /\ hp * One - Exact(players) > 50 => hp = 0
        /\ Exact(players) - hp * One > 50 => hp = U32Max
    BY <2>2, <2>3, <2>4, <2>5 DEF One
  <2>7. players = 1 => hp = orig
    BY <2>1, ScaledByOne DEF SessionInv, MulFrom
  <2> QED
    BY <2>6, <2>7 DEF NearestOrSaturated
<1> QED
  BY <1>1, SessionInvAlways, PTL

(* Nobody's arrival weakens an enemy, nobody's leaving strengthens one.    *)
THEOREM MorePlayersMoreHpAlways == Spec => MorePlayersMoreHp
<1>1. SessionInv /\ SessionInv' /\ [Next]_vars =>
        [pct >= 0 /\ Fits(players) /\ Fits(players') =>
           (players' > players => hp' >= hp) /\ (players' < players => hp' <= hp)]_vars
  <2> SUFFICES ASSUME SessionInv, SessionInv', UNCHANGED <<orig, pct>>,
                      pct >= 0, Fits(players), Fits(players')
               PROVE  /\ players' > players => hp' >= hp
                      /\ players' < players => hp' <= hp
    BY DEF Next, Join, Leave, Become
  <2>1. /\ orig \in HpValues /\ pct \in Int
        /\ players \in Nat \ {0} /\ players' \in Nat \ {0}
        /\ hp \in Scaled(orig, MulFrom(players, pct))
        /\ hp' \in Scaled(orig, MulFrom(players', pct))
        /\ InRange(orig, One + (players - 1) * pct) /\ InRange(orig, One + (players' - 1) * pct)
    BY DEF SessionInv, Fits
  <2>2. hp \in Int /\ hp' \in Int
    <3>1. MulFrom(players, pct) \in Int /\ MulFrom(players', pct) \in Int /\ orig \in Int
      BY <2>1, MulFromIsLinear DEF HpValues
    <3> QED
      BY <2>1, <3>1, ScaledBounds DEF HpValues
  <2>3. players' > players => hp <= hp'
    BY <2>1, MoreIsNoLess
  <2>4. players' < players => hp' <= hp
    BY <2>1, MoreIsNoLess
  <2> QED
    BY <2>2, <2>3, <2>4
<1> QED
  BY <1>1, SessionInvAlways, PTL DEF Spec, MorePlayersMoreHp
=============================================================================
