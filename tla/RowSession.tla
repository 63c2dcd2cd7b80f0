----------------------------- MODULE RowSession -----------------------------
(***************************************************************************)
(* One row over a session: players join and leave, and after each change   *)
(* the row is rewritten from its vanilla HP, as scaling.cpp's apply() does *)
(* for every row.  This is the setting in which the arithmetic of          *)
(* ScaleArith is compared with the exact product it stands for.            *)
(***************************************************************************)
EXTENDS ScaleArith

CONSTANTS
  Percentages,   \* the settings tried
  MaxPlayers,    \* bound of the model: the largest session
  Originals      \* the vanilla HP values tried

ASSUME SessionAssumption ==
  /\ Percentages \subseteq Int
  /\ MaxPlayers \in Nat \ {0}
  /\ Originals \subseteq HpValues

VARIABLES
  orig,      \* the snapshotted HP of the row
  pct,       \* its category's percentage
  players,   \* the player count
  hp         \* what scale_u32 last returned for the row

vars == <<orig, pct, players, hp>>

Init ==
  /\ orig \in Originals
  /\ pct \in Percentages
  /\ players = 1
  /\ hp = orig

(* The player count becomes k, and apply() rewrites the row.               *)
Become(k) ==
  /\ players' = k
  /\ hp' \in Scaled(orig, MulFrom(k, pct))
  /\ UNCHANGED <<orig, pct>>

Join == players < MaxPlayers /\ Become(players + 1)

Leave == players > 1 /\ Become(players - 1)

Next == Join \/ Leave

Spec == Init /\ [][Next]_vars

-----------------------------------------------------------------------------
(* The exact HP, in hundredths, that "each extra player adds pct percent"  *)
(* of dist/SeamlessCoop/ds2sc_settings.ini asks for.                       *)
Exact(k) == orig * One + (k - 1) * pct * orig

Fits(k) == InRange(orig, One + (k - 1) * pct)

TypeOK ==
  /\ orig \in Originals
  /\ pct \in Percentages
  /\ players \in 1 .. MaxPlayers
  /\ hp \in HpValues

(* scale_u32 returns the exact HP to the nearest unit; where that does not *)
(* fit a uint32_t it saturates, at zero for a negative percentage, and it  *)
(* never wraps.  Alone, a player meets vanilla HP.                         *)
NearestOrSaturated ==
  Fits(players) =>
    /\ hp * One - Exact(players) > 50 => hp = 0
    /\ Exact(players) - hp * One > 50 => hp = U32Max
    /\ players = 1 => hp = orig

(* Another player never makes a row weaker, and one who leaves never makes *)
(* it stronger, for a percentage that is not negative.                     *)
MorePlayersMoreHp ==
  [][pct >= 0 /\ Fits(players) /\ Fits(players') =>
       (players' > players => hp' >= hp) /\ (players' < players => hp' <= hp)]_vars
=============================================================================
