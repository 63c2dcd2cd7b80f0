------------------------------ MODULE HpLedger ------------------------------
(***************************************************************************)
(* What dll/scaling.h promises of the rows' HP, with no mutex, snapshot,   *)
(* thread or player count: between two reverts a row holds its original    *)
(* value or one scaled from the original, never from a scaled one; and a   *)
(* revert ends only once every row has its original value again.           *)
(*                                                                         *)
(* A row whose original a revert failed to write back is void: from then   *)
(* on the ledger promises nothing of it.                                   *)
(***************************************************************************)
CONSTANTS
  Rows,       \* the rows of the table
  Values,     \* what an HP field can hold
  Original,   \* the HP of each row before anything is scaled
  Allowed     \* the values each row may be scaled to, from its original

VARIABLES
  hp,     \* the HP of each row
  mode,   \* "open", or "reverting" while originals are written back
  void    \* the rows the promise no longer covers

vars == <<hp, mode, void>>

Init ==
  /\ hp = Original
  /\ mode = "open"
  /\ void = {}

Put(r, v) == hp' = [hp EXCEPT ![r] = v]

(* A row is scaled, for as long as no revert is under way.                 *)
Scale(r) ==
  /\ mode = "open"
  /\ \E v \in Values : Put(r, v) /\ (r \in void \/ v \in Allowed[r])
  /\ UNCHANGED <<mode, void>>

BeginRevert ==
  /\ mode = "open"
  /\ mode' = "reverting"
  /\ UNCHANGED <<hp, void>>

RevertRow(r) ==
  /\ mode = "reverting"
  /\ \E v \in Values : Put(r, v) /\ (r \in void \/ v = Original[r])
  /\ UNCHANGED <<mode, void>>

MissRow(r) ==
  /\ mode = "reverting"
  /\ void' = void \cup {r}
  /\ UNCHANGED <<hp, mode>>

(* Exactness: every row still covered is back at its original.             *)
EndRevert ==
  /\ mode = "reverting"
  /\ \A r \in Rows \ void : hp[r] = Original[r]
  /\ mode' = "open"
  /\ UNCHANGED <<hp, void>>

Next ==
  \/ \E r \in Rows : Scale(r) \/ RevertRow(r) \/ MissRow(r)
  \/ BeginRevert
  \/ EndRevert

Spec == Init /\ [][Next]_vars
=============================================================================
