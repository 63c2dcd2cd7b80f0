---------------------------- MODULE Interception ----------------------------
(***************************************************************************)
(* What installing hooks beside a running game amounts to.  Each function  *)
(* has a switch that is turned on once and for good.  A call is decided at *)
(* one instant, when it is made: with the switch off the system gets the   *)
(* game's argument, with the switch on what the hook makes of it.  What    *)
(* the hooks are configured with never changes under an active one.        *)
(***************************************************************************)
EXTENDS HookEffects

CONSTANTS
  Callers,  \* the threads of the game
  Requests  \* the calls each may make, pairs of a function and an argument

VARIABLES
  on,    \* the functions whose calls are intercepted
  ext,   \* the extension of each function that opens files
  port,  \* the port of the coordinator
  gets   \* for each caller in a call: the function, and what the system gets

vars == <<on, ext, port, gets>>

NoCall == <<"none", "none">>

Init ==
  /\ on = {}
  /\ ext = DefaultExt
  /\ port = DefaultPort
  /\ gets = [t \in Callers |-> NoCall]

Configure ==
  /\ on \cap SaveOpens # {} => ext' = ext
  /\ "connect" \in on => port' = port
  /\ UNCHANGED <<on, gets>>

TurnOn(f) ==
  /\ on' = on \cup {f}
  /\ UNCHANGED <<ext, port, gets>>

Begin(t, f, a) ==
  /\ gets[t] = NoCall
  /\ gets' = [gets EXCEPT ![t] = <<f, IF f \in on THEN Effect(f, a, ext, port) ELSE a>>]
  /\ UNCHANGED <<on, ext, port>>

End(t) ==
  /\ gets[t] # NoCall
  /\ gets' = [gets EXCEPT ![t] = NoCall]
  /\ UNCHANGED <<on, ext, port>>

Next ==
  \/ Configure
  \/ \E f \in Functions : TurnOn(f)
  \/ \E t \in Callers :
       \/ End(t)
       \/ \E r \in Requests[t] : Begin(t, r[1], r[2])

Spec == Init /\ [][Next]_vars
=============================================================================
