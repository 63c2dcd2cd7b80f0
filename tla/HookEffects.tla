---------------------------- MODULE HookEffects -----------------------------
(***************************************************************************)
(* What each hook function of dll/hooks makes of the argument it is called *)
(* with.                                                                   *)
(*                                                                         *)
(* A host or a path is a sequence of tokens: a token is one of the strings *)
(* that the code looks for, in one of its spellings, or any other text.    *)
(* ".sl2" cannot overlap itself, so its occurrences are the tokens.  An    *)
(* extension stands for the dot and what follows it.                       *)
(***************************************************************************)
EXTENDS Integers, Sequences

Dns == {"getaddrinfo", "gethostbyname"}
SaveOpens == {"CreateFileW", "CreateFileA"}
Functions == Dns \cup SaveOpens \cup {"connect"}

(* host_endswith, which compares without regard to case.                   *)
DenySuffixes == {".fromsoftware-game.net", ".FROMSOFTWARE-GAME.NET", ".fromsoftware.jp"}

IsFromSoft(host) == host # <<>> /\ host[Len(host)] \in DenySuffixes

Sl2 == {".sl2", ".SL2"}

IsSave(path) == \E i \in DOMAIN path : path[i] \in Sl2

(* Windows compares names without regard to case.                          *)
Folded(path) == [i \in DOMAIN path |-> IF path[i] \in Sl2 THEN ".sl2" ELSE path[i]]

MutRewriteUpToExtension(path, ext) ==
  LET i == CHOOSE j \in DOMAIN path : path[j] \in Sl2
  IN  SubSeq(path, 1, i - 1) \o <<ext>>

MutRewriteCaseSensitive(path, ext) ==
  [i \in DOMAIN path |-> IF path[i] = ".sl2" THEN ext ELSE path[i]]

(* Every occurrence, in whatever spelling, becomes the extension.          *)
Rewrite(path, ext) == [i \in DOMAIN path |-> IF path[i] \in Sl2 THEN ext ELSE path[i]]

LoginPort == 50031
DefaultPort == 50050
DefaultExt == [f \in SaveOpens |-> ".co2"]

(* The arguments a hook is there for.                                      *)
Target(f, a) ==
  \/ f \in Dns /\ IsFromSoft(a)
  \/ f \in SaveOpens /\ IsSave(a)
  \/ f = "connect" /\ a = LoginPort

Blocked == <<"WSAHOST_NOT_FOUND">>

(* What reaches the system of a call that a hook gets: nothing at all, or  *)
(* the argument, with the extension or the port it was configured with.    *)
Effect(f, a, ext, port) ==
  IF ~ Target(f, a) THEN a
  ELSE IF f \in Dns THEN Blocked
  ELSE IF f \in SaveOpens THEN Rewrite(a, ext[f])
  ELSE port
=============================================================================
