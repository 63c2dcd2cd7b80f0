------------------------------ MODULE MCHooks -------------------------------
(* The host imports connect by ordinal, and the rest by name.              *)
EXTENDS Hooks

MCPresent ==
  {"getaddrinfo", "gethostbyname", "CreateFileW", "CreateFileA"} \X {"name"}
    \cup { <<"connect", "ordinal">> }

(* The slots of one library are next to each other, on one page.           *)
MCPageOf == [f \in Functions |-> IF f \in SaveOpens THEN "kernel32" ELSE "ws2_32"]

(* What bootstrap calls, with an install() that guards itself called twice *)
(* in a row.                                                               *)
MCTwice ==
  <<"dns", "configure savefile", "savefile", "savefile", "configure redirect", "redirect">>

(* The redirect, whose guard looks at the strings it found only.           *)
MCRedirectTwice == <<"redirect", "redirect">>

(* A thread that does everything, and one that saves.                      *)
CONSTANTS g1, g2

MCCallers == {g1, g2}

Hosts == { <<"login", ".FROMSOFTWARE-GAME.NET">>, <<"fs", ".fromsoftware.jp", ".org">> }

MCRequests ==
  [t \in MCCallers |->
     IF t = g1
     THEN ({"getaddrinfo"} \X Hosts)
          \cup { <<"gethostbyname", <<"fs", ".fromsoftware.jp">> >> }
          \cup { <<"CreateFileW", <<"X", ".SL2">> >> }
          \cup ({"connect"} \X { LoginPort, 443 })
     ELSE {"CreateFileA"} \X { <<"X", ".sl2">>, <<"X", ".sl2", ".bak">> }]
=============================================================================
