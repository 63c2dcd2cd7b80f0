----------------------------- MODULE MCRedirect -----------------------------
(* Images with every string once, with copies of each, with no host at all,*)
(* and with a key that ends without a newline or has lost its END.  What   *)
(* follows a key's newline is not another newline: in the executable it is *)
(* the NUL that ends the string.                                           *)
EXTENDS Redirect

Wide == <<"f", "nul", "s", "nul">>

Key == <<"BEGIN", "k", "k", "END">>

MCImages ==
  { <<"x">> \o Wide \o <<"x">> \o Key \o <<"nl", "x">>,
    OrigHost \o <<"x">> \o Wide \o Wide \o Key \o <<"nl">> \o Key \o <<"x">>,
    <<"x">> \o Key \o <<"nl", "x">> \o Key,
    Wide \o <<"nul">> \o Key \o <<"x", "BEGIN", "k">> }

(* None, a shorter one, one of the same length, one that is too long.      *)
MCHosts == { <<>>, <<"c">>, <<"c", "d">>, <<"c", "d", "e">> }

(* A shorter key, keys of the slot's length with and without a newline, and*)
(* one with a carriage return before each newline.                         *)
MCKeys ==
  { <<"BEGIN", "q", "END">>, <<"BEGIN", "q", "r", "END">>,
    <<"BEGIN", "q", "r", "END", "nl">>, <<"BEGIN", "q", "r", "cr", "END", "cr", "nl">> }

(* The instance is as tidy as the proofs assume.                           *)
ASSUME MCRedirectTidy == ForeignStrings /\ TidyImages
=============================================================================
