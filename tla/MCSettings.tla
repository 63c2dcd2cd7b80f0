----------------------------- MODULE MCSettings -----------------------------
(* Sections and keys that exist and that do not, and a key that belongs to *)
(* a section other than the one it may stand in.                           *)
EXTENDS Settings

MCNames == {"gameplay", "scaling", "network", "other"}

MCKeyNames ==
  {"allow_invaders", "enemy_health_scaling", "coordinator_port", "coordinator_host", "unknown"}

(* A text for either type, for a number only, and for neither.             *)
MCValues == {"1", "35", "abc"}
=============================================================================
