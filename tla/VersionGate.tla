---------------------------- MODULE VersionGate -----------------------------
(***************************************************************************)
(* dll/version_gate.cpp: check() hashes the host executable and compares   *)
(* the digest with the one of the build that the offsets are for.          *)
(*                                                                         *)
(* A digest is the sequence of bytes that was hashed: SHA-256 is taken to  *)
(* have no collisions.  Every call may fail, and a ReadFile that fails     *)
(* ends the loop exactly as the end of the file does.  The three handles   *)
(* are local to the call and closed on every way out; they are left out.   *)
(***************************************************************************)
EXTENDS Integers, Sequences

CONSTANTS
  Exes,      \* what the host executable may be, a sequence of bytes
  Expected,  \* the executable whose digest is EXPECTED_SHA256
  Chunk      \* how many bytes one ReadFile asks for, 64 KiB in the code

ASSUME GateAssumption ==
  /\ Exes \subseteq Seq(Nat)
  /\ Expected \in Seq(Nat)
  /\ Chunk \in Nat \ {0}

VARIABLES
  exe,      \* the file that GetModuleFileNameW names
  gate,     \* the next call of check(), or done
  offset,   \* how much of the file ReadFile has returned
  buf,      \* what it returned last
  hashed,   \* the bytes given to BCryptHashData
  verdict   \* what check() returns

gateVars == <<exe, gate, offset, buf, hashed, verdict>>

GateInit ==
  /\ exe \in Exes
  /\ gate = "setup"
  /\ offset = 0
  /\ buf = <<>>
  /\ hashed = <<>>
  /\ verdict = FALSE

-----------------------------------------------------------------------------
(* check() returns, and its locals are gone; ok is sha256_file's result.   *)
Conclude(ok) ==
  /\ gate' = "done"
  /\ verdict' = (ok /\ hashed = Expected)
  /\ offset' = 0
  /\ buf' = <<>>
  /\ hashed' = <<>>
  /\ UNCHANGED exe

(* The path is too long, the file cannot be opened, or a BCrypt call that  *)
(* sets the hash up, takes a chunk or finishes the digest fails.           *)
GateFails == gate # "done" /\ Conclude(FALSE)

(* The file is open, and BCryptCreateHash has begun an empty hash.         *)
GateSetsUp ==
  /\ gate = "setup"
  /\ gate' = "read"
  /\ UNCHANGED <<exe, offset, buf, hashed, verdict>>

(* ReadFile returns a chunk, a shorter one only at the end of the file.    *)
GateReads ==
  /\ gate = "read"
  /\ offset < Len(exe)
  /\ buf' = SubSeq(exe, offset + 1, IF offset + Chunk < Len(exe) THEN offset + Chunk ELSE Len(exe))
  /\ offset' = offset + Len(buf')
  /\ gate' = "feed"
  /\ UNCHANGED <<exe, hashed, verdict>>

MutGateFeeds ==
  /\ gate = "feed"
  /\ hashed' \in {hashed, hashed \o buf}
  /\ gate' = "read"
  /\ UNCHANGED <<exe, offset, buf, verdict>>

(* BCryptHashData takes what was read.                                     *)
GateFeeds ==
  /\ gate = "feed"
  /\ hashed' = hashed \o buf
  /\ gate' = "read"
  /\ UNCHANGED <<exe, offset, buf, verdict>>

(* ReadFile returns nothing, or fails: BCryptFinishHash, and the memcmp.   *)
GateFinishes == gate = "read" /\ Conclude(TRUE)

GateStep ==
  \/ GateFails
  \/ GateSetsUp
  \/ GateReads
  \/ GateFeeds
  \/ GateFinishes

-----------------------------------------------------------------------------
GateTypeOK ==
  /\ exe \in Exes
  /\ gate \in {"setup", "read", "feed", "done"}
  /\ offset \in 0 .. Len(exe)
  /\ buf \in Seq(Nat)
  /\ hashed \in Seq(Nat)
  /\ verdict \in BOOLEAN

(* The executable is the known one, as far as that goes.                   *)
KnownExe == Len(exe) >= Len(Expected) /\ SubSeq(exe, 1, Len(Expected)) = Expected
=============================================================================
