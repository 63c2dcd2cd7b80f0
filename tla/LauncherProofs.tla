--------------------------- MODULE LauncherProofs ---------------------------
(***************************************************************************)
(* Proofs about Launcher, whatever the exit codes of a running and of a    *)
(* killed thread are: the game only ever runs with the mod in it, no       *)
(* handle or buffer is given back while it is in use, and the launcher     *)
(* reports what has become of the game, each up to the calls that fail     *)
(* without its notice.                                                     *)
(***************************************************************************)
EXTENDS Launcher, TLAPS

USE LauncherAssumption

Before == {"check", "create", "alloc", "write", "thread"}

(* The game is there from its creation on, and suspended until the         *)
(* launcher's end; a launcher that ends has ended it, or resumed it, or    *)
(* not noticed that it could not.                                          *)
GameAt ==
  /\ at \in {"check", "create"} => game = "none"
  /\ at \in {"alloc", "write", "thread", "wait", "code", "free", "terminate", "resume"} =>
       game \in {"suspended", "ended"}
  /\ at \in {"message", "fatal"} =>
       game \in {"none", "ended"} \/ (game = "suspended" /\ "terminate" \in missed)
  /\ at = "done" =>
       game \in {"running", "ended"} \/ (game = "suspended" /\ "resume" \in missed)
  /\ game = "running" => at = "done"

(* The launcher waits exactly while the remote thread runs, or has run.    *)
(* After a wait that fails, the thread may run on.                         *)
RemoteAt ==
  /\ at \in Before => remote = "none"
  /\ at \in {"code", "free", "resume", "done"} => remote = "ended" \/ "wait" \in missed
  /\ at = "thread" => buffer = "written"
  /\ remote = "running" => (at = "wait" /\ buffer = "written") \/ "wait" \in missed

(* An exit code that is not zero speaks of a loaded DLL, or of a game that *)
(* is gone.                                                                *)
CodeTells ==
  /\ dll = "loaded" => remote = "ended"
  /\ remote = "ended" => dll = "loaded" \/ code = 0 \/ game = "ended"
  /\ at = "free" => read \in {0, code} \/ "wait" \in missed
  /\ at \in {"resume", "done"} => dll = "loaded" \/ game = "ended" \/ "wait" \in missed

LauncherInv == TypeOK /\ GameAt /\ RemoteAt /\ CodeTells

LEMMA LauncherInvInit == Init => LauncherInv
BY DEF Init, LauncherInv, TypeOK, HandlesAt, Codes, Low32, GameAt, RemoteAt, Before, CodeTells

(* One action of the launcher, or of the game, at a time.                  *)
LEMMA LauncherInvStep == LauncherInv /\ [Next]_vars => LauncherInv'
<1> SUFFICES ASSUME LauncherInv, [Next]_vars PROVE LauncherInv'
  OBVIOUS
<1> USE DEF LauncherInv, TypeOK, HandlesAt, Codes, Low32, GameAt, RemoteAt, Before, CodeTells
<1>1. CASE CheckFiles
  BY <1>1 DEF CheckFiles, Fatal
<1>2. CASE CreateSuspended
  BY <1>2 DEF CreateSuspended, Fatal
<1>3. CASE Alloc
  BY <1>3 DEF Alloc
<1>4. CASE Write
  BY <1>4 DEF Write, Abandon, GiveBack
<1>5. CASE CreateRemote
  BY <1>5 DEF CreateRemote, Abandon, GiveBack
<1>6. CASE WaitRemote
  BY <1>6 DEF WaitRemote
<1>7. CASE ReadCode
  BY <1>7 DEF ReadCode
<1>8. CASE FreeBuffer
  BY <1>8 DEF FreeBuffer, GiveBack
<1>9. CASE Terminate
  <2>1. /\ at' = "message" /\ handles' = {} /\ at = "terminate"
        /\ UNCHANGED <<dll, boot, buffer, read>>
    BY <1>9 DEF Terminate, Fatal
  <2>2. CASE EndGame /\ UNCHANGED missed
    BY <2>1, <2>2 DEF EndGame
  <2>3. CASE missed' = missed \cup {"terminate"} /\ UNCHANGED <<game, remote, code>>
    BY <2>1, <2>3
  <2> QED
    BY <1>9, <2>2, <2>3 DEF Terminate
<1>10. CASE Resume
  <2>1. /\ at = "resume" /\ at' = "done" /\ handles' = {}
        /\ UNCHANGED <<dll, boot, buffer, remote, code, read>>
    BY <1>10 DEF Resume
  <2>2. CASE game' = (IF game = "suspended" THEN "running" ELSE game) /\ UNCHANGED missed
    BY <2>1, <2>2
  <2>3. CASE missed' = missed \cup {"resume"} /\ UNCHANGED game
    BY <2>1, <2>3
  <2> QED
    BY <1>10, <2>2, <2>3 DEF Resume
<1>11. CASE Dismiss
  BY <1>11 DEF Dismiss
<1>12. CASE LoadBegins
  BY <1>12 DEF LoadBegins
<1>13. CASE LoadEnds
  BY <1>13 DEF LoadEnds
<1>14. CASE BootInstalls
  BY <1>14 DEF BootInstalls
<1>15. CASE GameKilled
  BY <1>15 DEF GameKilled, EndGame
<1>16. CASE WaitFails
  BY <1>16 DEF WaitFails
<1>17. CASE UNCHANGED vars
  BY <1>17 DEF vars
<1> QED
  BY <1>1, <1>2, <1>3, <1>4, <1>5, <1>6, <1>7, <1>8, <1>9, <1>10, <1>11, <1>12, <1>13, <1>14,
     <1>15, <1>16, <1>17 DEF Next, LauncherStep

LEMMA LauncherInvAlways == Spec => []LauncherInv
BY LauncherInvInit, LauncherInvStep, PTL DEF Spec

(* Types, and the handles the launcher holds at each point of its course.  *)
THEOREM LauncherTypes == Spec => []TypeOK
BY LauncherInvAlways, PTL DEF LauncherInv

(* Whatever call fails, and whenever the game is killed, a game that runs  *)
(* has the mod in it, or the wait for it has failed.                       *)
THEOREM RunsWithModOnlyAlways == Spec => []RunsWithModOnly
<1>1. LauncherInv => RunsWithModOnly
  BY DEF LauncherInv, GameAt, CodeTells, RunsWithModOnly
<1> QED
  BY <1>1, LauncherInvAlways, PTL

(* LoadLibraryW never reads a path that has been freed, unless the wait    *)
(* for it has failed.                                                      *)
THEOREM BufferOutlivesRemoteAlways == Spec => []BufferOutlivesRemote
<1>1. LauncherInv => BufferOutlivesRemote
  BY DEF LauncherInv, RemoteAt, BufferOutlivesRemote
<1> QED
  BY <1>1, LauncherInvAlways, PTL

(* An error message stands for no game, a silent end for one that runs     *)
(* with the mod or has been killed since, and every exception for the      *)
(* failure of one of the three calls whose result is not looked at.        *)
THEOREM SaysWhatItLeavesAlways == Spec => []SaysWhatItLeaves
<1>1. LauncherInv => SaysWhatItLeaves
  BY DEF LauncherInv, TypeOK, GameAt, CodeTells, SaysWhatItLeaves
<1> QED
  BY <1>1, LauncherInvAlways, PTL
=============================================================================
