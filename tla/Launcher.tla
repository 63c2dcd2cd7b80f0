------------------------------ MODULE Launcher ------------------------------
(***************************************************************************)
(* launcher/main.cpp: start the game suspended, have a thread in it load   *)
(* the DLL, and resume it or put an end to it.                             *)
(*                                                                         *)
(* Two processes run: the launcher, one system call per step, and the game,*)
(* of which the remote thread is the only one that runs before the resume. *)
(* Every system call on the game may fail, also where nobody looks at the  *)
(* result; and someone else may kill the game at any time (its user, an    *)
(* anti-virus).  On a machine without failures only the remote thread's    *)
(* LoadLibraryW interleaves with the launcher.                             *)
(***************************************************************************)
EXTENDS Naturals

CONSTANTS
  StillActive,   \* the exit code of a thread that has not ended: not zero
  Killed         \* the exit code of a thread whose process was killed

(* What LoadLibraryW returns has 64 bits; a thread's exit code keeps the   *)
(* low 32, which may all be zero (a base at a multiple of 4 GiB).          *)
Low32 == {0, 1}

ASSUME LauncherAssumption ==
  /\ StillActive \notin Low32
  /\ Killed \notin Low32

VARIABLES
  at,        \* the launcher's next system call, or how it has ended
  game,      \* the game: none, suspended, running or ended
  dll,       \* ds2sc.dll in the game: absent, loading or loaded
  boot,      \* its bootstrap thread: none, started, or done installing hooks
  buffer,    \* the path's buffer in the game: none, raw, written or freed
  remote,    \* the remote thread: none, running or ended
  code,      \* the remote thread's exit code, as its handle tells it
  read,      \* remote_module: the exit code the launcher has read
  handles,   \* the launcher's open handles
  missed     \* the calls that failed unnoticed, a history

vars == <<at, game, dll, boot, buffer, remote, code, read, handles, missed>>

Init ==
  /\ at = "check"
  /\ game = "none"
  /\ dll = "absent"
  /\ boot = "none"
  /\ buffer = "none"
  /\ remote = "none"
  /\ code = StillActive
  /\ read = 0
  /\ handles = {}
  /\ missed = {}

-----------------------------------------------------------------------------
(* wWinMain, before the game exists.                                       *)

(* fatal() shows a message box, and once the user has read it the launcher *)
(* exits.  There are no handles left at that point.                        *)
Fatal ==
  /\ at' = "message"
  /\ handles' = {}

Dismiss ==
  /\ at = "message"
  /\ at' = "fatal"
  /\ UNCHANGED <<game, dll, boot, buffer, remote, code, read, handles, missed>>

CheckFiles ==
  /\ at = "check"
  /\ \/ Fatal
     \/ at' = "create" /\ UNCHANGED handles
  /\ UNCHANGED <<game, dll, boot, buffer, remote, code, read, missed>>

CreateSuspended ==
  /\ at = "create"
  /\ \/ Fatal /\ UNCHANGED game
     \/ /\ game' = "suspended"
        /\ handles' = {"process", "thread"}
        /\ at' = "alloc"
  /\ UNCHANGED <<dll, boot, buffer, remote, code, read, missed>>

-----------------------------------------------------------------------------
(* inject().                                                               *)

Alloc ==
  /\ at = "alloc"
  /\ \/ at' = "terminate" /\ UNCHANGED buffer
     \/ at' = "write" /\ buffer' = "raw" /\ game # "ended"
  /\ UNCHANGED <<game, dll, boot, remote, code, read, handles, missed>>

(* VirtualFreeEx may fail too, and leave the buffer there for good.        *)
GiveBack == buffer' \in {"freed", buffer}

(* A failure gives the buffer back before inject() returns false.          *)
Abandon ==
  /\ at' = "terminate"
  /\ GiveBack

Write ==
  /\ at = "write"
  /\ \/ Abandon
     \/ at' = "thread" /\ buffer' = "written" /\ game # "ended"
  /\ UNCHANGED <<game, dll, boot, remote, code, read, handles, missed>>

(* GetProcAddress may fail too, with the same outcome.                     *)
CreateRemote ==
  /\ at = "thread"
  /\ \/ Abandon /\ UNCHANGED <<remote, handles>>
     \/ /\ game # "ended"
        /\ remote' = "running"
        /\ handles' = handles \cup {"remote"}
        /\ at' = "wait"
        /\ UNCHANGED buffer
  /\ UNCHANGED <<game, dll, boot, code, read, missed>>

MutWaitTimesOut ==
  /\ at = "wait"
  /\ at' = "code"
  /\ UNCHANGED <<game, dll, boot, buffer, remote, code, read, handles, missed>>

(* WaitForSingleObject(rt, INFINITE).  When it fails, the launcher goes on *)
(* as if the thread had ended.                                             *)
WaitRemote ==
  /\ at = "wait"
  /\ remote = "ended"
  /\ at' = "code"
  /\ UNCHANGED <<game, dll, boot, buffer, remote, code, read, handles, missed>>

WaitFails ==
  /\ at = "wait"
  /\ at' = "code"
  /\ missed' = missed \cup {"wait"}
  /\ UNCHANGED <<game, dll, boot, buffer, remote, code, read, handles>>

MutReadCodeLeaks ==
  /\ at = "code"
  /\ read' \in {code, 0}
  /\ at' = "free"
  /\ UNCHANGED <<game, dll, boot, buffer, remote, code, handles, missed>>

(* GetExitCodeThread, which leaves the zero there if it fails, and         *)
(* CloseHandle on the thread.                                              *)
ReadCode ==
  /\ at = "code"
  /\ read' \in {code, 0}
  /\ handles' = handles \ {"remote"}
  /\ at' = "free"
  /\ UNCHANGED <<game, dll, boot, buffer, remote, code, missed>>

(* VirtualFreeEx, and `return remote_module != 0`.                         *)
FreeBuffer ==
  /\ at = "free"
  /\ GiveBack
  /\ at' = IF read # 0 THEN "resume" ELSE "terminate"
  /\ UNCHANGED <<game, dll, boot, remote, code, read, handles, missed>>

-----------------------------------------------------------------------------
(* wWinMain, after inject().                                               *)

EndGame ==
  /\ game' = IF game = "none" THEN "none" ELSE "ended"
  /\ remote' = IF remote = "running" THEN "ended" ELSE remote
  /\ code' = IF remote = "running" THEN Killed ELSE code

MutLeaveSuspended ==
  /\ at = "terminate"
  /\ Fatal
  /\ UNCHANGED <<game, dll, boot, buffer, remote, code, read, missed>>

(* TerminateProcess: the launcher goes on to its message either way.       *)
Terminate ==
  /\ at = "terminate"
  /\ \/ EndGame /\ UNCHANGED missed
     \/ missed' = missed \cup {"terminate"} /\ UNCHANGED <<game, remote, code>>
  /\ Fatal
  /\ UNCHANGED <<dll, boot, buffer, read>>

(* ResumeThread: the launcher returns 0 either way.                        *)
Resume ==
  /\ at = "resume"
  /\ \/ game' = (IF game = "suspended" THEN "running" ELSE game) /\ UNCHANGED missed
     \/ missed' = missed \cup {"resume"} /\ UNCHANGED game
  /\ handles' = handles \ {"process", "thread"}
  /\ at' = "done"
  /\ UNCHANGED <<dll, boot, buffer, remote, code, read>>

LauncherStep ==
  \/ CheckFiles
  \/ CreateSuspended
  \/ Alloc
  \/ Write
  \/ CreateRemote
  \/ WaitRemote
  \/ ReadCode
  \/ FreeBuffer
  \/ Terminate
  \/ Resume
  \/ Dismiss

-----------------------------------------------------------------------------
(* The game.                                                               *)

(* LoadLibraryW reads the path from the buffer and runs DllMain, in which  *)
(* CreateThread may fail.  A path that is gone makes for a load that fails *)
(* or a game that crashes, which LoadEnds and GameKilled allow for.        *)
LoadBegins ==
  /\ remote = "running" /\ game # "ended"
  /\ dll = "absent"
  /\ dll' = "loading"
  /\ boot' \in {"none", "started"}
  /\ UNCHANGED <<at, game, buffer, remote, code, read, handles, missed>>

(* It returns the module's base, or zero if the DLL did not load.          *)
LoadEnds ==
  /\ remote = "running" /\ game # "ended"
  /\ dll = "loading"
  /\ remote' = "ended"
  /\ \/ dll' = "loaded" /\ code' \in Low32
     \/ dll' = "absent" /\ code' = 0 /\ boot = "none"
  /\ UNCHANGED <<at, game, boot, buffer, read, handles, missed>>

(* The bootstrap thread waits for the loader lock, and then goes its way.  *)
BootInstalls ==
  /\ boot = "started" /\ dll = "loaded" /\ game # "ended"
  /\ boot' = "done"
  /\ UNCHANGED <<at, game, dll, buffer, remote, code, read, handles, missed>>

GameKilled ==
  /\ game \in {"suspended", "running"}
  /\ EndGame
  /\ UNCHANGED <<at, dll, boot, buffer, read, handles, missed>>

Next ==
  \/ LauncherStep
  \/ WaitFails
  \/ LoadBegins
  \/ LoadEnds
  \/ BootInstalls
  \/ GameKilled

Spec == Init /\ [][Next]_vars

(* The launcher runs, and LoadLibraryW returns: DllMain only starts a      *)
(* thread, so nothing in it waits.  A wait need not fail.                  *)
FairSpec == Spec /\ WF_vars(LauncherStep) /\ WF_vars(LoadBegins \/ LoadEnds)

-----------------------------------------------------------------------------
Codes == Low32 \cup {StillActive, Killed}

(* The handles the launcher should hold at each point of its course.       *)
HandlesAt ==
  IF at \in {"check", "create", "message", "done", "fatal"} THEN {}
  ELSE IF at \in {"wait", "code"} THEN {"process", "thread", "remote"}
  ELSE {"process", "thread"}

(* Types, and no handle is leaked or closed too early.                     *)
TypeOK ==
  /\ at \in {"check", "create", "alloc", "write", "thread", "wait", "code",
             "free", "terminate", "resume", "message", "done", "fatal"}
  /\ game \in {"none", "suspended", "running", "ended"}
  /\ dll \in {"absent", "loading", "loaded"}
  /\ boot \in {"none", "started", "done"}
  /\ buffer \in {"none", "raw", "written", "freed"}
  /\ remote \in {"none", "running", "ended"}
  /\ code \in Codes
  /\ read \in Codes
  /\ handles = HandlesAt
  /\ missed \subseteq {"wait", "terminate", "resume"}

(* The game never runs without the mod in it: neither an early look at the *)
(* exit code nor a failed load lets its main thread go.  What the launcher *)
(* does not see is a wait that fails.                                      *)
RunsWithModOnly == game = "running" => dll = "loaded" \/ "wait" \in missed

(* The remote thread's argument outlives its use, unless the wait fails.   *)
BufferOutlivesRemote == remote = "running" => buffer = "written" \/ "wait" \in missed

(* What the launcher leaves the user with is what it says, but for the     *)
(* three calls whose failure it does not notice: an error stands for no    *)
(* game, or for one that TerminateProcess could not end; a silent end for  *)
(* a game with the mod loaded that runs, that ResumeThread could not       *)
(* resume, or that somebody else has ended.                                *)
SaysWhatItLeaves ==
  /\ at \in {"message", "fatal"} =>
       \/ game \in {"none", "ended"}
       \/ game = "suspended" /\ "terminate" \in missed
  /\ at = "done" =>
       \/ game = "ended"
       \/ /\ dll = "loaded" \/ "wait" \in missed
          /\ game = "running" \/ (game = "suspended" /\ "resume" \in missed)

(* A launcher that has ended, in whatever way, leaves a game behind that   *)
(* nobody will ever resume only if it could neither end nor resume it.     *)
NeverLeftSuspended ==
  (game = "suspended") ~> (game # "suspended" \/ missed \cap {"terminate", "resume"} # {})
=============================================================================
