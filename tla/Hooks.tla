------------------------------- MODULE Hooks --------------------------------
(***************************************************************************)
(* Installing the hooks while the game runs: dll/hooks/iat.cpp and the     *)
(* install() and hook functions of the three modules of dll/hooks that use *)
(* it.                                                                     *)
(*                                                                         *)
(* One thread, bootstrap, patches slots of the import address table (IAT)  *)
(* one memory access at a time.  The game's threads call through the same  *)
(* slots all along: a call fetches the slot, runs what it finds there, and *)
(* a hook forwards to the pointer that patch_iat saved.  Nothing locks.    *)
(* Aligned pointer accesses are atomic and x64 keeps stores in order.      *)
(* What a hook makes of its argument is in HookEffects.                    *)
(***************************************************************************)
EXTENDS HookEffects

CONSTANTS
  Plan,        \* the configure() and install() calls, in their order
  Present,     \* the imports the host has: <<function, "name" or "ordinal">>
  Callers,     \* threads of the game
  Requests,    \* the calls each makes: <<function, argument>>
  Extensions,  \* what the setting save_file_extension may be
  Ports,       \* what the setting coordinator_port may be
  PageOf,      \* the page of memory that each function's slot is on
  MayFail      \* whether VirtualProtect may fail

Modules == {"dns", "savefile", "redirect"}
Configures == {"configure savefile", "configure redirect"}

(* The patches each install() tries, in order.                             *)
DnsLookups == << <<"getaddrinfo", "name">>, <<"gethostbyname", "name">> >>
SaveLookups == << <<"CreateFileW", "name">>, <<"CreateFileA", "name">> >>
RedirectLookups == << <<"connect", "name">>, <<"connect", "ordinal">> >>

Lookups == [dns |-> DnsLookups, savefile |-> SaveLookups, redirect |-> RedirectLookups]

ASSUME HooksAssumption ==
  /\ Plan \in Seq(Modules \cup Configures)
  /\ Present \subseteq Functions \X {"name", "ordinal"}
  /\ \A f \in Functions : {<<f, "name">>, <<f, "ordinal">>} \cap Present # {}
  /\ \A t \in Callers : \A r \in Requests[t] : r = <<r[1], r[2]>> /\ r[1] \in Functions
  /\ Ports \subseteq Int
  /\ DOMAIN PageOf = Functions
  /\ MayFail \in BOOLEAN

VARIABLES
  slot,       \* what each function's IAT slot points at: orig or hook
  saved,      \* the g_orig pointer of each hook: null, orig or hook
  writable,   \* the pages of the import table that are writable
  old_prot,   \* of the patch in progress: read-only, writable, or no patch
  unrestored, \* the pages whose protection could not be restored, a history
  left,       \* the part of the plan still to come
  step,       \* the next memory access of the install in progress
  next,       \* the lookup of the install in progress, an index of Lookups
  any,        \* whether the install in progress has patched something
  installed,  \* each module's g_installed
  ext,        \* g_ext_w and g_ext_a, by the function whose hook reads it
  port,       \* g_login_port
  call        \* for each caller: where it is, and with what argument

pageVars == <<writable, old_prot, unrestored>>
installVars == <<slot, saved, pageVars, left, step, next, any, installed>>
configVars == <<ext, port>>
vars == <<installVars, configVars, call>>

Idle == [at |-> "idle"]

Init ==
  /\ slot = [f \in Functions |-> "orig"]
  /\ saved = [f \in Functions |-> "null"]
  /\ writable = {}
  /\ old_prot = "none"
  /\ unrestored = {}
  /\ left = Plan
  /\ step = "enter"
  /\ next = 1
  /\ any = FALSE
  /\ installed = [m \in Modules |-> FALSE]
  /\ ext = DefaultExt
  /\ port = DefaultPort
  /\ call = [t \in Callers |-> Idle]

-----------------------------------------------------------------------------
(* configure().                                                            *)

ConfigureNow(c) ==
  /\ left # <<>>
  /\ Head(left) = c
  /\ left' = Tail(left)
  /\ UNCHANGED <<slot, saved, pageVars, step, next, any, installed, call>>

MutConfigureNarrow ==
  /\ ConfigureNow("configure savefile")
  /\ \E e \in Extensions :
       ext' = IF e = "" THEN ext ELSE [ext EXCEPT !["CreateFileA"] = e]
  /\ UNCHANGED port

(* An empty extension leaves the default.                                  *)
ConfigureSave ==
  /\ ConfigureNow("configure savefile")
  /\ \E e \in Extensions : ext' = IF e = "" THEN ext ELSE [f \in SaveOpens |-> e]
  /\ UNCHANGED port

ValidPort(p) == p > 0 /\ p <= 65535

(* A port out of range leaves the default, without a word.                 *)
ConfigureRedirect ==
  /\ ConfigureNow("configure redirect")
  /\ \E p \in Ports : port' = IF ValidPort(p) THEN p ELSE port
  /\ UNCHANGED ext

-----------------------------------------------------------------------------
(* install(), of the module at the head of the plan.                       *)

Module == Head(left)
Lookup == Lookups[Module][next]
Imported == Lookup[1]

At(s) == left # <<>> /\ Module \in Modules /\ step = s

(* install() returns, and the thread goes on to its next install.          *)
Leave ==
  /\ left' = Tail(left)
  /\ step' = "enter"
  /\ next' = 1
  /\ any' = FALSE

(* `if (g_installed) return`, and the redirect's empty-host return.        *)
EnterAndReturn ==
  /\ At("enter")
  /\ installed[Module] \/ Module = "redirect"
  /\ Leave
  /\ UNCHANGED <<slot, saved, pageVars, installed, configVars, call>>

Enter ==
  /\ At("enter")
  /\ ~ installed[Module]
  /\ step' = "lookup"
  /\ UNCHANGED <<slot, saved, pageVars, left, next, any, installed, configVars, call>>

MutNextLookup(ok) ==
  /\ any' = (any \/ ok)
  /\ IF next > Len(Lookups[Module]) \/ (Module = "redirect" /\ ok)
       THEN step' = "finish" /\ UNCHANGED next
       ELSE step' = "lookup" /\ next' = next + 1

(* One patch is over, successfully or not.  The redirect tries the ordinal *)
(* only if the name failed; the others try both names.                     *)
NextLookup(ok) ==
  /\ any' = (any \/ ok)
  /\ IF next = Len(Lookups[Module]) \/ (Module = "redirect" /\ ok)
       THEN step' = "finish" /\ UNCHANGED next
       ELSE step' = "lookup" /\ next' = next + 1

(* The import is not there, or its page cannot be made writable.           *)
PatchFails ==
  /\ At("lookup")
  /\ Lookup \notin Present \/ MayFail
  /\ NextLookup(FALSE)
  /\ UNCHANGED <<slot, saved, pageVars, left, installed, configVars, call>>

(* VirtualProtect works on pages: other slots become writable with this    *)
(* one.  It returns the page's protection as it was.                       *)
Page == PageOf[Imported]

MakeWritable ==
  /\ At("lookup")
  /\ Lookup \in Present
  /\ writable' = writable \cup {Page}
  /\ old_prot' = IF Page \in writable THEN "writable" ELSE "read-only"
  /\ step' = "save"
  /\ UNCHANGED <<slot, saved, unrestored, left, next, any, installed, configVars, call>>

MutSaveNothing ==
  /\ At("save")
  /\ step' = "store"
  /\ UNCHANGED <<slot, saved, pageVars, left, next, any, installed, configVars, call>>

(* *out_old = *slot                                                        *)
SaveOld ==
  /\ At("save")
  /\ saved' = [saved EXCEPT ![Imported] = slot[Imported]]
  /\ step' = "store"
  /\ UNCHANGED <<slot, pageVars, left, next, any, installed, configVars, call>>

(* *slot = new_func                                                        *)
StoreNew ==
  /\ At("store")
  /\ slot' = [slot EXCEPT ![Imported] = "hook"]
  /\ step' = "protect"
  /\ UNCHANGED <<saved, pageVars, left, next, any, installed, configVars, call>>

MutProtectForgotten ==
  /\ At("protect")
  /\ old_prot' = "none"
  /\ NextLookup(TRUE)
  /\ UNCHANGED <<slot, saved, writable, unrestored, left, installed, configVars, call>>

(* The page gets the protection it had.  Nobody looks at the result: when  *)
(* this fails the page stays writable, which the next patch on it takes    *)
(* for its old protection.                                                 *)
ProtectAgain ==
  /\ At("protect")
  /\ \/ /\ writable' = IF old_prot = "writable" THEN writable ELSE writable \ {Page}
        /\ UNCHANGED unrestored
     \/ /\ MayFail
        /\ unrestored' = unrestored \cup {Page}
        /\ UNCHANGED writable
  /\ old_prot' = "none"
  /\ NextLookup(TRUE)
  /\ UNCHANGED <<slot, saved, left, installed, configVars, call>>

MutInstalledByRedirectOnly ==
  /\ At("finish")
  /\ installed' = [installed EXCEPT ![Module] = Module = "redirect" /\ any]
  /\ Leave
  /\ UNCHANGED <<slot, saved, pageVars, configVars, call>>

(* g_installed: any patch made will do for dns and savefile; the redirect  *)
(* sets it from the strings it has overwritten, not from the connect hook. *)
Finish ==
  /\ At("finish")
  /\ \E patched \in IF Module = "redirect" THEN BOOLEAN ELSE {any} :
       installed' = [installed EXCEPT ![Module] = patched]
  /\ Leave
  /\ UNCHANGED <<slot, saved, pageVars, configVars, call>>

InstallStep ==
  \/ ConfigureSave
  \/ ConfigureRedirect
  \/ EnterAndReturn
  \/ Enter
  \/ PatchFails
  \/ MakeWritable
  \/ SaveOld
  \/ StoreNew
  \/ ProtectAgain
  \/ Finish

-----------------------------------------------------------------------------
(* A call by the game; argument a null pointer aside, which every hook     *)
(* passes through.                                                         *)

(* The call fetches the slot and jumps to where it points.                 *)
Call(t, f, a) ==
  /\ call[t] = Idle
  /\ call' = [call EXCEPT ![t] = [at |-> slot[f], fn |-> f, asked |-> a, arg |-> a]]
  /\ UNCHANGED <<installVars, configVars>>

(* hooked_getaddrinfo and hooked_gethostbyname answer "host not found".    *)
HookBlocks(t) ==
  /\ call[t].at = "hook"
  /\ call[t].fn \in Dns
  /\ IsFromSoft(call[t].arg)
  /\ call' = [call EXCEPT ![t] = Idle]
  /\ UNCHANGED <<installVars, configVars>>

MutHookForwardsUnchanged(t) ==
  /\ call[t].at = "hook"
  /\ call[t].fn \in Dns => ~ IsFromSoft(call[t].arg)
  /\ call' = [call EXCEPT ![t].at = "forward"]
  /\ UNCHANGED <<installVars, configVars>>

(* hooked_w and hooked_a rewrite the path of a save, hooked_connect the    *)
(* login port; everything else passes through as it is.                    *)
HookRewrites(t) ==
  LET c == call[t]
  IN  /\ c.at = "hook"
      /\ c.fn \in Dns => ~ IsFromSoft(c.arg)
      /\ call' = [call EXCEPT ![t] =
                    [c EXCEPT !.at = "forward", !.arg = Effect(c.fn, c.arg, ext, port)]]
      /\ UNCHANGED <<installVars, configVars>>

MutForwardThroughSlot(t) ==
  /\ call[t].at = "forward"
  /\ call' = [call EXCEPT ![t].at = slot[call[t].fn]]
  /\ UNCHANGED <<installVars, configVars>>

(* The hook calls through its g_orig pointer.                              *)
Forward(t) ==
  LET old == saved[call[t].fn]
  IN  /\ call[t].at = "forward"
      /\ call' = [call EXCEPT ![t].at = IF old = "null" THEN "crashed" ELSE old]
      /\ UNCHANGED <<installVars, configVars>>

(* The original function of the system runs, and returns.                  *)
Original(t) ==
  /\ call[t].at = "orig"
  /\ call' = [call EXCEPT ![t] = Idle]
  /\ UNCHANGED <<installVars, configVars>>

CallStep(t) == HookBlocks(t) \/ HookRewrites(t) \/ Forward(t) \/ Original(t)

Next ==
  \/ InstallStep
  \/ \E t \in Callers :
       CallStep(t) \/ \E r \in Requests[t] : Call(t, r[1], r[2])

Spec == Init /\ [][Next]_vars

(* The threads in a call, and the one that installs, are all scheduled.    *)
FairSpec == Spec /\ WF_vars(InstallStep) /\ \A t \in Callers : WF_vars(CallStep(t))

-----------------------------------------------------------------------------
Pages == {PageOf[f] : f \in Functions}

TypeOK ==
  /\ slot \in [Functions -> {"orig", "hook"}]
  /\ saved \in [Functions -> {"null", "orig", "hook"}]
  /\ writable \subseteq Pages
  /\ old_prot \in {"none", "read-only", "writable"}
  /\ unrestored \subseteq Pages
  /\ left \in Seq(Modules \cup Configures)
  /\ step \in {"enter", "lookup", "save", "store", "protect", "finish"}
  /\ next \in 1 .. 2
  /\ any \in BOOLEAN
  /\ installed \in [Modules -> BOOLEAN]
  /\ ext \in [SaveOpens -> Extensions \cup {".co2"}]
  /\ ValidPort(port)
  /\ \A t \in Callers :
       LET c == call[t]
       IN  \/ c = Idle
           \/ /\ c.at \in {"hook", "forward", "orig", "crashed"}
              /\ <<c.fn, c.asked>> \in Requests[t]
              /\ c.arg \in {c.asked, Effect(c.fn, c.asked, ext, port)}

(* A call that finds the hook in its slot finds the original behind it,    *)
(* even in the instant the slot is being patched: no hook ever forwards to *)
(* a null pointer or to itself.                                            *)
ForwardsToOriginal ==
  \A t \in Callers :
    /\ call[t].at # "crashed"
    /\ call[t].at \in {"hook", "forward"} => saved[call[t].fn] = "orig"

(* No patch writes to a slot on a protected page, which would crash the    *)
(* game, also where an earlier patch on the same page has just protected   *)
(* it; and a page is only writable while a slot on it is being patched, or *)
(* because its protection could not be restored: neighbours on one page    *)
(* do not take the half done work of each other for the old protection.    *)
PagesAreRestored ==
  /\ At("store") => Page \in writable
  /\ \A p \in writable \ unrestored :
       (At("save") \/ At("store") \/ At("protect")) /\ p = Page

(* A call goes to the system with an argument that its hook is there for.  *)
GoesPast(t) == call[t].at = "orig" /\ Target(call[t].fn, call[t].arg)

(* "The vanilla .sl2 file is never opened by the game once hooked", and so *)
(* for hosts and the login port: once a slot is patched, which it is for   *)
(* good, the last call that went past the hook comes to its end, and none  *)
(* follows it.                                                             *)
HookTakesEffect ==
  <>[](\A t \in Callers : GoesPast(t) => slot[call[t].fn] = "orig")

(* The half of it that no scheduling is needed for: a call that goes past  *)
(* its hook had fetched its slot before the patch.  No call that finds the *)
(* hook gets past it, however far the install has come, and whatever the   *)
(* configuration is then.                                                  *)
NoneGoesPastHook ==
  [][\A t \in Callers :
       ~ GoesPast(t) /\ GoesPast(t)' => slot[call'[t].fn] = "orig"]_vars

(* Every call the game makes comes back, hooked or not, installed while it *)
(* was under way or not.                                                   *)
CallsReturn == \A t \in Callers : (call[t] # Idle) ~> (call[t] = Idle)

(* What bounds its way: a call under way only ever comes nearer to its     *)
(* return, so it is forwarded once, and no hook is entered twice.          *)
Ahead(c) ==
  CASE c.at = "hook" -> 3
    [] c.at = "forward" -> 2
    [] c.at \in {"orig", "crashed"} -> 1
    [] c.at = "idle" -> 0

CallsOnlyAdvance ==
  [][\A t \in Callers :
       call[t] # Idle /\ call'[t] # call[t] => Ahead(call'[t]) < Ahead(call[t])]_vars

Redirected(t) ==
  /\ call[t].at \in {"forward", "orig"}
  /\ call[t].fn \in SaveOpens
  /\ IsSave(call[t].asked) /\ ~ IsSave(call[t].arg)

SameFile(p, q) == Folded(p) = Folded(q)

(* Two redirected opens are of the same file exactly if the game named the *)
(* same file, whether by the wide or the narrow function and in whatever   *)
(* spelling: no save is split in two, and no backup lands on its save.     *)
RedirectIsOneToOne ==
  \A t, u \in Callers :
    Redirected(t) /\ Redirected(u) =>
      (SameFile(call[t].arg, call[u].arg) <=> SameFile(call[t].asked, call[u].asked))

(* Patched slot by slot, beside calls in every stage, the hooks are what   *)
(* Interception describes: a switch for each function.                     *)
Gets(t) ==
  LET c == call[t]
  IN  IF c = Idle THEN <<"none", "none">>
      ELSE IF c.at = "hook" THEN <<c.fn, Effect(c.fn, c.arg, ext, port)>>
      ELSE IF c.at = "crashed" THEN <<c.fn>>
      ELSE <<c.fn, c.arg>>

Switches == INSTANCE Interception WITH
  on <- {f \in Functions : slot[f] = "hook"},
  gets <- [t \in Callers |-> Gets(t)]

IsInterception == Switches!Spec

(* "Idempotent": a second install() does not make a hook its own original. *)
InstallIsIdempotent == \A f \in Functions : saved[f] # "hook"

(* The order of the calls in bootstrap(): each module is configured before *)
(* it is installed, and the redirect is installed once.                    *)
BootstrapOrder(plan) ==
  /\ \A i, j \in DOMAIN plan : plan[i] = "redirect" /\ plan[j] = "redirect" => i = j
  /\ \A i, j \in DOMAIN plan :
       /\ plan[i] = "configure savefile" /\ plan[j] = "savefile" => i < j
       /\ plan[i] = "configure redirect" /\ plan[j] = "redirect" => i < j
=============================================================================
