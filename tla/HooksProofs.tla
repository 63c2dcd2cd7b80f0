---------------------------- MODULE HooksProofs -----------------------------
(***************************************************************************)
(* Proofs about Hooks, for any host, any number of threads and calls, and  *)
(* any plan that keeps bootstrap's order: hooks never forward to a null    *)
(* pointer or to themselves, a page is as protected as it was found or as  *)
(* could be restored, and installing is the turning of switches that       *)
(* Interception describes.                                                 *)
(***************************************************************************)
EXTENDS Hooks, TLAPS

USE HooksAssumption

(* Where each function is patched: by whose install(), at which lookup.    *)
Owner(f) == IF f \in Dns THEN "dns" ELSE IF f \in SaveOpens THEN "savefile" ELSE "redirect"

Index(f) == IF f \in {"getaddrinfo", "CreateFileW"} THEN 1 ELSE 2

Patching == step \in {"save", "store", "protect"}

Types ==
  /\ slot \in [Functions -> {"orig", "hook"}]
  /\ saved \in [Functions -> {"null", "orig", "hook"}]
  /\ left \in Seq(Modules \cup Configures)
  /\ step \in {"enter", "lookup", "save", "store", "protect", "finish"}
  /\ next \in 1 .. 2
  /\ any \in BOOLEAN
  /\ installed \in [Modules -> BOOLEAN]

(* An install() past its guard is of a module that is not installed.       *)
Entered ==
  step # "enter" => left # <<>> /\ Head(left) \in Modules /\ ~ installed[Head(left)]

(* The install in progress has patched f already.                          *)
Past(f) ==
  /\ step # "enter" /\ Head(left) = Owner(f)
  /\ \/ any /\ (step = "finish" \/ Index(f) < next)
     \/ step = "protect" /\ Index(f) = next

(* Nobody patches a slot twice: its module is installed, or on its way to  *)
(* be; and connect's, which may not call itself installed, comes once.     *)
PatchedOnce ==
  \A f \in Functions : slot[f] = "hook" =>
    IF f = "connect"
      THEN \A i \in DOMAIN left :
             left[i] = "redirect" => i = 1 /\ step \in {"protect", "finish"}
      ELSE installed[Owner(f)] \/ Past(f)

SavedBehind ==
  \A f \in Functions :
    /\ slot[f] = "hook" => saved[f] = "orig"
    /\ slot[f] = "orig" => saved[f] # "hook"
    /\ step = "store" /\ f = Imported => saved[f] = "orig"

(* The pages that are writable, and what a patch in progress restores.     *)
Protection ==
  /\ writable = unrestored \cup (IF Patching THEN {Page} ELSE {})
  /\ unrestored \subseteq Pages
  /\ old_prot = IF ~ Patching THEN "none"
                ELSE IF Page \in unrestored THEN "writable" ELSE "read-only"

(* While a module is still to be configured, no hook of its is in place.    *)
ConfiguredFirst ==
  \A i \in DOMAIN left :
    /\ left[i] = "configure savefile" => \A f \in SaveOpens : slot[f] = "orig"
    /\ left[i] = "configure redirect" => slot["connect"] = "orig"

IsCall(c) == c = [at |-> c.at, fn |-> c.fn, asked |-> c.asked, arg |-> c.arg]

(* A call that has found the hook in its slot leaves the hook there.       *)
Calls ==
  /\ call = [t \in Callers |-> call[t]]
  /\ \A t \in Callers :
       \/ call[t] = Idle
       \/ /\ IsCall(call[t])
          /\ call[t].fn \in Functions
          /\ \/ call[t].at = "orig"
             \/ call[t].at \in {"hook", "forward"} /\ slot[call[t].fn] = "hook"

HooksInv ==
  /\ Types
  /\ Entered
  /\ BootstrapOrder(left)
  /\ PatchedOnce
  /\ SavedBehind
  /\ Protection

-----------------------------------------------------------------------------
LEMMA TailFacts ==
  ASSUME NEW S, NEW s \in Seq(S), s # <<>>
  PROVE  /\ Tail(s) \in Seq(S)
         /\ Len(s) \in Nat \ {0}
         /\ Len(Tail(s)) = Len(s) - 1
         /\ Head(s) = s[1] /\ s[1] \in S
         /\ DOMAIN s = 1 .. Len(s)
         /\ DOMAIN Tail(s) = 1 .. Len(s) - 1
         /\ \A i \in DOMAIN Tail(s) : i + 1 \in DOMAIN s /\ Tail(s)[i] = s[i + 1]
OBVIOUS

(* Bootstrap's order is the order of every rest of its plan.               *)
LEMMA OrderOfTail ==
  ASSUME left \in Seq(Modules \cup Configures), left # <<>>, BootstrapOrder(left)
  PROVE  BootstrapOrder(Tail(left))
<1> DEFINE t == Tail(left)
<1>1. \A i \in DOMAIN t : i \in Int /\ i + 1 \in DOMAIN left /\ t[i] = left[i + 1]
  BY TailFacts
<1> HIDE DEF t
<1>2. ASSUME NEW i \in DOMAIN t, NEW j \in DOMAIN t
      PROVE  /\ t[i] = "redirect" /\ t[j] = "redirect" => i = j
             /\ t[i] = "configure savefile" /\ t[j] = "savefile" => i < j
             /\ t[i] = "configure redirect" /\ t[j] = "redirect" => i < j
  <2>1. /\ i \in Int /\ j \in Int
        /\ i + 1 \in DOMAIN left /\ j + 1 \in DOMAIN left
        /\ t[i] = left[i + 1] /\ t[j] = left[j + 1]
    BY <1>1
  <2>2. /\ left[i + 1] = "redirect" /\ left[j + 1] = "redirect" => i + 1 = j + 1
        /\ left[i + 1] = "configure savefile" /\ left[j + 1] = "savefile" => i + 1 < j + 1
        /\ left[i + 1] = "configure redirect" /\ left[j + 1] = "redirect" => i + 1 < j + 1
    BY <2>1 DEF BootstrapOrder
  <2>3. (i + 1 = j + 1 => i = j) /\ (i + 1 < j + 1 => i < j)
    BY <2>1
  <2> QED
    BY <2>1, <2>2, <2>3, Zenon
<1>3. BootstrapOrder(t)
  BY <1>2, Zenon DEF BootstrapOrder
<1> QED
  BY <1>3 DEF t

(* The lookup of an install in progress is the patch of one function.      *)
LEMMA LookupFacts ==
  ASSUME Types, Entered, step # "enter"
  PROVE  /\ left # <<>> /\ Module \in Modules /\ ~ installed[Module]
         /\ Len(Lookups[Module]) = 2
         /\ Imported \in Functions /\ Owner(Imported) = Module
         /\ Imported = "connect" <=> Module = "redirect"
         /\ Imported # "connect" => Index(Imported) = next
         /\ \A f \in Functions :
              f # "connect" /\ Owner(f) = Module /\ Index(f) = next => f = Imported
<1>1. left # <<>> /\ Module \in Modules /\ ~ installed[Module] /\ next \in {1, 2}
  BY DEF Types, Entered, Module
<1>2. CASE Module = "dns"
  BY <1>1, <1>2 DEF Lookups, DnsLookups, Lookup, Imported, Functions, Dns, SaveOpens, Owner, Index
<1>3. CASE Module = "savefile"
  BY <1>1, <1>3 DEF Lookups, SaveLookups, Lookup, Imported, Functions, Dns, SaveOpens, Owner, Index
<1>4. CASE Module = "redirect"
  BY <1>1, <1>4 DEF Lookups, RedirectLookups, Lookup, Imported, Functions, Dns, SaveOpens, Owner,
                    Index
<1> QED
  BY <1>1, <1>2, <1>3, <1>4 DEF Modules

(* A slot that is about to be patched has not been.                        *)
LEMMA Unpatched ==
  ASSUME HooksInv, step \in {"lookup", "save", "store"}
  PROVE  slot[Imported] = "orig"
<1> USE DEF HooksInv
<1>1. step # "enter"
  OBVIOUS
<1>2. /\ left # <<>> /\ Head(left) = Module /\ ~ installed[Module]
      /\ Imported \in Functions /\ Owner(Imported) = Module
      /\ Imported = "connect" <=> Module = "redirect"
      /\ Imported # "connect" => Index(Imported) = next
  BY <1>1, LookupFacts DEF Module
<1>3. 1 \in DOMAIN left /\ left[1] = Module
  BY <1>2 DEF Types
<1>4. SUFFICES ASSUME slot[Imported] = "hook" PROVE FALSE
  BY <1>2 DEF Types
<1>5. CASE Imported = "connect"
  BY <1>2, <1>3, <1>4, <1>5 DEF PatchedOnce
<1>6. CASE Imported # "connect"
  <2>1. Past(Imported)
    BY <1>2, <1>4, <1>6 DEF PatchedOnce
  <2> QED
    BY <1>2, <1>6, <2>1 DEF Past, Types
<1> QED
  BY <1>5, <1>6

LEMMA HooksInvInit == BootstrapOrder(Plan) /\ Init => HooksInv
<1> SUFFICES ASSUME BootstrapOrder(Plan), Init PROVE HooksInv
  OBVIOUS
<1>1. left \in Seq(Modules \cup Configures)
  BY DEF Init
<1>2. Types
  <2>1. slot \in [Functions -> {"orig", "hook"}]
    BY DEF Init
  <2>2. saved \in [Functions -> {"null", "orig", "hook"}]
    BY DEF Init
  <2>3. installed \in [Modules -> BOOLEAN]
    BY DEF Init
  <2>4. step = "enter" /\ next \in 1 .. 2
    BY DEF Init
  <2>5. any \in BOOLEAN
    BY DEF Init
  <2> QED
    BY <1>1, <2>1, <2>2, <2>3, <2>4, <2>5 DEF Types
<1>3. BootstrapOrder(left)
  BY DEF Init
<1> QED
  BY <1>2, <1>3 DEF Init, HooksInv, Entered, PatchedOnce, SavedBehind, Protection,
                    Patching

(* Going on to the rest of the plan keeps the invariant, if a module that  *)
(* has patched something says so.                                          *)
LEMMA LeaveKeepsInv ==
  ASSUME HooksInv, left # <<>>, left' = Tail(left), step' = "enter", next' \in 1 .. 2,
         any' \in BOOLEAN, UNCHANGED <<slot, saved, pageVars>>, ~ Patching,
         installed' \in [Modules -> BOOLEAN],
         \A f \in Functions \ {"connect"} :
           slot[f] = "hook" => installed'[Owner(f)]
  PROVE  HooksInv'
<1> USE DEF HooksInv
<1>1. Types'
  BY TailFacts DEF Types
<1>2. BootstrapOrder(left)'
  BY OrderOfTail DEF Types
<1>3. PatchedOnce'
  <2>1. ASSUME slot["connect"] = "hook"
        PROVE  \A i \in DOMAIN left' : left'[i] # "redirect"
    <3>1. \A i \in DOMAIN Tail(left) : i \in 1 .. Len(left) - 1 /\ i + 1 \in DOMAIN left /\ Tail(left)[i] = left[i + 1]
      BY TailFacts DEF Types
    <3>2. \A i \in DOMAIN left : left[i] = "redirect" => i = 1
      BY <2>1 DEF PatchedOnce, Functions
    <3> QED
      BY <3>1, <3>2 DEF Types
  <2> QED
    BY <2>1 DEF PatchedOnce
<1>4. SavedBehind'
  BY DEF SavedBehind
<1> QED
  BY <1>1, <1>2, <1>3, <1>4 DEF Entered, Protection, Patching, pageVars

(* One lookup is over: what has been patched stays patched.                *)
LEMMA NextLookupKeepsInv ==
  ASSUME HooksInv, NEW ok \in BOOLEAN, NextLookup(ok), step \in {"lookup", "protect"},
         ok <=> step = "protect",
         UNCHANGED <<slot, saved, left, installed>>,
         writable' = unrestored', unrestored' \subseteq Pages, old_prot' = "none"
  PROVE  HooksInv'
<1> USE DEF HooksInv
<1>1. /\ left # <<>> /\ Head(left) = Module /\ Module \in Modules /\ ~ installed[Module]
      /\ Len(Lookups[Module]) = 2 /\ next \in {1, 2}
  BY LookupFacts DEF Module, Types
<1>2. /\ any' = (any \/ ok)
      /\ step' \in {"lookup", "finish"} /\ next' \in 1 .. 2
      /\ step' = "finish" \/ next' = next + 1
      /\ Module = "redirect" /\ ok => step' = "finish"
  BY <1>1 DEF NextLookup
<1>3. Types'
  BY <1>2 DEF Types
<1>4. Entered'
  BY <1>2 DEF Entered
<1>5. PatchedOnce'
  <2> SUFFICES ASSUME NEW f \in Functions, slot[f] = "hook"
               PROVE  IF f = "connect"
                        THEN \A i \in DOMAIN left :
                               left[i] = "redirect" => i = 1 /\ step' \in {"protect", "finish"}
                        ELSE installed[Owner(f)] \/ Past(f)'
    BY DEF PatchedOnce
  <2>1. CASE f = "connect"
    <3>1. \A i \in DOMAIN left : left[i] = "redirect" => i = 1 /\ step = "protect"
      BY <2>1 DEF PatchedOnce
    <3>2. ASSUME NEW i \in DOMAIN left, left[i] = "redirect" PROVE i = 1 /\ step' = "finish"
      <4>1. i = 1 /\ ok
        BY <3>1, <3>2
      <4>2. left[1] = Head(left)
        BY <1>1 DEF Types
      <4> QED
        BY <1>1, <1>2, <3>2, <4>1, <4>2
    <3> QED
      BY <2>1, <3>2
  <2>2. CASE f # "connect"
    <3>1. installed[Owner(f)] \/ Past(f)
      BY <2>2 DEF PatchedOnce
    <3>2. ASSUME Past(f) PROVE Past(f)'
      BY <1>1, <1>2, <3>2 DEF Past, Types, Index
    <3> QED
      BY <2>2, <3>1, <3>2
  <2> QED
    BY <2>1, <2>2
<1>6. SavedBehind'
  BY <1>2 DEF SavedBehind
<1> QED
  BY <1>2, <1>3, <1>4, <1>5, <1>6 DEF Protection, Patching

LEMMA InstallKeepsInv == HooksInv /\ InstallStep => HooksInv'
<1> SUFFICES ASSUME HooksInv, InstallStep PROVE HooksInv'
  OBVIOUS
<1> USE DEF HooksInv
<1>1. CASE ConfigureSave \/ ConfigureRedirect
  <2>1. /\ left # <<>> /\ Head(left) \in Configures /\ left' = Tail(left)
        /\ UNCHANGED <<slot, saved, pageVars, step, next, any, installed>>
    <3>1. "configure savefile" \in Configures /\ "configure redirect" \in Configures
      BY DEF Configures
    <3>2. CASE ConfigureSave
      BY <3>1, <3>2 DEF ConfigureSave, ConfigureNow
    <3>3. CASE ConfigureRedirect
      BY <3>1, <3>3 DEF ConfigureRedirect, ConfigureNow
    <3> QED
      BY <1>1, <3>2, <3>3
  <2>2. step = "enter"
    BY <2>1 DEF Entered, Configures, Modules
  <2>3. ~ Patching /\ \A f \in Functions : ~ Past(f)
    BY <2>2 DEF Patching, Past
  <2> QED
    BY <2>1, <2>2, <2>3, LeaveKeepsInv DEF Types, PatchedOnce
<1>2. CASE EnterAndReturn
  <2>1. ~ Patching /\ \A f \in Functions : ~ Past(f)
    BY <1>2 DEF EnterAndReturn, At, Patching, Past
  <2>2. /\ left # <<>> /\ left' = Tail(left) /\ step' = "enter"
        /\ next' = 1 /\ any' = FALSE
        /\ UNCHANGED <<slot, saved, pageVars, installed>>
    BY <1>2 DEF EnterAndReturn, Leave, At
  <2>3. /\ installed' \in [Modules -> BOOLEAN]
        /\ \A f \in Functions \ {"connect"} : slot[f] = "hook" => installed'[Owner(f)]
    BY <2>1, <2>2 DEF Types, PatchedOnce
  <2>4. next' \in 1 .. 2
    BY <2>2
  <2>5. any' \in BOOLEAN
    BY <2>2, Zenon
  <2> QED
    BY <2>1, <2>2, <2>3, <2>4, <2>5, LeaveKeepsInv
<1>3. CASE Enter
  <2>1. /\ step = "enter" /\ step' = "lookup" /\ left # <<>> /\ Head(left) \in Modules
        /\ ~ installed[Head(left)]
        /\ UNCHANGED <<slot, saved, pageVars, left, next, any, installed>>
    BY <1>3 DEF Enter, At, Module
  <2>2. PatchedOnce'
    BY <2>1 DEF PatchedOnce, Past
  <2> QED
    BY <2>1, <2>2 DEF Types, Entered, SavedBehind, Protection, Patching, Page, pageVars
<1>4. CASE PatchFails
  <2>1. /\ step = "lookup"
        /\ writable' = unrestored' /\ unrestored' \subseteq Pages /\ old_prot' = "none"
    BY <1>4 DEF PatchFails, At, Protection, Patching, pageVars
  <2> QED
    BY <1>4, <2>1, NextLookupKeepsInv DEF PatchFails
<1>5. CASE MakeWritable
  <2>1. /\ step = "lookup" /\ step' = "save"
        /\ writable' = writable \cup {Page} /\ old_prot' = IF Page \in writable THEN "writable" ELSE "read-only"
        /\ UNCHANGED <<slot, saved, unrestored, left, next, any, installed>>
    BY <1>5 DEF MakeWritable, At
  <2>2. Imported' = Imported
    BY <2>1 DEF Imported, Lookup, Module
  <2>3. PatchedOnce'
    BY <2>1 DEF PatchedOnce, Past
  <2>4. SavedBehind'
    BY <2>1, <2>2 DEF SavedBehind
  <2>5. Protection'
    <3>1. Patching' /\ ~ Patching /\ Page' = Page
      BY <2>1, <2>2 DEF Patching, Page
    <3> QED
      BY <2>1, <3>1 DEF Protection
  <2> QED
    BY <2>1, <2>2, <2>3, <2>4, <2>5 DEF Types, Entered
<1>6. CASE SaveOld
  <2>1. /\ step = "save" /\ step' = "store" /\ saved' = [saved EXCEPT ![Imported] = slot[Imported]]
        /\ UNCHANGED <<slot, pageVars, left, next, any, installed>>
    BY <1>6 DEF SaveOld, At
  <2>2. Imported' = Imported /\ slot[Imported] = "orig" /\ Imported \in Functions
    BY <2>1, Unpatched, LookupFacts DEF Imported, Lookup, Module
  <2>3. PatchedOnce'
    BY <2>1 DEF PatchedOnce, Past
  <2>4. SavedBehind'
    BY <2>1, <2>2 DEF SavedBehind, Types
  <2> QED
    BY <2>1, <2>2, <2>3, <2>4 DEF Types, Entered, Protection, Patching, Page, pageVars
<1>7. CASE StoreNew
  <2>1. /\ step = "store" /\ step' = "protect" /\ slot' = [slot EXCEPT ![Imported] = "hook"]
        /\ UNCHANGED <<saved, pageVars, left, next, any, installed>>
    BY <1>7 DEF StoreNew, At
  <2>2. /\ Imported' = Imported /\ Imported \in Functions /\ left # <<>> /\ Head(left) = Module
        /\ Owner(Imported) = Module
        /\ Imported = "connect" <=> Module = "redirect"
        /\ Imported # "connect" => Index(Imported) = next
    BY <2>1, LookupFacts DEF Imported, Lookup, Module
  <2>3. PatchedOnce'
    <3> SUFFICES ASSUME NEW f \in Functions, slot'[f] = "hook"
                 PROVE  IF f = "connect"
                          THEN \A i \in DOMAIN left :
                                 left[i] = "redirect" => i = 1 /\ step' \in {"protect", "finish"}
                          ELSE installed[Owner(f)] \/ Past(f)'
      BY <2>1 DEF PatchedOnce
    <3>1. CASE f # Imported
      BY <2>1, <3>1 DEF PatchedOnce, Past, Types
    <3>2. CASE f = Imported /\ f # "connect"
      BY <2>1, <2>2, <3>2 DEF Past
    <3>3. CASE f = Imported /\ f = "connect"
      <4>1. 1 \in DOMAIN left /\ left[1] = "redirect"
        BY <2>2, <3>3 DEF Types
      <4>2. \A i \in DOMAIN left : left[i] = "redirect" => i = 1
        BY <4>1 DEF BootstrapOrder
      <4> QED
        BY <2>1, <3>3, <4>2
    <3> QED
      BY <3>1, <3>2, <3>3
  <2>4. SavedBehind'
    BY <2>1, <2>2 DEF SavedBehind, Types
  <2> QED
    BY <2>1, <2>2, <2>3, <2>4 DEF Types, Entered, Protection, Patching, Page, pageVars
<1>8. CASE ProtectAgain
  <2>1. /\ step = "protect" /\ Page \in Pages
        /\ writable = unrestored \cup {Page}
        /\ old_prot = IF Page \in unrestored THEN "writable" ELSE "read-only"
    BY <1>8, LookupFacts DEF ProtectAgain, At, Protection, Patching, Page, Pages
  <2>2. writable' = unrestored' /\ unrestored' \subseteq Pages /\ old_prot' = "none"
    BY <1>8, <2>1 DEF ProtectAgain, Protection
  <2> QED
    BY <1>8, <2>1, <2>2, NextLookupKeepsInv DEF ProtectAgain
<1>9. CASE Finish
  <2>1. /\ step = "finish" /\ left # <<>> /\ Module \in Modules /\ Head(left) = Module
        /\ ~ installed[Module]
        /\ left' = Tail(left) /\ step' = "enter" /\ next' = 1 /\ any' = FALSE
        /\ UNCHANGED <<slot, saved, pageVars>>
    BY <1>9 DEF Finish, Leave, At, Module, Entered
  <2>2. PICK patched \in BOOLEAN :
          /\ Module # "redirect" => patched = any
          /\ installed' = [installed EXCEPT ![Module] = patched]
    BY <1>9 DEF Finish, Types
  <2>6. /\ installed'[Module] = patched
        /\ \A m \in Modules : m # Module => installed'[m] = installed[m]
    BY <2>1, <2>2 DEF Types
  <2>3. ASSUME NEW f \in Functions \ {"connect"}, slot[f] = "hook"
        PROVE  installed'[Owner(f)]
    <3>1. Owner(f) \in {"dns", "savefile"}
      BY <2>3 DEF Owner, Functions
    <3>2. installed[Owner(f)] \/ (any /\ Module = Owner(f))
      BY <2>1, <2>3 DEF PatchedOnce, Past
    <3>3. CASE Module = Owner(f)
      <4>1. any
        BY <2>1, <3>2, <3>3, Zenon
      <4>2. patched = any
        BY <2>2, <3>1, <3>3
      <4>3. installed'[Owner(f)] = any
        BY <2>6, <3>3, <4>2
      <4> QED
        BY <4>1, <4>3, Zenon
    <3>4. CASE Module # Owner(f)
      BY <2>6, <3>1, <3>2, <3>4 DEF Modules
    <3> QED
      BY <3>3, <3>4
  <2>4. installed' \in [Modules -> BOOLEAN]
    BY <2>1, <2>2, Zenon DEF Types
  <2>5. next' \in 1 .. 2 /\ ~ Patching
    BY <2>1 DEF Patching
  <2>7. any' \in BOOLEAN
    BY <2>1, Zenon
  <2> QED
    BY <2>1, <2>3, <2>4, <2>5, <2>7, LeaveKeepsInv
<1> QED
  BY <1>1, <1>2, <1>3, <1>4, <1>5, <1>6, <1>7, <1>8, <1>9 DEF InstallStep

-----------------------------------------------------------------------------
(* An install patches slots, and undoes none; the calls go on meanwhile.   *)
LEMMA InstallFacts ==
  ASSUME HooksInv, InstallStep
  PROVE  /\ call' = call
         /\ \A f \in Functions : slot[f] = "hook" => slot'[f] = "hook"
<1>1. CASE StoreNew
  BY <1>1 DEF StoreNew, HooksInv, Types
<1>2. CASE ~ StoreNew
  BY <1>2 DEF InstallStep, ConfigureSave, ConfigureRedirect, ConfigureNow, EnterAndReturn, Enter,
              PatchFails, MakeWritable, SaveOld, ProtectAgain, Finish
<1> QED
  BY <1>1, <1>2

LEMMA InstallKeepsCalls == HooksInv /\ Calls /\ InstallStep => Calls'
BY InstallFacts DEF Calls

(* A call keeps to itself.                                                 *)
LEMMA CallKeepsOthers ==
  ASSUME Calls, NEW t \in Callers, UNCHANGED slot, NEW c,
         call' = [call EXCEPT ![t] = c],
         \/ c = Idle
         \/ /\ IsCall(c) /\ c.fn \in Functions
            /\ c.at = "orig" \/ (c.at \in {"hook", "forward"} /\ slot[c.fn] = "hook")
  PROVE  Calls'
<1>1. call'[t] = c /\ \A u \in Callers : u # t => call'[u] = call[u]
  BY DEF Calls
<1>2. call' = [u \in Callers |-> call'[u]]
  BY DEF Calls
<1> QED
  BY <1>1, <1>2 DEF Calls

LEMMA CallFields ==
  ASSUME NEW c, IsCall(c), NEW s, NEW x
  PROVE  /\ [c EXCEPT !.at = s] = [at |-> s, fn |-> c.fn, asked |-> c.asked, arg |-> c.arg]
         /\ [c EXCEPT !.at = s, !.arg = x] = [at |-> s, fn |-> c.fn, asked |-> c.asked, arg |-> x]
<1>1. DOMAIN c = {"at", "fn", "asked", "arg"}
  BY DEF IsCall
<1>2. [c EXCEPT !.at = s] = [at |-> s, fn |-> c.fn, asked |-> c.asked, arg |-> c.arg]
  BY <1>1
<1>3. [c EXCEPT !.at = s, !.arg = x] = [[c EXCEPT !.at = s] EXCEPT !.arg = x]
  OBVIOUS
<1>4. [[at |-> s, fn |-> c.fn, asked |-> c.asked, arg |-> c.arg] EXCEPT !.arg = x]
        = [at |-> s, fn |-> c.fn, asked |-> c.asked, arg |-> x]
  OBVIOUS
<1> QED
  BY <1>2, <1>3, <1>4

(* Behind the hook of a call is the original, so no call crashes.          *)
LEMMA StepsKeepCalls ==
  ASSUME HooksInv, Calls, NEW t \in Callers,
         CallStep(t) \/ \E r \in Requests[t] : Call(t, r[1], r[2])
  PROVE  Calls' /\ UNCHANGED installVars
<1>1. ASSUME NEW r \in Requests[t], Call(t, r[1], r[2]) PROVE Calls' /\ UNCHANGED installVars
  <2> DEFINE c == [at |-> slot[r[1]], fn |-> r[1], asked |-> r[2], arg |-> r[2]]
  <2>1. UNCHANGED installVars /\ call' = [call EXCEPT ![t] = c]
    BY <1>1 DEF Call
  <2>2. r[1] \in Functions
    BY HooksAssumption
  <2>3. /\ IsCall(c) /\ c.fn \in Functions
        /\ c.at = "orig" \/ (c.at = "hook" /\ slot[c.fn] = "hook")
    BY <2>2 DEF IsCall, HooksInv, Types
  <2>4. UNCHANGED slot
    BY <2>1 DEF installVars
  <2> HIDE DEF c
  <2> QED
    BY <2>1, <2>3, <2>4, CallKeepsOthers
<1>2. ASSUME HookBlocks(t) \/ Original(t) PROVE Calls' /\ UNCHANGED installVars
  <2>1. UNCHANGED installVars /\ call' = [call EXCEPT ![t] = Idle]
    BY <1>2 DEF HookBlocks, Original
  <2>2. UNCHANGED slot
    BY <2>1 DEF installVars
  <2> QED
    BY <2>1, <2>2, CallKeepsOthers
<1>3. ASSUME HookRewrites(t) PROVE Calls' /\ UNCHANGED installVars
  <2> DEFINE c == [at |-> "forward", fn |-> call[t].fn, asked |-> call[t].asked,
                   arg |-> Effect(call[t].fn, call[t].arg, ext, port)]
  <2>1. UNCHANGED installVars /\ call[t].at = "hook"
    BY <1>3 DEF HookRewrites
  <2>2. IsCall(call[t]) /\ call[t].fn \in Functions /\ slot[call[t].fn] = "hook"
    BY <2>1 DEF Calls, Idle
  <2>3. call' = [call EXCEPT ![t] = c]
    BY <1>3, <2>2, CallFields DEF HookRewrites
  <2>4. IsCall(c) /\ c.fn \in Functions /\ c.at = "forward" /\ slot[c.fn] = "hook"
    BY <2>2 DEF IsCall
  <2>5. UNCHANGED slot
    BY <2>1 DEF installVars
  <2> HIDE DEF c
  <2> QED
    BY <2>1, <2>3, <2>4, <2>5, CallKeepsOthers
<1>4. ASSUME Forward(t) PROVE Calls' /\ UNCHANGED installVars
  <2> DEFINE c == [at |-> "orig", fn |-> call[t].fn, asked |-> call[t].asked, arg |-> call[t].arg]
  <2>1. UNCHANGED installVars /\ call[t].at = "forward"
    BY <1>4 DEF Forward
  <2>2. IsCall(call[t]) /\ call[t].fn \in Functions /\ slot[call[t].fn] = "hook"
    BY <2>1 DEF Calls, Idle
  <2>3. saved[call[t].fn] = "orig"
    BY <2>2 DEF HooksInv, SavedBehind
  <2>4. call' = [call EXCEPT ![t] = c]
    <3>1. call' = [call EXCEPT ![t] = [call[t] EXCEPT !.at = "orig"]]
      BY <1>4, <2>3 DEF Forward
    <3>2. [call[t] EXCEPT !.at = "orig"] = c
      BY <2>2, CallFields
    <3> QED
      BY <3>1, <3>2
  <2>5. IsCall(c) /\ c.fn \in Functions /\ c.at = "orig"
    BY <2>2 DEF IsCall
  <2>6. UNCHANGED slot
    BY <2>1 DEF installVars
  <2> HIDE DEF c
  <2> QED
    BY <2>1, <2>4, <2>5, <2>6, CallKeepsOthers
<1> QED
  BY <1>1, <1>2, <1>3, <1>4 DEF CallStep

(* A module is patched only when its configuration is behind it.           *)
LEMMA InstallKeepsConfigured ==
  ASSUME HooksInv, ConfiguredFirst, InstallStep
  PROVE  ConfiguredFirst'
<1>1. CASE StoreNew
  <2>1. step = "store" /\ UNCHANGED left /\ slot' = [slot EXCEPT ![Imported] = "hook"]
    BY <1>1 DEF StoreNew, At
  <2>2. /\ Types /\ left # <<>> /\ Head(left) = Module /\ Module \in Modules
        /\ Imported \in Functions /\ Owner(Imported) = Module
    BY <2>1, LookupFacts DEF HooksInv, Module
  <2>3. /\ 1 \in DOMAIN left /\ left[1] = Module
        /\ \A i \in DOMAIN left : i >= 1
    BY <2>2 DEF Types
  <2>4. ASSUME NEW i \in DOMAIN left
        PROVE  /\ left[i] = "configure savefile" => Module # "savefile"
               /\ left[i] = "configure redirect" => Module # "redirect"
    <3>1. ~ (i < 1)
      BY <2>2, <2>3 DEF Types
    <3> QED
      BY <2>3, <3>1 DEF HooksInv, BootstrapOrder
  <2>5. /\ Module # "savefile" => Imported \notin SaveOpens
        /\ Module # "redirect" => Imported # "connect"
    BY <2>2 DEF Owner, Dns, SaveOpens
  <2>6. "connect" \in Functions /\ SaveOpens \subseteq Functions
    BY DEF Functions
  <2> QED
    BY <2>1, <2>2, <2>4, <2>5, <2>6 DEF ConfiguredFirst, Types
<1>2. CASE ~ StoreNew
  <2>1. UNCHANGED slot /\ (UNCHANGED left \/ (left # <<>> /\ left' = Tail(left)))
    BY <1>2 DEF InstallStep, ConfigureSave, ConfigureRedirect, ConfigureNow, EnterAndReturn, Enter,
                PatchFails, MakeWritable, SaveOld, ProtectAgain, Finish, Leave, At
  <2>2. CASE UNCHANGED left
    BY <2>1, <2>2 DEF ConfiguredFirst
  <2>3. CASE left # <<>> /\ left' = Tail(left)
    <3>1. left \in Seq(Modules \cup Configures)
      BY DEF HooksInv, Types
    <3>2. \A i \in DOMAIN Tail(left) : i + 1 \in DOMAIN left /\ Tail(left)[i] = left[i + 1]
      BY <2>3, <3>1, TailFacts
    <3> QED
      BY <2>1, <2>3, <3>2 DEF ConfiguredFirst
  <2> QED
    BY <2>1, <2>2, <2>3
<1> QED
  BY <1>1, <1>2

-----------------------------------------------------------------------------
Inv == HooksInv /\ ConfiguredFirst /\ Calls

LEMMA InvInit == BootstrapOrder(Plan) /\ Init => Inv
<1> SUFFICES ASSUME BootstrapOrder(Plan), Init PROVE ConfiguredFirst /\ Calls
  BY HooksInvInit DEF Inv
<1>1. ConfiguredFirst
  BY DEF Init, ConfiguredFirst, Functions
<1>2. Calls
  BY DEF Init, Calls
<1> QED
  BY <1>1, <1>2

LEMMA InvStep == Inv /\ [Next]_vars => Inv'
<1> SUFFICES ASSUME Inv, [Next]_vars PROVE Inv'
  OBVIOUS
<1>1. CASE InstallStep
  BY <1>1, InstallKeepsInv, InstallKeepsConfigured, InstallKeepsCalls DEF Inv
<1>2. ASSUME UNCHANGED installVars PROVE HooksInv' /\ ConfiguredFirst'
  <2>1. HooksInv'
    <3>1. Types' /\ Entered' /\ BootstrapOrder(left)'
      BY <1>2, Zenon DEF Inv, HooksInv, Types, Entered, installVars
    <3>2. PatchedOnce'
      BY <1>2, Zenon DEF Inv, HooksInv, PatchedOnce, Past, installVars
    <3>3. SavedBehind' /\ Protection'
      BY <1>2, Zenon DEF Inv, HooksInv, SavedBehind, Protection, Patching, Page, pageVars, Imported,
                         Lookup, Module, installVars
    <3> QED
      BY <3>1, <3>2, <3>3 DEF HooksInv
  <2> QED
    BY <1>2, <2>1 DEF Inv, ConfiguredFirst, installVars
<1>3. ASSUME NEW t \in Callers, CallStep(t) \/ \E r \in Requests[t] : Call(t, r[1], r[2])
      PROVE  Inv'
  BY <1>2, <1>3, StepsKeepCalls DEF Inv
<1>4. CASE UNCHANGED vars
  <2>1. Calls'
    BY <1>4 DEF Inv, Calls, IsCall, vars, installVars
  <2> QED
    BY <1>2, <1>4, <2>1 DEF Inv, vars
<1> QED
  BY <1>1, <1>3, <1>4 DEF Next

LEMMA InvAlways == BootstrapOrder(Plan) /\ Spec => []Inv
<1>1. BootstrapOrder(Plan) /\ Init => Inv
  BY InvInit
<1>2. Inv /\ [Next]_vars => Inv'
  BY InvStep
<1> QED
  BY <1>1, <1>2, PTL DEF Spec

(* Whatever the plan, if it keeps bootstrap's order, and however the calls *)
(* of the game fall between the memory accesses of patch_iat: a hook finds *)
(* the original behind it.                                                 *)
THEOREM ForwardsToOriginalAlways == BootstrapOrder(Plan) /\ Spec => []ForwardsToOriginal
<1>1. Inv => ForwardsToOriginal
  BY DEF Inv, HooksInv, SavedBehind, Calls, ForwardsToOriginal, Idle
<1> QED
  BY <1>1, InvAlways, PTL

(* Whatever slots share a page, and whichever restoration fails: no patch  *)
(* writes to a protected page, and only pages whose restoration has failed *)
(* are writable when nobody patches them.                                  *)
THEOREM PagesAreRestoredAlways == BootstrapOrder(Plan) /\ Spec => []PagesAreRestored
<1>1. Inv => PagesAreRestored
  BY DEF Inv, HooksInv, Entered, Protection, Patching, PagesAreRestored, At, Module
<1> QED
  BY <1>1, InvAlways, PTL

(* A repeated install() of a module that guards itself makes no hook its   *)
(* own original.                                                           *)
THEOREM InstallIsIdempotentAlways == BootstrapOrder(Plan) /\ Spec => []InstallIsIdempotent
<1>1. Inv => InstallIsIdempotent
  BY DEF Inv, HooksInv, Types, SavedBehind, InstallIsIdempotent
<1> QED
  BY <1>1, InvAlways, PTL

-----------------------------------------------------------------------------
(* The refinement.                                                         *)

On == {f \in Functions : slot[f] = "hook"}

AllGets == [t \in Callers |-> Gets(t)]

LEMMA SameEffect ==
  ASSUME NEW f, NEW a, NEW e, NEW p
  PROVE  Switches!Effect(f, a, e, p) = Effect(f, a, e, p)
BY DEF Switches!Effect, Switches!Target, Switches!Rewrite, Switches!IsFromSoft, Switches!IsSave,
       Switches!Blocked, Switches!Dns, Switches!SaveOpens, Switches!Sl2, Switches!DenySuffixes,
       Switches!LoginPort, Effect, Target, Rewrite, IsFromSoft, IsSave, Blocked, Dns, SaveOpens,
       Sl2, DenySuffixes, LoginPort

LEMMA SwitchesInit == Init => Switches!Init
BY DEF Init, Switches!Init, Switches!NoCall, Switches!DefaultExt, Switches!DefaultPort,
       Switches!SaveOpens, DefaultExt, DefaultPort, SaveOpens, Gets

(* What a call gets depends on the setting of its own hook only.           *)
LEMMA OwnSetting ==
  ASSUME NEW f, NEW a, NEW e1, NEW e2, NEW p1, NEW p2,
         f \in SaveOpens => e1 = e2, f = "connect" => p1 = p2
  PROVE  Effect(f, a, e1, p1) = Effect(f, a, e2, p2)
BY DEF Effect, Target, Dns, SaveOpens

(* An install changes nothing for a call that is under way.                *)
LEMMA InstallKeepsGets ==
  ASSUME Inv, InstallStep,
         On \cap SaveOpens # {} => ext' = ext,
         "connect" \in On => port' = port
  PROVE  AllGets' = AllGets
<1>1. call' = call
  BY InstallFacts DEF Inv
<1>2. ASSUME NEW t \in Callers, call[t].at = "hook", call[t] # Idle
      PROVE  Effect(call[t].fn, call[t].arg, ext', port') = Effect(call[t].fn, call[t].arg, ext, port)
  <2>1. call[t].fn \in On
    BY <1>2 DEF Inv, Calls, On
  <2> QED
    BY <2>1, OwnSetting
<1>3. ASSUME NEW t \in Callers PROVE Gets(t)' = Gets(t)
  BY <1>1, <1>2, Zenon DEF Gets
<1> QED
  BY <1>3 DEF AllGets

(* An install is a step of Interception, or none.                          *)
LEMMA InstallImplements ==
  ASSUME Inv, InstallStep
  PROVE  [Switches!Next]_(Switches!vars)
<1>1. \A i \in DOMAIN left :
        /\ left[i] = "configure savefile" => On \cap SaveOpens = {}
        /\ left[i] = "configure redirect" => "connect" \notin On
  BY DEF Inv, ConfiguredFirst, On
<1>2. left # <<>> => 1 \in DOMAIN left /\ left[1] = Head(left)
  BY DEF Inv, HooksInv, Types
<1>3. CASE ConfigureSave \/ ConfigureRedirect
  <2>1. /\ UNCHANGED slot
        /\ On \cap SaveOpens # {} => ext' = ext
        /\ "connect" \in On => port' = port
    BY <1>1, <1>2, <1>3 DEF ConfigureSave, ConfigureRedirect, ConfigureNow
  <2>2. AllGets' = AllGets
    BY <2>1, InstallKeepsGets
  <2>3. Switches!Configure
    BY <2>1, <2>2 DEF Switches!Configure, On, AllGets, SaveOpens, Switches!SaveOpens
  <2> QED
    BY <2>3 DEF Switches!Next
<1>4. CASE StoreNew
  <2>1. /\ slot' = [slot EXCEPT ![Imported] = "hook"] /\ UNCHANGED <<ext, port>>
        /\ step # "enter"
    BY <1>4 DEF StoreNew, At, configVars
  <2>2. Imported \in Functions /\ slot \in [Functions -> {"orig", "hook"}]
    BY <2>1, LookupFacts DEF Inv, HooksInv, Types
  <2>3. On' = On \cup {Imported}
    BY <2>1, <2>2 DEF On
  <2>4. AllGets' = AllGets
    BY <2>1, InstallKeepsGets
  <2>5. Imported \in Switches!Functions
    BY <2>2 DEF Functions, Dns, SaveOpens, Switches!Functions, Switches!Dns, Switches!SaveOpens
  <2>6. PICK f \in Switches!Functions : f = Imported
    BY <2>5
  <2>7. Switches!TurnOn(f)
    BY <2>1, <2>3, <2>4, <2>6 DEF Switches!TurnOn, On, AllGets
  <2> QED
    BY <2>7, Zenon DEF Switches!Next
<1>5. CASE ~ StoreNew /\ ~ ConfigureSave /\ ~ ConfigureRedirect
  <2>1. UNCHANGED <<slot, ext, port>>
    BY <1>5 DEF InstallStep, EnterAndReturn, Enter, PatchFails, MakeWritable, SaveOld, ProtectAgain,
                Finish, configVars
  <2>2. AllGets' = AllGets
    BY <2>1, InstallKeepsGets
  <2> QED
    BY <2>1, <2>2 DEF Switches!vars, AllGets
<1> QED
  BY <1>3, <1>4, <1>5

(* A step of a call begins it, ends it, or leaves it what it gets.         *)
LEMMA CallImplements ==
  ASSUME Inv, NEW t \in Callers,
         CallStep(t) \/ \E r \in Requests[t] : Call(t, r[1], r[2])
  PROVE  [Switches!Next]_(Switches!vars)
<1>1. UNCHANGED <<slot, ext, port>>
  BY DEF CallStep, HookBlocks, HookRewrites, Forward, Original, Call, installVars, configVars
<1>2. On' = On
  BY <1>1 DEF On
<1>3. ASSUME \A u \in Callers : u # t => call'[u] = call[u]
      PROVE  AllGets' = [AllGets EXCEPT ![t] = Gets(t)']
  <2>1. \A u \in Callers : u # t => Gets(u)' = Gets(u)
    BY <1>1, <1>3 DEF Gets
  <2> QED
    BY <2>1 DEF AllGets
<1>4. ASSUME NEW r \in Requests[t], Call(t, r[1], r[2]) PROVE Switches!Begin(t, r[1], r[2])
  <2> DEFINE c == [at |-> slot[r[1]], fn |-> r[1], asked |-> r[2], arg |-> r[2]]
  <2>1. call[t] = Idle /\ call' = [call EXCEPT ![t] = c]
    BY <1>4 DEF Call
  <2>2. r[1] \in Functions /\ slot[r[1]] \in {"orig", "hook"} /\ (slot[r[1]] = "hook" <=> r[1] \in On)
    BY HooksAssumption DEF Inv, HooksInv, Types, On
  <2>3. call'[t] = c /\ \A u \in Callers : u # t => call'[u] = call[u]
    BY <2>1 DEF Inv, Calls
  <2>4. Gets(t)' = <<r[1], IF r[1] \in On THEN Effect(r[1], r[2], ext, port) ELSE r[2]>>
    BY <1>1, <2>2, <2>3 DEF Gets, Idle
  <2>5. AllGets[t] = Switches!NoCall
    BY <2>1 DEF AllGets, Gets, Switches!NoCall
  <2> QED
    BY <1>1, <1>2, <1>3, <2>3, <2>4, <2>5, SameEffect DEF Switches!Begin, AllGets, On
<1>5. ASSUME HookBlocks(t) \/ Original(t) PROVE Switches!End(t)
  <2>1. call[t].at \in {"hook", "orig"} /\ call' = [call EXCEPT ![t] = Idle]
    BY <1>5 DEF HookBlocks, Original
  <2>2. call[t] # Idle /\ call[t].fn \in Functions
    BY <2>1 DEF Inv, Calls, Idle
  <2>3. call'[t] = Idle /\ \A u \in Callers : u # t => call'[u] = call[u]
    BY <2>1 DEF Inv, Calls
  <2>4. Gets(t)' = Switches!NoCall
    BY <2>3 DEF Gets, Switches!NoCall
  <2>5. AllGets[t] # Switches!NoCall
    BY <2>1, <2>2 DEF AllGets, Gets, Switches!NoCall, Functions, Dns, SaveOpens
  <2> QED
    BY <1>1, <1>2, <1>3, <2>3, <2>4, <2>5 DEF Switches!End, AllGets, On
<1>6. ASSUME HookRewrites(t) \/ Forward(t) PROVE AllGets' = AllGets
  <2>1. call[t].at \in {"hook", "forward"}
    BY <1>6 DEF HookRewrites, Forward
  <2>2. call[t] # Idle /\ IsCall(call[t]) /\ saved[call[t].fn] = "orig"
    BY <2>1 DEF Inv, Calls, HooksInv, SavedBehind, Idle
  <2>3. \A u \in Callers : u # t => call'[u] = call[u]
    BY <1>6 DEF HookRewrites, Forward, Inv, Calls
  <2>4. CASE HookRewrites(t)
    <3>1. call[t].at = "hook" /\ call'[t] = [at |-> "forward", fn |-> call[t].fn,
                                             asked |-> call[t].asked,
                                             arg |-> Effect(call[t].fn, call[t].arg, ext, port)]
      <4>1. call'[t] = [call[t] EXCEPT !.at = "forward",
                                       !.arg = Effect(call[t].fn, call[t].arg, ext, port)]
        BY <2>4 DEF HookRewrites, Inv, Calls
      <4> QED
        BY <2>2, <2>4, <4>1, CallFields DEF HookRewrites
    <3>2. Gets(t)' = <<call[t].fn, Effect(call[t].fn, call[t].arg, ext, port)>>
      BY <3>1 DEF Gets, Idle
    <3>3. Gets(t) = <<call[t].fn, Effect(call[t].fn, call[t].arg, ext, port)>>
      BY <2>2, <3>1 DEF Gets
    <3> QED
      BY <1>3, <2>3, <3>2, <3>3 DEF AllGets
  <2>5. CASE Forward(t)
    <3>1. call[t].at = "forward" /\ call'[t] = [at |-> "orig", fn |-> call[t].fn,
                                                asked |-> call[t].asked, arg |-> call[t].arg]
      <4>1. call'[t] = [call[t] EXCEPT !.at = "orig"]
        BY <2>2, <2>5 DEF Forward, Inv, Calls
      <4> QED
        BY <2>2, <2>5, <4>1, CallFields DEF Forward
    <3>2. Gets(t)' = <<call[t].fn, call[t].arg>> /\ Gets(t) = <<call[t].fn, call[t].arg>>
      BY <2>2, <3>1 DEF Gets, Idle
    <3> QED
      BY <1>3, <2>3, <3>2 DEF AllGets
  <2> QED
    BY <1>6, <2>4, <2>5
<1>7. CASE \E r \in Requests[t] : Call(t, r[1], r[2])
  <2>1. \E r \in Requests[t] : Switches!Begin(t, r[1], r[2])
    BY <1>4, <1>7
  <2> QED
    BY <2>1, Zenon DEF Switches!Next
<1>8. CASE HookBlocks(t) \/ Original(t)
  <2>1. Switches!End(t)
    BY <1>5, <1>8
  <2> QED
    BY <2>1, Zenon DEF Switches!Next
<1>9. CASE HookRewrites(t) \/ Forward(t)
  BY <1>1, <1>2, <1>6, <1>9 DEF Switches!vars, On, AllGets
<1> QED
  BY <1>7, <1>8, <1>9 DEF CallStep

(* Hooks, installed slot by slot under a running game, implement switches: *)
(* every call gets what the switch of its function says at the instant it  *)
(* is made, whatever bootstrap does meanwhile.                             *)
THEOREM IsInterceptionAlways == BootstrapOrder(Plan) /\ Spec => IsInterception
<1>1. Init => Switches!Init
  BY SwitchesInit
<1>2. Inv /\ [Next]_vars => [Switches!Next]_(Switches!vars)
  <2> SUFFICES ASSUME Inv, [Next]_vars PROVE [Switches!Next]_(Switches!vars)
    OBVIOUS
  <2>1. CASE UNCHANGED vars
    <3>1. \A t \in Callers : Gets(t)' = Gets(t)
      BY <2>1 DEF Gets, vars, configVars
    <3> QED
      BY <2>1, <3>1 DEF Switches!vars, vars, installVars, configVars
  <2>2. CASE Next
    BY <2>2, InstallImplements, CallImplements DEF Next
  <2> QED
    BY <2>1, <2>2
<1> QED
  BY <1>1, <1>2, InvAlways, PTL DEF Spec, IsInterception, Switches!Spec


-----------------------------------------------------------------------------
(* The arguments.  A call has the argument it was made with, or, behind a  *)
(* hook that is there to stay, what that hook makes of it.                 *)
Settings ==
  /\ ext \in [SaveOpens -> Extensions \cup {".co2"}]
  /\ ext["CreateFileW"] = ext["CreateFileA"]
  /\ ValidPort(port)
  /\ port \in Ports \cup {DefaultPort}

Hooked(c) == slot[c.fn] = "hook" /\ c.arg = Effect(c.fn, c.asked, ext, port)

Arguments ==
  \A t \in Callers : call[t] # Idle =>
    /\ call[t].at \in {"hook", "forward", "orig", "crashed"}
    /\ <<call[t].fn, call[t].asked>> \in Requests[t]
    /\ call[t].arg = call[t].asked \/ Hooked(call[t])
    /\ call[t].at = "hook" => call[t].arg = call[t].asked

LEMMA SettingsInit == Init => Settings /\ Arguments
BY DEF Init, Settings, Arguments, DefaultExt, DefaultPort, ValidPort, SaveOpens

LEMMA SettingsStep == Settings /\ [Next]_vars => Settings'
<1> SUFFICES ASSUME Settings, [Next]_vars PROVE Settings'
  OBVIOUS
<1>1. CASE ConfigureSave
  BY <1>1 DEF ConfigureSave, Settings, SaveOpens
<1>2. CASE ConfigureRedirect
  BY <1>2 DEF ConfigureRedirect, Settings
<1>3. CASE UNCHANGED configVars
  BY <1>3 DEF configVars, Settings
<1>4. CASE InstallStep
  BY <1>1, <1>2, <1>3, <1>4 DEF InstallStep, EnterAndReturn, Enter, PatchFails, MakeWritable,
                                SaveOld, StoreNew, ProtectAgain, Finish
<1>5. ASSUME NEW t \in Callers, CallStep(t) \/ \E r \in Requests[t] : Call(t, r[1], r[2])
      PROVE  UNCHANGED configVars
  BY <1>5 DEF CallStep, HookBlocks, HookRewrites, Forward, Original, Call
<1> QED
  BY <1>3, <1>4, <1>5 DEF Next, vars

(* The setting of a hook that is in place does not change.                 *)
LEMMA SettingStays ==
  ASSUME Inv, InstallStep, NEW f \in Functions, slot[f] = "hook", NEW a
  PROVE  Effect(f, a, ext', port') = Effect(f, a, ext, port)
<1>1. \A i \in DOMAIN left :
        /\ left[i] = "configure savefile" => f \notin SaveOpens
        /\ left[i] = "configure redirect" => f # "connect"
  BY DEF Inv, ConfiguredFirst
<1>2. left # <<>> => 1 \in DOMAIN left /\ left[1] = Head(left)
  BY DEF Inv, HooksInv, Types
<1>3. CASE ConfigureSave \/ ConfigureRedirect
  <2>1. \/ f \notin SaveOpens /\ port' = port
        \/ f # "connect" /\ ext' = ext
    BY <1>1, <1>2, <1>3 DEF ConfigureSave, ConfigureRedirect, ConfigureNow
  <2> QED
    BY <2>1, OwnSetting
<1>4. CASE ~ ConfigureSave /\ ~ ConfigureRedirect
  BY <1>4 DEF InstallStep, EnterAndReturn, Enter, PatchFails, MakeWritable, SaveOld, StoreNew,
              ProtectAgain, Finish, configVars
<1> QED
  BY <1>3, <1>4

LEMMA InstallKeepsArguments == Inv /\ Arguments /\ InstallStep => Arguments'
<1> SUFFICES ASSUME Inv, Arguments, InstallStep, NEW t \in Callers, call[t] # Idle,
                    Hooked(call[t])
             PROVE  Hooked(call[t])'
  BY InstallFacts DEF Inv, Arguments
<1>1. call' = call /\ call[t].fn \in Functions /\ slot'[call[t].fn] = "hook"
  BY InstallFacts DEF Inv, Calls, Hooked
<1>2. Effect(call[t].fn, call[t].asked, ext', port') = Effect(call[t].fn, call[t].asked, ext, port)
  BY <1>1, SettingStays DEF Hooked
<1> QED
  BY <1>1, <1>2 DEF Hooked

LEMMA StepsKeepArguments ==
  ASSUME Inv, Arguments, NEW t \in Callers,
         CallStep(t) \/ \E r \in Requests[t] : Call(t, r[1], r[2])
  PROVE  Arguments'
<1>1. UNCHANGED <<slot, ext, port>>
  BY DEF CallStep, HookBlocks, HookRewrites, Forward, Original, Call, installVars, configVars
<1>2. \A u \in Callers : u # t => call'[u] = call[u]
  BY DEF CallStep, HookBlocks, HookRewrites, Forward, Original, Call, Inv, Calls
<1>3. SUFFICES ASSUME call'[t] # Idle
               PROVE  /\ call'[t].at \in {"hook", "forward", "orig", "crashed"}
                      /\ <<call'[t].fn, call'[t].asked>> \in Requests[t]
                      /\ call'[t].arg = call'[t].asked \/ Hooked(call'[t])
                      /\ call'[t].at = "hook" => call'[t].arg = call'[t].asked
  <2>1. ASSUME NEW u \in Callers, call'[u] # Idle
        PROVE  /\ call'[u].at \in {"hook", "forward", "orig", "crashed"}
               /\ <<call'[u].fn, call'[u].asked>> \in Requests[u]
               /\ call'[u].arg = call'[u].asked \/ Hooked(call'[u])
               /\ call'[u].at = "hook" => call'[u].arg = call'[u].asked
    BY <1>2, <1>3, <2>1 DEF Arguments
  <2> QED
    BY <1>1, <2>1 DEF Arguments, Hooked, Idle
<1>4. ASSUME NEW r \in Requests[t], Call(t, r[1], r[2])
      PROVE  /\ call'[t] = [at |-> slot[r[1]], fn |-> r[1], asked |-> r[2], arg |-> r[2]]
             /\ slot[r[1]] \in {"orig", "hook"} /\ <<r[1], r[2]>> \in Requests[t]
  BY <1>4, HooksAssumption DEF Call, Inv, Calls, HooksInv, Types
<1>5. CASE HookBlocks(t) \/ Original(t)
  BY <1>3, <1>5 DEF HookBlocks, Original, Inv, Calls
<1>6. CASE HookRewrites(t)
  <2>1. call[t] # Idle /\ call[t].at = "hook" /\ IsCall(call[t]) /\ slot[call[t].fn] = "hook"
    BY <1>6 DEF HookRewrites, Idle, Inv, Calls
  <2>2. call'[t] = [at |-> "forward", fn |-> call[t].fn, asked |-> call[t].asked,
                    arg |-> Effect(call[t].fn, call[t].arg, ext, port)]
    BY <1>6, <2>1, CallFields DEF HookRewrites, Inv, Calls
  <2>3. <<call[t].fn, call[t].asked>> \in Requests[t] /\ call[t].arg = call[t].asked
    BY <2>1 DEF Arguments
  <2> QED
    BY <2>1, <2>2, <2>3 DEF Hooked
<1>7. CASE Forward(t)
  <2>1. call[t] # Idle /\ call[t].at = "forward" /\ IsCall(call[t]) /\ saved[call[t].fn] = "orig"
    BY <1>7 DEF Forward, Idle, Inv, Calls, HooksInv, SavedBehind
  <2>2. call'[t] = [at |-> "orig", fn |-> call[t].fn, asked |-> call[t].asked, arg |-> call[t].arg]
    <3> DEFINE c == [at |-> "orig", fn |-> call[t].fn, asked |-> call[t].asked,
                     arg |-> call[t].arg]
    <3>1. call' = [call EXCEPT ![t] = c]
      BY <1>7, <2>1, CallFields DEF Forward
    <3> HIDE DEF c
    <3>2. call'[t] = c
      BY <3>1 DEF Inv, Calls
    <3> QED
      BY <3>2 DEF c
  <2>3. /\ <<call[t].fn, call[t].asked>> \in Requests[t]
        /\ call[t].arg = call[t].asked \/ Hooked(call[t])
    BY <2>1 DEF Arguments
  <2> QED
    BY <2>2, <2>3 DEF Hooked
<1>8. ASSUME NEW r \in Requests[t], Call(t, r[1], r[2])
      PROVE  /\ call'[t].at \in {"hook", "forward", "orig", "crashed"}
             /\ <<call'[t].fn, call'[t].asked>> \in Requests[t]
             /\ call'[t].arg = call'[t].asked
  <2>1. /\ call'[t] = [at |-> slot[r[1]], fn |-> r[1], asked |-> r[2], arg |-> r[2]]
        /\ slot[r[1]] \in {"orig", "hook"} /\ <<r[1], r[2]>> \in Requests[t]
    BY <1>4, <1>8, Zenon
  <2>2. call'[t].fn = r[1] /\ call'[t].asked = r[2] /\ call'[t].arg = r[2]
    BY <2>1
  <2>3. call'[t].at = slot[r[1]]
    BY <2>1
  <2> QED
    BY <2>1, <2>2, <2>3, Zenon
<1> QED
  BY <1>5, <1>6, <1>7, <1>8 DEF CallStep

LEMMA ArgumentsStep == Inv /\ Arguments /\ [Next]_vars => Arguments'
<1>1. ASSUME Arguments, UNCHANGED vars PROVE Arguments'
  BY <1>1 DEF Arguments, Hooked, vars, installVars, configVars
<1> QED
  BY <1>1, InstallKeepsArguments, StepsKeepArguments DEF Next

LEMMA ArgumentsAlways == BootstrapOrder(Plan) /\ Spec => []Settings /\ []Arguments
<1> QED
  BY InvAlways, SettingsInit, SettingsStep, ArgumentsStep, PTL DEF Spec

(* In bootstrap's order, every variable keeps its type, and a call's       *)
(* argument is the game's or the hook's.                                   *)
THEOREM HooksTypes == BootstrapOrder(Plan) /\ Spec => []TypeOK
<1>1. Inv /\ Settings /\ Arguments => TypeOK
  <2> SUFFICES ASSUME Inv, Settings, Arguments PROVE TypeOK
    OBVIOUS
  <2>1. any \in BOOLEAN /\ installed \in [Modules -> BOOLEAN]
    BY Zenon DEF Inv, HooksInv, Types
  <2>2. /\ writable \subseteq Pages
        /\ unrestored \subseteq Pages
        /\ old_prot \in {"none", "read-only", "writable"}
    <3>1. Patching => Page \in Pages
      BY LookupFacts DEF Inv, HooksInv, Patching, Page, Pages
    <3> QED
      BY <3>1 DEF Inv, HooksInv, Protection
  <2>3. ASSUME NEW t \in Callers, call[t] # Idle
        PROVE  /\ call[t].at \in {"hook", "forward", "orig", "crashed"}
               /\ <<call[t].fn, call[t].asked>> \in Requests[t]
               /\ call[t].arg \in {call[t].asked, Effect(call[t].fn, call[t].asked, ext, port)}
    BY <2>3 DEF Arguments, Hooked
  <2> QED
    BY <2>1, <2>2, <2>3 DEF TypeOK, Inv, HooksInv, Types, Settings
<1> QED
  BY <1>1, InvAlways, ArgumentsAlways, PTL

(* The extension is none of the parts of a path that the game asks for.    *)
ExtensionIsNew ==
  \A t \in Callers : \A r \in Requests[t] : r[1] \in SaveOpens =>
    \A i \in DOMAIN r[2] : r[2][i] \notin Extensions \cup {".co2"}

(* Rewriting keeps different files apart.                                  *)
LEMMA RewriteOneToOne ==
  ASSUME NEW p, NEW q, NEW e, e \notin Sl2,
         \A i \in DOMAIN p : p[i] # e, \A i \in DOMAIN q : q[i] # e
  PROVE  SameFile(Rewrite(p, e), Rewrite(q, e)) <=> SameFile(p, q)
<1>1. Folded(Rewrite(p, e)) = Rewrite(p, e) /\ Folded(Rewrite(q, e)) = Rewrite(q, e)
  BY DEF Folded, Rewrite, Sl2
<1>2. ASSUME Rewrite(p, e) = Rewrite(q, e) PROVE Folded(p) = Folded(q)
  <2>1. DOMAIN p = DOMAIN q
    BY <1>2 DEF Rewrite
  <2>2. \A i \in DOMAIN p : Rewrite(p, e)[i] = Rewrite(q, e)[i]
    BY <1>2
  <2> QED
    BY <2>1, <2>2 DEF Rewrite, Folded, Sl2
<1>3. ASSUME Folded(p) = Folded(q) PROVE Rewrite(p, e) = Rewrite(q, e)
  <2>1. DOMAIN p = DOMAIN q
    BY <1>3 DEF Folded
  <2>2. \A i \in DOMAIN p : Folded(p)[i] = Folded(q)[i]
    BY <1>3
  <2> QED
    BY <2>1, <2>2 DEF Rewrite, Folded, Sl2
<1> QED
  BY <1>1, <1>2, <1>3 DEF SameFile

(* Whatever the extension, if it is no part of a path already: two saves   *)
(* that the game keeps apart stay apart, and one save stays one.           *)
THEOREM RedirectIsOneToOneAlways ==
  ASSUME ExtensionIsNew
  PROVE  BootstrapOrder(Plan) /\ Spec => []RedirectIsOneToOne
<1>1. Settings /\ Arguments => RedirectIsOneToOne
  <2> SUFFICES ASSUME Settings, Arguments,
                      NEW t \in Callers, NEW u \in Callers, Redirected(t), Redirected(u)
               PROVE  SameFile(call[t].arg, call[u].arg) <=> SameFile(call[t].asked, call[u].asked)
    BY DEF RedirectIsOneToOne
  <2> DEFINE e == ext["CreateFileW"]
  <2>1. e \in Extensions \cup {".co2"} /\ \A f \in SaveOpens : ext[f] = e
    BY DEF Settings, SaveOpens
  <2>2. ASSUME NEW v \in Callers, Redirected(v)
        PROVE  /\ call[v].arg = Rewrite(call[v].asked, e)
               /\ e \notin Sl2
               /\ \A i \in DOMAIN call[v].asked : call[v].asked[i] # e
    <3>1. /\ call[v].fn \in SaveOpens /\ IsSave(call[v].asked) /\ ~ IsSave(call[v].arg)
          /\ call[v] # Idle
      BY <2>2 DEF Redirected, Idle
    <3>2. /\ <<call[v].fn, call[v].asked>> \in Requests[v]
          /\ call[v].arg = Effect(call[v].fn, call[v].asked, ext, port)
      BY <3>1 DEF Arguments, Hooked
    <3>3. call[v].arg = Rewrite(call[v].asked, e)
      BY <2>1, <3>1, <3>2 DEF Effect, Target, SaveOpens, Dns
    <3>4. e \notin Sl2
      BY <3>1, <3>3 DEF IsSave, Rewrite
    <3>5. \A i \in DOMAIN call[v].asked : call[v].asked[i] # e
      BY <2>1, <3>1, <3>2 DEF ExtensionIsNew
    <3> QED
      BY <3>3, <3>4, <3>5
  <2> QED
    BY <2>2, RewriteOneToOne
<1> QED
  BY <1>1, ArgumentsAlways, PTL

-----------------------------------------------------------------------------
(* The way of a call.                                                      *)

(* What the next step of a call makes of it.                               *)
Moves(c, d) ==
  \/ c = Idle /\ d.at = slot[d.fn] /\ d.fn \in Functions
  \/ c # Idle /\ d = Idle
  \/ /\ c # Idle /\ c.at = "hook" /\ d.at = "forward" /\ d.fn = c.fn
     /\ c.fn \in Dns => ~ IsFromSoft(c.arg)
     /\ d.arg = Effect(c.fn, c.arg, ext, port)
  \/ c # Idle /\ c.at = "forward" /\ d.at = "orig" /\ d.fn = c.fn /\ d.arg = c.arg

LEMMA CallMoves ==
  ASSUME Inv, NEW t \in Callers,
         CallStep(t) \/ \E r \in Requests[t] : Call(t, r[1], r[2])
  PROVE  /\ \A u \in Callers : u # t => call'[u] = call[u]
         /\ Moves(call[t], call'[t])
<1>1. \A u \in Callers : u # t => call'[u] = call[u]
  BY DEF CallStep, HookBlocks, HookRewrites, Forward, Original, Call, Inv, Calls
<1>2. ASSUME NEW r \in Requests[t], Call(t, r[1], r[2]) PROVE Moves(call[t], call'[t])
  <2>1. /\ call[t] = Idle
        /\ call'[t] = [at |-> slot[r[1]], fn |-> r[1], asked |-> r[2], arg |-> r[2]]
    BY <1>2 DEF Call, Inv, Calls
  <2>2. call'[t].at = slot[r[1]] /\ call'[t].fn = r[1] /\ r[1] \in Functions
    BY <2>1, HooksAssumption
  <2> QED
    BY <2>1, <2>2 DEF Moves
<1>3. CASE HookBlocks(t) \/ Original(t)
  BY <1>1, <1>3 DEF Moves, HookBlocks, Original, Idle, Inv, Calls
<1>4. CASE HookRewrites(t)
  <2>1. call[t].at = "hook" /\ call[t] # Idle /\ IsCall(call[t])
    BY <1>4 DEF HookRewrites, Idle, Inv, Calls
  <2>2. call'[t] = [at |-> "forward", fn |-> call[t].fn, asked |-> call[t].asked,
                    arg |-> Effect(call[t].fn, call[t].arg, ext, port)]
    BY <1>4, <2>1, CallFields DEF HookRewrites, Inv, Calls
  <2> QED
    BY <1>1, <1>4, <2>1, <2>2 DEF HookRewrites, Moves
<1>5. CASE Forward(t)
  <2>1. /\ call[t].at = "forward" /\ call[t] # Idle /\ IsCall(call[t])
        /\ saved[call[t].fn] = "orig"
    BY <1>5 DEF Forward, Idle, Inv, Calls, HooksInv, SavedBehind
  <2> DEFINE c == [at |-> "orig", fn |-> call[t].fn, asked |-> call[t].asked,
                   arg |-> call[t].arg]
  <2>2. call' = [call EXCEPT ![t] = c]
    BY <1>5, <2>1, CallFields DEF Forward
  <2> HIDE DEF c
  <2>3. call'[t] = c
    BY <2>2 DEF Inv, Calls
  <2> QED
    BY <1>1, <2>1, <2>3 DEF c, Moves
<1> QED
  BY <1>1, <1>2, <1>3, <1>4, <1>5 DEF CallStep

(* Every call comes nearer to its return with each step of its own, and no *)
(* step of anybody else sets it back: what CallsReturn needs beside        *)
(* fairness.                                                               *)
THEOREM CallsOnlyAdvanceAlways == BootstrapOrder(Plan) /\ Spec => CallsOnlyAdvance
<1> DEFINE Nearer ==
  \A t \in Callers :
    call[t] # Idle /\ call'[t] # call[t] => Ahead(call'[t]) < Ahead(call[t])
<1>1. Inv /\ [Next]_vars => [Nearer]_vars
  <2> SUFFICES ASSUME Inv, Next, NEW t \in Callers, call[t] # Idle, call'[t] # call[t]
               PROVE  Ahead(call'[t]) < Ahead(call[t])
    OBVIOUS
  <2>1. PICK u \in Callers : CallStep(u) \/ \E r \in Requests[u] : Call(u, r[1], r[2])
    BY InstallFacts DEF Next, Inv
  <2>2. Moves(call[t], call'[t])
    BY <2>1, CallMoves
  <2>3. call[t].at \in {"hook", "forward", "orig"}
    BY DEF Inv, Calls
  <2> QED
    BY <2>2, <2>3 DEF Moves, Ahead, Idle
<1> QED
  BY <1>1, InvAlways, PTL DEF Spec, CallsOnlyAdvance

-----------------------------------------------------------------------------
(* The hooks keep what they are there for from the system.                 *)

(* The settings take a path or a port to another one.                      *)
SettingsDiffer == Extensions \cap Sl2 = {} /\ LoginPort \notin Ports

LEMMA EffectIsHarmless ==
  ASSUME SettingsDiffer, Settings, NEW f \in Functions, NEW a,
         f \in Dns => ~ IsFromSoft(a)
  PROVE  ~ Target(f, Effect(f, a, ext, port))
<1>1. CASE ~ Target(f, a)
  BY <1>1 DEF Effect
<1>2. CASE f \in SaveOpens /\ IsSave(a)
  <2>1. Effect(f, a, ext, port) = Rewrite(a, ext[f])
    BY <1>2 DEF Effect, Target, Dns, SaveOpens
  <2>2. ext[f] \notin Sl2
    BY <1>2 DEF Settings, SettingsDiffer, Sl2
  <2>3. ~ IsSave(Rewrite(a, ext[f]))
    BY <2>2 DEF IsSave, Rewrite
  <2> QED
    BY <1>2, <2>1, <2>3 DEF Target, Dns, SaveOpens
<1>3. CASE f = "connect" /\ a = LoginPort
  <2>1. Effect(f, a, ext, port) = port
    BY <1>3 DEF Effect, Target, Dns, SaveOpens
  <2>2. port # LoginPort
    BY DEF Settings, SettingsDiffer, LoginPort, DefaultPort
  <2> QED
    BY <1>3, <2>1, <2>2 DEF Target, Dns, SaveOpens
<1>4. ~ (f \in Dns /\ IsFromSoft(a))
  OBVIOUS
<1> QED
  BY <1>1, <1>2, <1>3, <1>4 DEF Target

(* A hook forwards nothing that it is there for.                           *)
ForwardsHarmless ==
  \A t \in Callers :
    call[t] # Idle /\ call[t].at = "forward" => ~ Target(call[t].fn, call[t].arg)

LEMMA ForwardsHarmlessStep ==
  ASSUME SettingsDiffer, Inv, Settings, ForwardsHarmless, [Next]_vars
  PROVE  ForwardsHarmless'
<1>1. CASE UNCHANGED call
  BY <1>1 DEF ForwardsHarmless
<1>2. ASSUME NEW t \in Callers, CallStep(t) \/ \E r \in Requests[t] : Call(t, r[1], r[2])
      PROVE  ForwardsHarmless'
  <2>1. (\A u \in Callers : u # t => call'[u] = call[u]) /\ Moves(call[t], call'[t])
    BY <1>2, CallMoves
  <2>2. call[t] # Idle => call[t].fn \in Functions
    BY DEF Inv, Calls
  <2>3. ASSUME call'[t].at = "forward", call'[t] # Idle
        PROVE  ~ Target(call'[t].fn, call'[t].arg)
    <3>1. \A f \in Functions : slot[f] # "forward"
      BY DEF Inv, HooksInv, Types
    <3>2. /\ call[t] # Idle /\ call[t].at = "hook" /\ call'[t].fn = call[t].fn
          /\ call[t].fn \in Dns => ~ IsFromSoft(call[t].arg)
          /\ call'[t].arg = Effect(call[t].fn, call[t].arg, ext, port)
      BY <2>1, <2>3, <3>1 DEF Moves
    <3> QED
      BY <2>2, <3>2, EffectIsHarmless
  <2> QED
    BY <2>1, <2>3 DEF ForwardsHarmless
<1> QED
  BY <1>1, <1>2, InstallFacts DEF Next, vars, Inv

(* Whatever the game asks for, and wherever its calls fall between the     *)
(* memory accesses of patch_iat: once a slot is patched, no call that goes *)
(* to the system for what the hook is there to stop is made any more.  It  *)
(* takes an extension other than .sl2 and a port other than the game's.    *)
THEOREM NoneGoesPastHookAlways ==
  ASSUME SettingsDiffer
  PROVE  BootstrapOrder(Plan) /\ Spec => NoneGoesPastHook
<1> DEFINE Before ==
  \A t \in Callers : ~ GoesPast(t) /\ GoesPast(t)' => slot[call'[t].fn] = "orig"
<1>1. Init => ForwardsHarmless
  BY DEF Init, ForwardsHarmless
<1>2. Inv /\ Settings /\ ForwardsHarmless /\ [Next]_vars => ForwardsHarmless'
  BY ForwardsHarmlessStep
<1>3. Inv /\ ForwardsHarmless /\ [Next]_vars => [Before]_vars
  <2> SUFFICES ASSUME Inv, ForwardsHarmless, Next, NEW t \in Callers,
                      ~ GoesPast(t), GoesPast(t)'
               PROVE  slot[call'[t].fn] = "orig"
    OBVIOUS
  <2>1. call'[t] # call[t]
    BY DEF GoesPast
  <2>2. PICK u \in Callers : CallStep(u) \/ \E r \in Requests[u] : Call(u, r[1], r[2])
    BY <2>1, InstallFacts DEF Next, Inv
  <2>3. Moves(call[t], call'[t])
    BY <2>1, <2>2, CallMoves
  <2> QED
    BY <2>3 DEF Moves, GoesPast, ForwardsHarmless, Idle
<1> QED
  BY <1>1, <1>2, <1>3, InvAlways, ArgumentsAlways, PTL DEF Spec, NoneGoesPastHook

=============================================================================
