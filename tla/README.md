# Verification of ds2sc (Dark Souls II seamless co-op mod)

TLA+ models, TLC runs and TLAPS proofs about the code of this repository: a
launcher that injects a DLL into the game, and the DLL, which hooks the game's
imports, redirects its saves and its login, and scales the HP of its enemies
with the number of players. Everything here was translated from the source
under `src/`; `PROJECT.json` maps each definition to the lines it stands for.

## 1. The system

| component | source | state it keeps | operations | who calls it |
|---|---|---|---|---|
| launcher | `launcher/main.cpp` | handles, the remote buffer | `wWinMain`, `inject` | the user |
| DLL entry | `dll/dllmain.cpp` | – | `DllMain` attach/detach | Windows' loader, under its lock |
| bootstrap, worker, teardown | `dll/core.cpp` | `g_stop_worker` | `bootstrap`, `scaling_worker`, `teardown` | a thread each; teardown runs in `DllMain` |
| scaling engine | `dll/scaling.cpp` | `g_backup`, `g_mtx`, two percentages; the game's tables | `init`, `apply`, `restore` | worker, teardown |
| player count | `dll/player_count.cpp` | atomic `g_n` | `get`, `set` | bootstrap sets, the engine gets |
| log | `dll/log.cpp` | file handle, a mutex | `init`, `info/warn/error`, `shutdown` | every thread in the DLL, hooks included |
| IAT patching | `dll/hooks/iat.cpp` | the host's import table | `patch_iat`, `patch_iat_ordinal` | the three install()s |
| DNS block | `dll/hooks/getaddrinfo_hook.cpp` | two saved pointers, `g_installed` | `install`, two hooks | bootstrap; the game's threads |
| save redirect | `dll/hooks/savefile_hook.cpp` | two saved pointers, `g_installed`, extension | `configure`, `install`, two hooks | bootstrap; the game's threads |
| server redirect | `dll/hooks/server_redirect_hook.cpp` | host, key, port, `g_installed`; bytes of the image | `configure`, `install`, connect hook | bootstrap; the game's threads |
| settings | `dll/settings.cpp` | a struct | `load_settings` | bootstrap |
| version gate | `dll/version_gate.cpp` | a hash in progress | `check` | bootstrap |
| pull request checks | `scripts/agentcraft_checks.py` | – | `validate` | CI |
| build, Ghidra scripts | `scripts/`, `ghidra-scripts/` | – | offline tools | developers |

**How they interact.** The launcher creates the game suspended, runs
`LoadLibraryW` in it with a remote thread, waits for that thread, and resumes the
game. `DllMain` only starts the bootstrap thread, so bootstrap and the game's main
thread run side by side from the resume on. Bootstrap opens the log, reads the
settings, asks the version gate, installs DNS, save and server hooks in that
order, sets the player count and starts the worker. The worker calls `apply()` up
to 1200 times, until the game's tables resolve. The hooks run in the game's
threads and take the log's mutex. At process exit Windows kills every thread where
it stands and then calls `DllMain`, which runs `teardown()`: raise the stop flag,
`restore()`, a log line, close the log.

**What is hard.** Two mutexes and a nested use of them (`restore()` logs while it
holds the engine's); threads killed while holding either; code that calls through
import slots in the instant they are patched; a game that runs before the hooks
are there; tables that appear one after the other; memory that may vanish or
refuse a write; a snapshot that decides what "original" means after any number of
scalings; conversions between integers, doubles and integers of another width;
strings overwritten in place. `PROJECT.json` lists each such hazard at its line.

**What makes each part correct.**
- Engine: HP is always one scaling of vanilla HP, by the rate of its row's own category,
  every change is known to a later restore, nothing scales during a restore, a restore
  leaves vanilla HP.
- Core: the worker ends; exit does not hang, and is cut short by a killed holder of a
  mutex only; what exit leaves behind is vanilla; a
  finished worker scaled the whole table for one count; hooks go into the known
  executable only.
- Hooks: every call returns, and gets either the game's argument or what the hook
  makes of it, as if each function had a switch; none gets past a hook unchanged; two saves never become one file,
  nor one save two; and no page of the import table stays
  writable but one whose protection could not be restored.
- Launcher: the game only runs with the mod; it is never left suspended; the launcher
  reports what became of it; buffer and handles live as long as they are used. A
  failure of one of three calls whose result it ignores is the only exception.
- Redirect: only the strings change, each wholly and once, and a game that counts as
  redirected is. Settings: the last well-formed
  line of the right section decides.

## 2. The modules

| module | models | composed of |
|---|---|---|
| `ScaleArith` | `mul_from`, `scale_u32` | |
| `RowSession` | one row while players join and leave | `ScaleArith` |
| `HpLedger` | abstract: what `scaling.h` promises of the HP | |
| `Scaling` | `scaling.cpp`, `player_count.cpp` | `ScaleArith`; implements `HpLedger` |
| `VersionGate` | `version_gate.cpp` | |
| `Core` | `dllmain.cpp`, `core.cpp`, `log.cpp` | `Scaling` and `VersionGate`: a step is one of theirs or leaves them alone |
| `HookEffects` | the five hook functions, the path's rewriting, the suffix test | |
| `Interception` | abstract: hooks as a switch per function | `HookEffects` |
| `Hooks` | `iat.cpp`; `configure` and `install` of the three hook modules; calls by the game | `HookEffects`; implements `Interception` |
| `Redirect` | host and key strings of `server_redirect_hook.cpp` | |
| `Settings` | `settings.cpp` | |
| `Launcher` | `launcher/main.cpp` | |
| `...Proofs` | theorems about the module they are named for, `ScaleArithProofs` the lemmas on the arithmetic that three of them share | |
| `MC*` | constants for TLC | |

Operators named `Mut...` are plausible bugs, each a variant of the definition that
stands below it; no specification uses them. `PROJECT.json` says which property
finds which, as a check that the property can fail.

### Scaling
A row is an index; `hp[r]` is the field at the address that is the key of
`g_backup` in the code. A thread inside `apply()` or `restore()` takes one step
per loop iteration and per read of the player count: `ApplyBegin` locks and
computes `enemy_mul`, `ApplyBossMul` makes the *second* read of the count and
decides between reverting, returning and scaling, `ApplyCollect` is
`collect_boss_ids` and the read of the row count, `ApplyPatchRow`/`ApplyKeepRow`/
`ApplySkipRow` are the ways through the lambda, `RevertRow`/`RevertMiss`/
`RevertReturn` are the loop over `g_backup` and its `clear()`, shared by
`restore()` and the revert branch of `apply()`. Reading and writing game memory
depends on the page (`rw`, `ro`, `gone`), which the environment changes at any
moment. Calls that return without doing anything (`restore()` on an empty map) are
stutters; those that set the return value are actions. `ret` keeps only the sign
of what `apply()` returns, all that its caller looks at. `lost` is a history
variable: the rows some write-back missed.

### ScaleArith and RowSession
Multipliers are in hundredths, so products are exact; the doubles of the code
differ from them only at ties, where `Rounded` allows both neighbours. `Clamp` is
the saturating conversion to `uint32_t`, `ToLongLong` what `llround` gives out of
range. `RowSession` rewrites one row as the count goes up and down.

### Core
`proc` is the process; `boot` the next call of bootstrap; `worker` the position in
the polling loop; `td` the position in teardown. `StartLine`/`EndLine` are a log
line of any thread in the DLL at any time: the line's text is left out, the mutex
is not. `GameExits` freezes all other threads (their guards need `Alive`), with
whatever mutexes they hold; `TeardownCutShort` is Windows ending a process whose
last thread waits for such a mutex. `DllUnloads` is a FreeLibrary, which leaves the
other threads running; nobody in the repository calls it, and a constant says
whether it may happen.

### VersionGate
`check()` with `sha256_file`, one system call per step: the setting up of the hash,
`ReadFile` of a chunk (`GateReads`), `BCryptHashData` (`GateFeeds`), the end of the
file and the comparison (`GateFinishes`). A digest is the sequence of bytes that
was hashed, so equal digests mean equal bytes (no collisions). `GateFails` is any
of the calls that return false at once; a `ReadFile` that fails is `GateFinishes`,
because the loop cannot tell it from the end of the file. `Core` runs these steps
as the bootstrap thread's, between `log::init` and the first install. That is why
`HooksNeedKnownExe` says "begins with": a longer file whose read fails exactly
where the known build ends has that build's digest.

### HookEffects, Hooks and Interception
`HookEffects` says what each hook function makes of an argument. A host or a path
is a sequence of tokens: the strings the code looks for (a denied suffix, ".sl2"),
in their spellings, and other text; `Rewrite` replaces every ".sl2" of a path, as
`rewrite` does, and `IsSave` is its test.

`Hooks` is `configure()` and `install()` of each module in bootstrap's order
(`Plan`), one memory access of `patch_iat` per step (`MakeWritable`, `SaveOld`,
`StoreNew`, `ProtectAgain`), against threads of the game that fetch a slot
(`Call`), run the hook they found with the extension or port in force, and forward
through the saved pointer. The walk over the import directory is abstracted to the
set of imports the host has, by name or by ordinal.

VirtualProtect changes whole pages, and `PageOf` says which slots share one, so
`writable` is a set of pages and `old_prot` what the first call has found, as in
the code. With `MayFail` either call may fail. Nobody looks at the result of the
second: the page then stays writable (`unrestored`, a history variable), and the
next patch on it restores that. `PagesAreRestored` is what remains for the code to
get right: each store finds its page writable, although a neighbour's patch may
just have protected it, and no other failure leaves a page writable.

`Interception` is what this is for: a switch for each function, turned on once,
that decides a call at the instant it is made, under settings that no longer change
once the switch is on. `IsInterception` maps a slot that points to the hook to a
switch that is on, and a call in the hook to what it will forward.

### Launcher
One system call per step. Each call on the game may fail, and the game may be killed
at any time. The game's side is the remote thread's `LoadLibraryW` and the bootstrap
thread. Where the code looks at a result, the failure takes it down its own path. It
ignores five: after a failed `VirtualFreeEx` the buffer stays (`GiveBack`), after a
failed `GetExitCodeThread` the zero stays in `remote_module` (`ReadCode`), and a wait,
a `TerminateProcess` or a `ResumeThread` that fails is taken for one that succeeded
(`WaitFails`, `Terminate`, `Resume`). The history variable `missed` records the last
three, and the properties name them as the only exceptions: without a failed
`TerminateProcess` or `ResumeThread` no game stays suspended, without a failed wait
nothing runs without the mod and no buffer is freed under its reader.

### Redirect
The image is a sequence of cells. `FindAll`, `Put` and `KeyCapacity` are
`find_all`, the body of `overwrite` and the computation of the key's slot; `KeyTexts`
is bootstrap's reading of the key file, which it does only if there is a host to
redirect to. One region per step, each possibly refused by VirtualProtect. `Cells`
lists what a cell may hold: the markers, the letters of FromSoft's strings, and
`Text`, all else.

### Settings
One line per step, classified as blank, malformed, header or assignment (what
stripping comments and trimming leaves of it). `Skip` passes over the first two; that
a malformed line is also logged is left out, as all log lines are. Settings of the
same section and type behave alike, so a few stand for all.

## 3. The runs

| run | bounds | what it shows |
|---|---|---|
| `scaling_faults` | 2 threads, a mob and a boss row, counts 1 and 3, pages writable, read-only (and perhaps impossible to unprotect) or gone | `ChangesAreRecorded`, `RowsAreAtTheirRate`, the inductive invariant `IInv` (types and `NeverCompounds` are among its parts), and that the engine implements `HpLedger` |
| `scaling_rates` | the same with counts 1, 2, 3 and read-only pages that can be unprotected | `AppliedRowsMatch`: re-applying at another count starts from vanilla |
| `row_session` | 5-bit HP, 10-bit long long, seven percentages from -60 to 1500, up to 6 players | `NearestOrSaturated`, `MorePlayersMoreHp` |
| `core` | the engine's instance inside its process, 2 attempts, unloading allowed; an executable of up to three chunks that is the known one, begins with it, or has a chunk too many in the middle | nine properties, two of them liveness |
| `hooks` | bootstrap's configure and install calls, savefile's install twice; connect by ordinal, the rest by name; the slots of each library on a page; either VirtualProtect may fail; the extension set or not, the port in or out of range; a caller of the wide and one of the narrow CreateFile, with a save in two spellings and its backup | forwarding, page protection, idempotence, that the rewriting is one to one, that hooks take effect and none is passed by, that calls return and never go back, and that it all implements `Interception` |
| `launcher` | complete: the state space is finite | types and handles, `RunsWithModOnly`, `BufferOutlivesRemote`, `SaysWhatItLeaves`, `NeverLeftSuspended`, whichever call fails |
| `redirect` | 4 images, 4 hosts, 4 keys and no key, 3 calls of install() | `StringsOnly`, `WholeOrUntouched`, `InstalledMeansRedirected`, `OverwrittenOnce` |
| `settings` | all files of up to 4 lines over 4 section names, 5 keys, 3 values | `LastSettingWins` |
| `restore_exact`, `core_save`, `core_line`, `hooks_idempotent` | small | disagreements of code and documentation, section 6 |

*Why the bounds are enough.* Rows never interact except through the boss ids and
the order of the loop, so one row of each category suffices, and two so that a
loop can be interrupted half way. The rows' HPs
and the width are such that a row has another value for each count a run uses and for
each of the two rates, although a boss at three players already saturates. Two threads give every overlap of two calls; the
mutex treats a third like the second. `core` has exactly the two callers the DLL
has. Two attempts show a worker that succeeds at once, later, or not at all.
Two pages give slots that share
one and slots that do not. Callers of a hook share nothing but the slots and the settings; two are needed
only to compare what becomes of two paths. Three chunks give the version check a
first, a middle and a last one. The widths in `row_session` let products hit zero, both sides of the uint32 limit and
both sides of the long long limit. The theorems of section 5 do not depend on any
of these bounds.

`CHECK_DEADLOCK FALSE` is set where the system really stops: a process that is
gone, a launcher that has exited, installs that are done, a file that is read. The
engine's runs check for deadlock.

## 4. Fairness

- `Core`: weak fairness of bootstrap, of teardown and of ending a log line: Windows
  schedules every ready thread, and writing a line does not wait for anyone. Strong
  fairness of the worker, because its own log lines, of which the code has finitely
  many, may come between its steps. No fairness of the game: it need not load a
  save, exit, or call a hook.
- `Hooks`: weak fairness of the installing thread and of each call in progress (they
  wait for nobody); none of new calls.
- `Launcher`: weak fairness of the launcher and of the remote thread's
  `LoadLibraryW`: `DllMain` starts a thread and returns, nothing in it waits. That its
  wait fails (`WaitFails`) is never forced.

## 5. What is proved

Every safety property of a passing run, invariant, action property or refinement, is
also a theorem, for all values of the constants. `PROJECT.json` lists each with what it
says.

| module | theorems | for any |
|---|---|---|
| `ScalingProofs` | `Invariance`, `TypeCorrect`, `NeverCompoundsAlways`, `ChangesAreRecordedAlways`, `RowsAreAtTheirRateAlways`, `AppliedRowsMatchAlways`, `RestoreIsExactAlways`, `Refinement` | number of rows, threads, percentages, counts, widths, vanilla table |
| `CoreProofs` | `CoreImplementsEngine`, `CoreImplementsLedger`, `CoreTypesAlways`, `OneCountAlways`, `ExitRestores`, `HooksNeedKnownExeAlways`, `ScaledOnceDoneAlways`, `CutShortAlways`, `ThreadsOnlyAdvanceAlways` | the same, and any bound on attempts, any executables and any chunk size |
| `HooksProofs` | `HooksTypes`, `ForwardsToOriginalAlways`, `PagesAreRestoredAlways`, `InstallIsIdempotentAlways`, `RedirectIsOneToOneAlways`, `NoneGoesPastHookAlways`, `CallsOnlyAdvanceAlways`, `IsInterceptionAlways` | host, layout of the slots on pages, callers, requests, extensions, ports, and plan in bootstrap's order |
| `RowSessionProofs` | `SessionTypes`, `NearestOrSaturatedAlways`, `MorePlayersMoreHpAlways` | widths, percentages, originals, number of players |
| `RedirectProofs` | `RedirectTypes`, `StringsOnlyAlways`, `WholeOrUntouchedAlways`, `InstalledMeansRedirectedAlways`, `OverwrittenOnceAlways` | images, hosts and keys, and number of calls of `install()` |
| `SettingsProofs` | `SettingsTypes`, `LastSettingWinsAlways` | names, keys, values, and length of file |
| `LauncherProofs` | `LauncherTypes`, `RunsWithModOnlyAlways`, `BufferOutlivesRemoteAlways`, `SaysWhatItLeavesAlways` | exit codes of a running and of a killed thread |

*Assumptions.* The named ASSUMEs of the modules, which TLC evaluates in the runs
(types of the constants; `NoThread` is not a thread; the worker and teardown are
the engine's only callers, and different; bootstrap sets the count, once). Beyond
them, in the statements of the theorems that need it:

- `BootstrapOrder(Plan)` (all of `HooksProofs`): a module is configured before it is
  installed, and the redirect is installed once. That is what `bootstrap()` does;
  without the second half `InstallIsIdempotent` is false, see `hooks_idempotent`.
- `ExtensionIsNew` (`RedirectIsOneToOneAlways`): the configured extension is no part
  of a path the game asks for. Else a vanilla file could have the name already.
- `SettingsDiffer` (`NoneGoesPastHookAlways`): no extension is a spelling of ".sl2", and
  the login's own port is not configured. Else the hook makes of a save, or of a login,
  what it was before, and the game goes on with its vanilla save or with FromSoft's port.
- `WritesSucceed` (`AppliedRowsMatchAlways`, `RestoreIsExactAlways`, `ScaledOnceDoneAlways`):
  no page vanishes and VirtualProtect does not refuse. Otherwise the code itself passes
  over the rows it cannot write; `restore_exact` shows what `restore()` is without it.
- `ForeignStrings` and `TidyImages` (all of `RedirectProofs`): the configured host has
  none of the letters that stand for FromSoft's, the key file holds one key, from
  BEGIN to END, and in the image as it was loaded nothing but key material stands
  between a BEGIN and the next END, with one newline behind it at most. `MCRedirect`
  assumes both of its images, hosts and keys, so the run `redirect` evaluates them.

*The arguments.*

- **Engine.** `NeverCompounds` is not inductive: a patch could use a wrong snapshot.
  `IInv` adds that snapshots are vanilla (`SnapshotsAreVanilla`), which a step keeps
  only if a row without a snapshot is vanilla, which is `ChangesAreRecorded`;
  clearing the map keeps that only if every row was written back before
  (`RevertProgress`); and two calls cannot spoil this for each other because only
  the owner of the mutex is inside (`OwnerOnly`). The refinement maps the ledger's
  mode to "some thread is reverting", and its voided rows to `lost`.
  `RowsAreAtTheirRate` needs that an apply's two multipliers are each of their own
  category (`RatesByCategory`), although the player count may change between the two
  reads, and the rounding lemmas of `ScaleArithProofs`, which turn "an outcome of
  `scale_u32`" into "the nearest integer, or saturated".
  `AppliedRowsMatch` needs the loop's own progress (`RowsMatch`): rows it has passed
  are scaled, and rows of HP 0, which it snapshots and does not write, are their own
  scaling.
- **Core.** Every step of the process is a step of the engine or leaves it alone, so
  the engine's theorems hold of it. `TeardownAlone` adds that at process exit nobody
  but teardown runs; `CountFixed` that the worker starts after the count is set and
  nobody sets it again; `ScaledInv` that before a teardown each row is vanilla or
  scaled for that count, and scaled once the loop has passed it. `GateInv` says that
  what has been hashed is what has been read, so a digest that matches means an
  executable that begins with the known one, and that bootstrap gets past the gate
  only then. `CutShortByKilledHolder` is what remains true of the promise that
  `core_line` refutes. It needs both directions of `OwnerOnly` (who has returned no
  longer holds the mutex), that teardown is inside the engine only while it restores,
  and that nothing happens in a process that is gone (`MutexInv`, `GoneIsFinal`).
  `ThreadsOnlyAdvance` is the variant of the two liveness properties: `CoreTypeOK`
  bounds the attempts, stages and rows are finitely many, so all that stays with TLC of
  `WorkerEnds` and `ExitCompletes` is that an unfinished thread has a step to take and
  gets to take it.
- **Hooks.** `HooksInv` ties the place in `patch_iat` to the slot, the saved pointer and
  the page, which is writable from `MakeWritable` to `ProtectAgain`, and before that only
  if an earlier restoration failed (`Protection`): a slot with the hook in it has the original saved behind it
  (`SavedBehind`), and nobody will patch it again, since its module is installed, is
  about to be, or (for `connect`) has no second install ahead (`PatchedOnce`). `Calls`
  adds that a call found in a hook has its slot patched, for good; `ConfiguredFirst`
  that settings no longer change behind an active hook. From these three, every
  memory access is a step of `Interception`: `StoreNew` turns the switch on, the
  fetch of the slot decides the call, and the rest are stutters. `CallsOnlyAdvance`
  (a call is forwarded to the system, never back to a hook) is the variant of
  `CallsReturn`, and `NoneGoesPastHook` the safety half of `HookTakesEffect`: what a hook
  forwards is never again what it is there to change (`EffectIsHarmless`), since settings
  are complete before the slot is patched.
- **RowSession.** `SessionInv` says the HP is one of the outcomes of scaling the
  original for the count. Rounding is off by half a unit at most and monotonic but
  for ties; the two conversions saturate where they should.
- **Redirect.** `RedirectInv` says of the image that each slot (host or key) is as the
  loader left it or wholly replaced, and of the hits still to visit that they are
  where FromSoft's strings were to begin with (`Sought`). The work is in showing that a
  search of an image that has been written to finds nothing new (`FindsHosts`,
  `FindsKeys`), that slots are disjoint (`SlotsDisjoint`), and that from a BEGIN the next
  END bounds exactly the old slot, or the new key that it already holds, which the
  overwriting then leaves as it is (`PutKey`). The same lemmas say what a step keeps and
  what it replaces: a byte that has changed is never changed again, and `host_patched`,
  once true, points at a host string that is wholly the coordinator's (`FlagsAreTrue`).
- **Settings.** `SectionInForce`: the parser's section is that of the last header.
- **Launcher.** The position in the launcher's course determines what the game, the
  remote thread and the buffer can be (`GameAt`, `RemoteAt`), and an exit code that is
  not zero means a loaded DLL or a game that is gone (`CodeTells`), as long as the wait
  has not failed. `SaysWhatItLeaves` is the safety half of `NeverLeftSuspended`: no way
  out of the launcher leaves a game behind that it has not resumed or ended, except
  through a failure of the call that should have.

*Only model-checked*: the liveness properties `WorkerEnds`, `ExitCompletes`,
`HookTakesEffect`, `CallsReturn` and `NeverLeftSuspended`, because ENABLED is out of the prover's
reach. The safety part of each is proved (`ThreadsOnlyAdvance`, `CallsOnlyAdvance`,
`NoneGoesPastHook`, `SaysWhatItLeaves`); what is left to TLC is that the fair steps are enabled.

## 6. Where code and documentation disagree

- `restore_exact`: "restore() is exact" (`scaling.h`), but a failed write-back is
  dropped with the snapshot. The refinement says precisely how far the promise
  holds: for every row that no write-back has missed.
- `core_save`: "vanilla .sl2 saves are never touched" (`core.cpp`), but the game is
  resumed before the save hook is certain to be installed.
- `core_line`: "closing the game produces a clean teardown log line"
  (`M2-design.md`), but a thread killed inside a mutex cuts teardown short.
  `CutShortByKilledHolder` says that nothing else does.
- `hooks_idempotent`: `install()` of the redirect is "idempotent" (its header), but
  it remembers itself as installed only if it found the host string, while it
  patches `connect` in any case.

Others seen while modelling are in the notes of the hazards: "malformed lines are logged
and skipped" (`settings.h`), but only a line without an equals sign is logged, while a
value that does not parse and an unknown key are skipped without a word; the launcher
ignores whether its wait, `TerminateProcess` and `ResumeThread` succeed, so a game may
stay suspended behind its error message, or behind no message at all; `patch_iat` ignores
whether the page's protection came back; the worker polls for
ten minutes, not until the tables resolve; `dns` is content with one of its two
imports; a read error leaves `load_settings` returning true; a category whose
multiplier becomes 1.0 keeps an HP an earlier apply gave it; the exit code of a
remote thread that was killed passes for a module handle; and after FreeLibrary
the worker, which is not joined, may scale after `restore()`. In `Redirect`, a key
of exactly its slot's length with no newline of its own, before a second newline
that is not part of the slot, would let a second `install()` take that newline in;
the executable has a NUL there, the images tried have none, and the proofs assume
it (`TidyImages`).

## 7. Not modelled

- The cryptography behind `version_gate`: a digest is the bytes hashed.
- The layout of the game's tables behind `find_param`: whether a table is found is a
  state of the environment. A reload of the tables at another address would leave
  stale keys in `g_backup`; `M3-design.md` calls it not observed, to be revisited if
  seen, and the code has nothing for it that could be modelled.
- Torn reads of the host string while it is overwritten (a data race), and a login
  that falls between the host's patch and connect's; both are noted as hazards.
- What the game does with its saves beyond opening them: it also imports functions
  that move, delete and look for files, which no hook intercepts.
- The walk over the PE import directory, a loop over constant data; `Present` is what
  it would find.
- That PAGE_READWRITE takes the right to execute from a page: import tables hold no code.
- `module_dir`, `log_host` and the text of log lines.
- `agentcraft_checks.py`: a sequential script without state over the output of git; it
  is no part of the program that runs beside the game. The build script and the
  Ghidra scripts are development tools that run offline.

## 8. Plan

Done, in this order: `ScaleArith`, `Scaling` with `HpLedger` and their proofs, `Core`
with its proofs, `Hooks`, `Launcher`, `RowSession`, `Redirect`, `Settings`; then
`VersionGate` inside `Core`, `HookEffects` and `Interception` with a `Hooks` that
configures, rewrites and implements it, and the proofs about `Hooks`, `Launcher`,
`RowSession`, `Settings` and `Redirect`; then the properties that say how far the
refuted promises hold and what bounds the liveness properties, with their proofs, and
the shared lemmas of `ScaleArithProofs`; last the protection of whole pages in `Hooks`
and the calls in `Launcher` whose results the code ignores.

Left: a variant for `Redirect`'s loops; a composition of `Hooks` with `Redirect` in which
a login goes from host lookup to connect; table reloads, once the code handles them.
