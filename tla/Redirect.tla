------------------------------ MODULE Redirect ------------------------------
(***************************************************************************)
(* Pointing the game at a coordinator: configure() and install() of        *)
(* dll/hooks/server_redirect_hook.cpp, for the strings in the game's image.*)
(* (The connect hook that install() also patches is in Hooks.)             *)
(*                                                                         *)
(* The image is a sequence of cells.  The login host, in ASCII or UTF-16,  *)
(* and the block of the RSA key are found by their bytes and overwritten   *)
(* in place, one region per step, the rest of a region filled with NUL.    *)
(* VirtualProtect may refuse any region.  The image is what find_all can   *)
(* read: the loader's sections, which stay readable.                       *)
(***************************************************************************)
EXTENDS Integers, Sequences, FiniteSets

CONSTANTS
  Images,      \* the images tried
  Hosts,       \* the settings coordinator_host, the empty sequence included
  Keys,        \* what the key file may hold
  Text,        \* the cells that are neither markers nor parts of those strings
  MaxInstalls  \* bound of the model: how often install() is called

Nul == "nul"
Newline == "nl"
Begin == "BEGIN"
End == "END"

(* FromSoft's login host; utf16le() follows every character with a NUL.    *)
OrigHost == <<"f", "s">>

Utf16le(s) == [i \in 1 .. 2 * Len(s) |-> IF i % 2 = 1 THEN s[(i + 1) \div 2] ELSE Nul]

(* What a cell may hold; "k" is a piece of FromSoft's key.                 *)
Cells == {Nul, Newline, Begin, End, "f", "s", "k"} \cup Text

ASSUME RedirectAssumption ==
  /\ Images \subseteq Seq(Cells)
  /\ Hosts \subseteq Seq(Cells)
  /\ Keys \subseteq Seq(Cells)
  /\ MaxInstalls \in Nat

VARIABLES
  initial,       \* the image as the game's loader made it
  image,         \* the image now
  host,          \* g_host
  pubkey,        \* g_pubkey
  step,          \* where install() is: idle, ascii, wide or key
  hits,          \* what find_all returned and the loop has still to visit
  host_patched,  \* whether a copy of the host has been overwritten
  installed,     \* g_installed
  calls          \* how often install() has been called

config == <<initial, host, pubkey>>
vars == <<config, image, step, hits, host_patched, installed, calls>>

(* bootstrap() reads the key file if there is a host to redirect to; a file*)
(* that is not there leaves the key empty, with a warning.                 *)
KeyTexts(h) == IF h = <<>> THEN {<<>>} ELSE Keys \cup {<<>>}

Init ==
  /\ initial \in Images
  /\ image = initial
  /\ host \in Hosts
  /\ pubkey \in KeyTexts(host)
  /\ step = "idle"
  /\ hits = {}
  /\ host_patched = FALSE
  /\ installed = FALSE
  /\ calls = 0

-----------------------------------------------------------------------------
(* find_all: where pat occurs in img, from cell `from` on.                 *)
FindAll(img, from, pat) ==
  {i \in from .. Len(img) - Len(pat) + 1 :
     \A j \in 1 .. Len(pat) : img[i + j - 1] = pat[j]}

First(S) == CHOOSE i \in S : \A j \in S : i <= j

MutPut(img, at, cap, repl) ==
  [i \in DOMAIN img |->
     IF i \in at .. at + Len(repl) - 1 THEN repl[i - at + 1]
     ELSE IF i = at + Len(repl) /\ i < at + cap THEN Nul
     ELSE img[i]]

(* The memcpy and memset of overwrite(): the replacement, then NUL.        *)
Put(img, at, cap, repl) ==
  [i \in DOMAIN img |->
     IF i \in at .. at + Len(repl) - 1 THEN repl[i - at + 1]
     ELSE IF i \in at .. at + cap - 1 THEN Nul
     ELSE img[i]]

(* The loops visit the hits in the order of their addresses.               *)
Visit(i) ==
  /\ hits # {}
  /\ i = First(hits)
  /\ hits' = hits \ {i}

-----------------------------------------------------------------------------
(* install().                                                              *)

(* Already installed, no host configured, or a host that does not fit. (A  *)
(* process always has its main module, so host_module() finds it.)         *)
InstallReturns ==
  /\ step = "idle"
  /\ calls < MaxInstalls
  /\ installed \/ host = <<>> \/ Len(host) > Len(OrigHost)
  /\ calls' = calls + 1
  /\ UNCHANGED <<config, image, step, hits, host_patched, installed>>

Install ==
  /\ step = "idle"
  /\ calls < MaxInstalls
  /\ ~ installed
  /\ host # <<>>
  /\ Len(host) <= Len(OrigHost)
  /\ calls' = calls + 1
  /\ host_patched' = FALSE
  /\ step' = "ascii"
  /\ hits' = FindAll(image, 1, OrigHost)
  /\ UNCHANGED <<config, image, installed>>

(* One copy of the host is overwritten, in the encoding it was found in.   *)
PatchHost(i) ==
  /\ step \in {"ascii", "wide"}
  /\ Visit(i)
  /\ image' = IF step = "ascii" THEN Put(image, i, Len(OrigHost), host)
              ELSE Put(image, i, 2 * Len(OrigHost), Utf16le(host))
  /\ host_patched' = TRUE
  /\ UNCHANGED <<config, step, installed, calls>>

MutMissHost(i) ==
  /\ step \in {"ascii", "wide"}
  /\ Visit(i)
  /\ host_patched' = TRUE
  /\ UNCHANGED <<config, image, step, installed, calls>>

(* VirtualProtect refuses; for a host that fits nothing else can fail.     *)
MissHost(i) ==
  /\ step \in {"ascii", "wide"}
  /\ Visit(i)
  /\ UNCHANGED <<config, image, step, host_patched, installed, calls>>

SearchWide ==
  /\ step = "ascii"
  /\ hits = {}
  /\ step' = "wide"
  /\ hits' = FindAll(image, 1, Utf16le(OrigHost))
  /\ UNCHANGED <<config, image, host_patched, installed, calls>>

(* Without a key only the host is replaced, and install() warns of it.     *)
SearchKey ==
  /\ step = "wide"
  /\ hits = {}
  /\ step' = "key"
  /\ hits' = IF pubkey = <<>> THEN {} ELSE FindAll(image, 1, <<Begin>>)
  /\ UNCHANGED <<config, image, host_patched, installed, calls>>

(* From a BEGIN marker to the next END marker, with its newline if it has  *)
(* one: what the key may occupy.                                           *)
KeyCapacity(b) ==
  LET e == First(FindAll(image, b, <<End>>))
  IN  IF e < Len(image) /\ image[e + 1] = Newline THEN e - b + 2 ELSE e - b + 1

MutPatchKeyUnchecked(b) ==
  /\ step = "key"
  /\ Visit(b)
  /\ FindAll(image, b, <<End>>) # {}
  /\ image' = Put(image, b, KeyCapacity(b), pubkey)
  /\ UNCHANGED <<config, step, host_patched, installed, calls>>

PatchKey(b) ==
  /\ step = "key"
  /\ Visit(b)
  /\ FindAll(image, b, <<End>>) # {}
  /\ Len(pubkey) <= KeyCapacity(b)
  /\ image' = Put(image, b, KeyCapacity(b), pubkey)
  /\ UNCHANGED <<config, step, host_patched, installed, calls>>

(* There is no END, the key does not fit, or VirtualProtect refuses.       *)
MissKey(b) ==
  /\ step = "key"
  /\ Visit(b)
  /\ UNCHANGED <<config, image, step, host_patched, installed, calls>>

MutFinishEarly ==
  /\ step = "key"
  /\ step' = "idle"
  /\ installed' = host_patched
  /\ UNCHANGED <<config, image, hits, host_patched, calls>>

(* g_installed says whether a host was overwritten, not whether a key was. *)
Finish ==
  /\ step = "key"
  /\ hits = {}
  /\ step' = "idle"
  /\ installed' = host_patched
  /\ UNCHANGED <<config, image, hits, host_patched, calls>>

InstallStep ==
  \/ \E i \in DOMAIN image : PatchHost(i) \/ MissHost(i) \/ PatchKey(i) \/ MissKey(i)
  \/ SearchWide
  \/ SearchKey
  \/ Finish

Next == InstallReturns \/ Install \/ InstallStep

Spec == Init /\ [][Next]_vars

-----------------------------------------------------------------------------
(* The regions of the image that the redirect is about: copies of the      *)
(* host, and key blocks of nothing but key material.                       *)
AsciiHosts == FindAll(initial, 1, OrigHost)

WideHosts == FindAll(initial, 1, Utf16le(OrigHost))

KeyEnds(b) == {e \in DOMAIN initial :
                 /\ e > b
                 /\ initial[b] = Begin /\ initial[e] = End
                 /\ \A j \in b + 1 .. e - 1 : initial[j] = "k"}

KeyRegion(b, e) ==
  b .. IF e < Len(initial) /\ initial[e + 1] = Newline THEN e + 1 ELSE e

Patchable ==
  UNION ({i .. i + Len(OrigHost) - 1 : i \in AsciiHosts}
    \cup {i .. i + 2 * Len(OrigHost) - 1 : i \in WideHosts}
    \cup UNION {{KeyRegion(b, e) : e \in KeyEnds(b)} : b \in DOMAIN initial})

TypeOK ==
  /\ image \in [DOMAIN initial -> Cells]
  /\ step \in {"idle", "ascii", "wide", "key"}
  /\ hits \subseteq DOMAIN initial
  /\ step = "idle" => hits = {}
  /\ host_patched \in BOOLEAN
  /\ installed \in BOOLEAN
  /\ calls \in 0 .. MaxInstalls

(* "In-place overwrite (bounded by the original buffer length)": whatever  *)
(* the host and the key file, and however often install() runs over an     *)
(* image it has already been at, no other byte of the game ever changes.   *)
StringsOnly == \A i \in DOMAIN initial \ Patchable : image[i] = initial[i]

(* The region of n cells at i is repl with NULs after it.                  *)
Holds(i, n, repl) ==
  \A j \in i .. i + n - 1 :
    image[j] = IF j - i < Len(repl) THEN repl[j - i + 1] ELSE Nul

(* The region is as it was, or has been replaced as a whole.               *)
Whole(i, n, repl) ==
  \/ \A j \in i .. i + n - 1 : image[j] = initial[j]
  \/ Holds(i, n, repl)

(* Every string is FromSoft's or the coordinator's, whole: no end of the   *)
(* old host or key shows behind a shorter new one, and a second install()  *)
(* that finds its own key does not patch that a second time.               *)
WholeOrUntouched ==
  /\ \A i \in AsciiHosts : Whole(i, Len(OrigHost), host)
  /\ \A i \in WideHosts : Whole(i, 2 * Len(OrigHost), Utf16le(host))
  /\ \A b \in DOMAIN initial : \A e \in KeyEnds(b) :
       Whole(b, Cardinality(KeyRegion(b, e)), pubkey)

(* g_installed turns every later install() away, so it may not be set in   *)
(* vain: a game that is taken for redirected has the coordinator's host in *)
(* the place of one of the copies of FromSoft's, whatever later installs   *)
(* and refusals of VirtualProtect there have been.                         *)
InstalledMeansRedirected ==
  host_patched \/ installed =>
    \/ \E i \in AsciiHosts : Holds(i, Len(OrigHost), host)
    \/ \E i \in WideHosts : Holds(i, 2 * Len(OrigHost), Utf16le(host))

(* What has been overwritten stays: neither a later region, nor an END     *)
(* marker of the new key, nor an install() that starts over on an image    *)
(* it was at before ever brings a changed byte to a third value.           *)
OverwrittenOnce ==
  [][\A i \in DOMAIN initial : image[i] # initial[i] => image'[i] = image[i]]_vars

-----------------------------------------------------------------------------
(* What the proofs assume of the game and of the coordinator.              *)

(* No part of a configured host, or of a key, is taken for what install()  *)
(* looks for, but for the key's own markers: a key file holds one key.     *)
ForeignStrings ==
  /\ \A h \in Hosts : \A i \in DOMAIN h : h[i] \notin {"f", "s", Nul, Newline, Begin, End}
  /\ \A k \in Keys : k # <<>> =>
       /\ k[1] = Begin
       /\ \E m \in DOMAIN k : k[m] = End
       /\ \A i \in DOMAIN k : k[i] \notin {"f", "s", Nul} /\ (i > 1 => k[i] # Begin)

(* In the game's image nothing but key material lies between a BEGIN and   *)
(* the first END behind it, and a key ends with one newline at most.       *)
TidyImages ==
  \A img \in Images : \A b, e \in DOMAIN img :
    /\ /\ b < e /\ img[b] = Begin /\ img[e] = End
       /\ \A j \in b .. e - 1 : img[j] # End
       => \A j \in b + 1 .. e - 1 : img[j] = "k"
    /\ /\ img[e] = End /\ e + 2 \in DOMAIN img /\ img[e + 1] = Newline
       => img[e + 2] # Newline
=============================================================================
