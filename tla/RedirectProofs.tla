--------------------------- MODULE RedirectProofs ---------------------------
(***************************************************************************)
(* Proofs about Redirect, for every image, host and key that is as tidy as *)
(* the game's and a coordinator's are: only strings change, each wholly.   *)
(***************************************************************************)
EXTENDS Redirect, FiniteSetTheorems, WellFoundedInduction, TLAPS

-----------------------------------------------------------------------------
(* Where things are.                                                       *)

Less == OpToRel(<, Nat)

LEMMA LessIsWellFounded ==
  /\ IsWellFoundedOn(Less, Nat)
  /\ Less = {p \in Nat \X Nat : p[1] < p[2]}
<1>1. IsWellFoundedOn(Less, Nat)
  BY NatLessThanWellFounded, Zenon DEF Less
<1>2. Less = {p \in Nat \X Nat : p[1] < p[2]}
  BY SMT DEF Less, OpToRel
<1> QED
  BY <1>1, <1>2

LEMMA FirstIsLeast ==
  ASSUME NEW S \in SUBSET Nat, S # {}
  PROVE  First(S) \in S /\ \A j \in S : First(S) <= j
<1>1. \E x \in S : \A y \in S : ~ (<<y, x>> \in Less)
  BY LessIsWellFounded, WFMin, Zenon
<1>2. \E x \in S : \A y \in S : x <= y
  <2> PICK x \in S : \A y \in S : ~ (<<y, x>> \in Less)
    BY <1>1
  <2>1. ASSUME NEW y \in S PROVE x <= y
    <3>1. <<y, x>> \notin Less /\ <<y, x>> \in Nat \X Nat
      OBVIOUS
    <3>2. ~ (<<y, x>>[1] < <<y, x>>[2])
      BY <3>1, LessIsWellFounded
    <3> QED
      BY <3>2
  <2> QED
    BY <2>1
<1> QED
  BY <1>2 DEF First

LEMMA WideHost ==
  ASSUME NEW h \in Seq(Cells)
  PROVE  /\ Utf16le(h) \in Seq(Cells)
         /\ Len(Utf16le(h)) = 2 * Len(h)
         /\ \A i \in 1 .. 2 * Len(h) :
              Utf16le(h)[i] = IF i % 2 = 1 THEN h[(i + 1) \div 2] ELSE Nul
<1>1. ASSUME NEW i \in 1 .. 2 * Len(h), i % 2 = 1 PROVE h[(i + 1) \div 2] \in Cells
  BY <1>1
<1>2. Utf16le(h) \in [1 .. 2 * Len(h) -> Cells]
  <2>1. Nul \in Cells
    BY DEF Nul, Cells
  <2> QED
    BY <1>1, <2>1 DEF Utf16le
<1>3. 2 * Len(h) \in Nat
  OBVIOUS
<1>4. Utf16le(h) \in Seq(Cells) /\ Len(Utf16le(h)) = 2 * Len(h)
  BY <1>2, <1>3
<1>5. \A i \in 1 .. 2 * Len(h) :
        Utf16le(h)[i] = IF i % 2 = 1 THEN h[(i + 1) \div 2] ELSE Nul
  BY DEF Utf16le
<1> QED
  BY <1>4, <1>5

-----------------------------------------------------------------------------
(* The slots of an original image o: where a copy of the host or a key is, *)
(* how long it is, and what is to replace it, for host h and key k.        *)
EndsIn(o, b) == {e \in DOMAIN o :
                   /\ e > b
                   /\ o[b] = Begin /\ o[e] = End
                   /\ \A j \in b + 1 .. e - 1 : o[j] = "k"}

KeySize(o, b, e) ==
  IF e < Len(o) /\ o[e + 1] = Newline THEN e - b + 2 ELSE e - b + 1

AsciiSlot(o, at, n) == at \in FindAll(o, 1, OrigHost) /\ n = 2

WideSlot(o, at, n) == at \in FindAll(o, 1, Utf16le(OrigHost)) /\ n = 4

KeySlot(o, at, n) == at \in DOMAIN o /\ \E e \in EndsIn(o, at) : n = KeySize(o, at, e)

Slot(o, h, k, at, n, repl) ==
  \/ AsciiSlot(o, at, n) /\ repl = h
  \/ WideSlot(o, at, n) /\ repl = Utf16le(h)
  \/ KeySlot(o, at, n) /\ repl = k

(* What the cells of a slot hold in the original image.                    *)
LEMMA AsciiCells ==
  ASSUME NEW o \in Seq(Cells), NEW at, NEW n, AsciiSlot(o, at, n)
  PROVE  /\ at \in Nat \ {0} /\ n = 2 /\ at + 1 <= Len(o)
         /\ o[at] = "f" /\ o[at + 1] = "s"
<1>1. Len(OrigHost) = 2 /\ OrigHost[1] = "f" /\ OrigHost[2] = "s"
  BY DEF OrigHost
<1>2. at \in 1 .. Len(o) - 2 + 1 /\ \A j \in 1 .. 2 : o[at + j - 1] = OrigHost[j]
  BY <1>1 DEF AsciiSlot, FindAll
<1>3. o[at + 1 - 1] = OrigHost[1] /\ o[at + 2 - 1] = OrigHost[2]
  BY <1>2
<1>4. at + 1 - 1 = at /\ at + 2 - 1 = at + 1
  BY <1>2
<1> QED
  BY <1>1, <1>2, <1>3, <1>4 DEF AsciiSlot

LEMMA WideOrig ==
  /\ Len(Utf16le(OrigHost)) = 4
  /\ Utf16le(OrigHost)[1] = "f" /\ Utf16le(OrigHost)[2] = Nul
  /\ Utf16le(OrigHost)[3] = "s" /\ Utf16le(OrigHost)[4] = Nul
<1>1. OrigHost \in Seq(Cells) /\ Len(OrigHost) = 2 /\ OrigHost[1] = "f" /\ OrigHost[2] = "s"
  BY DEF OrigHost, Cells
<1>2. /\ Len(Utf16le(OrigHost)) = 4
      /\ \A i \in 1 .. 4 : Utf16le(OrigHost)[i] = IF i % 2 = 1 THEN OrigHost[(i + 1) \div 2] ELSE Nul
  <2>1. 2 * Len(OrigHost) = 4
    BY <1>1
  <2>2. /\ Len(Utf16le(OrigHost)) = 2 * Len(OrigHost)
        /\ \A i \in 1 .. 2 * Len(OrigHost) :
             Utf16le(OrigHost)[i] = IF i % 2 = 1 THEN OrigHost[(i + 1) \div 2] ELSE Nul
    BY <1>1, WideHost
  <2> QED
    BY <2>1, <2>2
<1>3. /\ 1 % 2 = 1 /\ (1 + 1) \div 2 = 1 /\ 2 % 2 = 0
      /\ 3 % 2 = 1 /\ (3 + 1) \div 2 = 2 /\ 4 % 2 = 0
  OBVIOUS
<1>4. /\ Utf16le(OrigHost)[1] = OrigHost[1] /\ Utf16le(OrigHost)[2] = Nul
      /\ Utf16le(OrigHost)[3] = OrigHost[2] /\ Utf16le(OrigHost)[4] = Nul
  BY <1>2, <1>3
<1> QED
  BY <1>1, <1>2, <1>4

LEMMA WideCells ==
  ASSUME NEW o \in Seq(Cells), NEW at, NEW n, WideSlot(o, at, n)
  PROVE  /\ at \in Nat \ {0} /\ n = 4 /\ at + 3 <= Len(o)
         /\ o[at] = "f" /\ o[at + 1] = Nul /\ o[at + 2] = "s" /\ o[at + 3] = Nul
<1> DEFINE w == Utf16le(OrigHost)
<1>1. at \in 1 .. Len(o) - 4 + 1 /\ \A j \in 1 .. 4 : o[at + j - 1] = w[j]
  BY WideOrig DEF WideSlot, FindAll
<1>2. /\ o[at + 1 - 1] = w[1] /\ o[at + 2 - 1] = w[2]
      /\ o[at + 3 - 1] = w[3] /\ o[at + 4 - 1] = w[4]
  BY <1>1
<1>3. at + 1 - 1 = at /\ at + 2 - 1 = at + 1 /\ at + 3 - 1 = at + 2 /\ at + 4 - 1 = at + 3
  BY <1>1
<1> QED
  BY <1>1, <1>2, <1>3, WideOrig DEF WideSlot

LEMMA KeyCells ==
  ASSUME NEW o \in Seq(Cells), NEW at, NEW n, KeySlot(o, at, n)
  PROVE  \E e \in EndsIn(o, at) :
           /\ at \in Nat \ {0} /\ e \in Nat /\ n \in Nat /\ n = KeySize(o, at, e)
           /\ at < e /\ e <= at + n - 1 /\ at + n - 1 <= Len(o) /\ at + n - 1 <= e + 1
           /\ o[at] = Begin /\ o[e] = End
           /\ \A j \in at + 1 .. e - 1 : o[j] = "k"
           /\ at + n - 1 = e + 1 => o[e + 1] = Newline
<1>1. at \in 1 .. Len(o)
  BY DEF KeySlot
<1>2. PICK e \in EndsIn(o, at) : n = KeySize(o, at, e)
  BY DEF KeySlot
<1>3. /\ e \in 1 .. Len(o) /\ at < e /\ o[at] = Begin /\ o[e] = End
      /\ \A j \in at + 1 .. e - 1 : o[j] = "k"
  BY DEF EndsIn
<1>4. \/ e < Len(o) /\ o[e + 1] = Newline /\ n = e - at + 2
      \/ n = e - at + 1
  BY <1>2 DEF KeySize
<1> QED
  BY <1>1, <1>2, <1>3, <1>4

LEMMA KeyRange ==
  ASSUME NEW a \in Nat, NEW e \in Nat, NEW n \in Nat, NEW i \in Nat,
         a < e, a + n - 1 <= e + 1, i \in a .. a + n - 1
  PROVE  i = a \/ i \in a + 1 .. e - 1 \/ i = e \/ (i = e + 1 /\ a + n - 1 = e + 1)
OBVIOUS

(* Behind its BEGIN a key's slot has no marker but its END.                *)
LEMMA BehindBegin ==
  ASSUME NEW o \in Seq(Cells), NEW at, NEW n, KeySlot(o, at, n),
         NEW i \in Nat, i \in at .. at + n - 1, i # at
  PROVE  o[i] \in {"k", End, Newline}
<1> PICK e \in EndsIn(o, at) :
         /\ at \in Nat \ {0} /\ e \in Nat /\ n \in Nat /\ at < e /\ at + n - 1 <= e + 1
         /\ o[e] = End /\ \A j \in at + 1 .. e - 1 : o[j] = "k"
         /\ at + n - 1 = e + 1 => o[e + 1] = Newline
  BY KeyCells
<1>1. i \in at + 1 .. e - 1 \/ i = e \/ (i = e + 1 /\ at + n - 1 = e + 1)
  BY KeyRange
<1> QED
  BY <1>1

(* A slot starts within another only if it is that slot.                   *)
LEMMA SlotStart ==
  ASSUME NEW o \in Seq(Cells), NEW h, NEW k,
         NEW a, NEW n, NEW r, Slot(o, h, k, a, n, r),
         NEW a2, NEW n2, NEW r2, Slot(o, h, k, a2, n2, r2),
         a2 \in a .. a + n - 1
  PROVE  a2 = a /\ n2 = n /\ r2 = r
<1> USE DEF Nul, Begin, End, Newline
<1>1. o[a2] \in {"f", Begin} /\ a2 \in Nat
  BY AsciiCells, WideCells, KeyCells DEF Slot
<1>2. CASE AsciiSlot(o, a, n) /\ r = h
  <2>1. a2 = a
    BY <1>1, <1>2, AsciiCells
  <2>2. o[a] = "f" /\ o[a + 1] = "s"
    BY <1>2, AsciiCells
  <2>3. ~ WideSlot(o, a2, n2)
    BY <2>1, <2>2, WideCells
  <2>4. ~ KeySlot(o, a2, n2)
    BY <2>1, <2>2, KeyCells
  <2>5. AsciiSlot(o, a2, n2) /\ r2 = h
    BY <2>3, <2>4 DEF Slot
  <2> QED
    BY <1>2, <2>1, <2>5 DEF AsciiSlot
<1>3. CASE WideSlot(o, a, n) /\ r = Utf16le(h)
  <2>1. a2 \in {a, a + 1, a + 2, a + 3}
    BY <1>3, WideCells
  <2>2. a2 = a
    BY <1>1, <1>3, <2>1, WideCells
  <2>3. WideSlot(o, a2, n2) /\ r2 = Utf16le(h)
    BY <1>3, <2>2, AsciiCells, WideCells, KeyCells DEF Slot
  <2> QED
    BY <1>3, <2>2, <2>3 DEF WideSlot
<1>4. CASE KeySlot(o, a, n) /\ r = k
  <2> PICK e \in EndsIn(o, a) :
           /\ a \in Nat \ {0} /\ e \in Nat /\ n \in Nat /\ n = KeySize(o, a, e)
           /\ a < e /\ e <= a + n - 1 /\ a + n - 1 <= Len(o) /\ a + n - 1 <= e + 1
           /\ o[a] = Begin /\ o[e] = End
           /\ \A j \in a + 1 .. e - 1 : o[j] = "k"
           /\ a + n - 1 = e + 1 => o[e + 1] = Newline
    BY <1>4, KeyCells
  <2>2. a2 = a
    BY <1>1, <1>4, BehindBegin
  <2>3. KeySlot(o, a2, n2) /\ r2 = k
    BY <2>2, AsciiCells, WideCells DEF Slot
  <2>4. PICK e2 \in EndsIn(o, a) : n2 = KeySize(o, a, e2)
    BY <2>2, <2>3 DEF KeySlot
  <2>5. /\ e2 \in Nat /\ a < e2 /\ o[e2] = End
        /\ \A j \in a + 1 .. e2 - 1 : o[j] = "k"
    BY DEF EndsIn
  <2>6. ~ (e < e2) /\ ~ (e2 < e)
    BY <2>5
  <2> QED
    BY <1>4, <2>2, <2>3, <2>4, <2>5, <2>6
<1> QED
  BY <1>2, <1>3, <1>4 DEF Slot

LEMMA SlotBounds ==
  ASSUME NEW o \in Seq(Cells), NEW h, NEW k, NEW a, NEW n, NEW r, Slot(o, h, k, a, n, r)
  PROVE  /\ a \in Nat \ {0} /\ n \in Nat \ {0} /\ a + n - 1 <= Len(o)
         /\ a .. a + n - 1 \subseteq DOMAIN o
         /\ o[a] \in {"f", Begin}
<1>1. a \in Nat \ {0} /\ n \in Nat \ {0} /\ a + n - 1 <= Len(o) /\ o[a] \in {"f", Begin}
  BY AsciiCells, WideCells, KeyCells DEF Slot
<1> QED
  BY <1>1

(* No two slots share a cell.                                              *)
LEMMA SlotsDisjoint ==
  ASSUME NEW o \in Seq(Cells), NEW h, NEW k,
         NEW a, NEW n, NEW r, Slot(o, h, k, a, n, r),
         NEW a2, NEW n2, NEW r2, Slot(o, h, k, a2, n2, r2),
         NEW i, i \in a .. a + n - 1, i \in a2 .. a2 + n2 - 1
  PROVE  a2 = a /\ n2 = n /\ r2 = r
<1>1. /\ a \in Nat /\ n \in Nat /\ a2 \in Nat /\ n2 \in Nat
  BY SlotBounds
<1>2. a2 \in a .. a + n - 1 \/ a \in a2 .. a2 + n2 - 1
  BY <1>1
<1> QED
  BY <1>2, SlotStart

-----------------------------------------------------------------------------
(* The invariant: a slot is as the loader left it, or holds its            *)
(* replacement with NULs behind; no other cell has changed.                *)
Replaced(img, at, n, repl) ==
  /\ Len(repl) \in 1 .. n
  /\ \A j \in at .. at + n - 1 :
       img[j] = IF j - at < Len(repl) THEN repl[j - at + 1] ELSE Nul

Untouched(o, img, at, n) == \A j \in at .. at + n - 1 : img[j] = o[j]

Intact(o, h, k, img) ==
  /\ img \in [DOMAIN o -> Cells]
  /\ \A i \in DOMAIN o :
       \/ img[i] = o[i]
       \/ \E at, n, repl : Slot(o, h, k, at, n, repl) /\ i \in at .. at + n - 1
  /\ \A at, n, repl : Slot(o, h, k, at, n, repl) =>
       Untouched(o, img, at, n) \/ Replaced(img, at, n, repl)

(* What has been replaced in img is so in new.                             *)
Keeps(o, h, k, img, new) ==
  \A at, n, repl :
    Slot(o, h, k, at, n, repl) /\ Replaced(img, at, n, repl) => Replaced(new, at, n, repl)

(* Overwriting a slot as a whole, with what belongs there, keeps that.     *)
LEMMA PutSlot ==
  ASSUME NEW o \in Seq(Cells), NEW h, NEW k, NEW img, Intact(o, h, k, img),
         NEW at, NEW n, NEW repl \in Seq(Cells), Slot(o, h, k, at, n, repl),
         Len(repl) \in 1 .. n
  PROVE  /\ Intact(o, h, k, Put(img, at, n, repl))
         /\ Replaced(Put(img, at, n, repl), at, n, repl)
         /\ Keeps(o, h, k, img, Put(img, at, n, repl))
<1> DEFINE new == Put(img, at, n, repl)
<1>1. /\ at \in Nat \ {0} /\ n \in Nat \ {0} /\ DOMAIN img = DOMAIN o /\ DOMAIN o \subseteq Nat
      /\ at .. at + n - 1 \subseteq DOMAIN o
  BY SlotBounds DEF Intact
<1>2. DOMAIN new = DOMAIN o /\ new = [i \in DOMAIN o |-> new[i]]
  BY <1>1 DEF Put
<1>3. \A i \in DOMAIN o :
        /\ i \notin at .. at + n - 1 => new[i] = img[i]
        /\ i \in at .. at + n - 1 =>
             new[i] = IF i - at < Len(repl) THEN repl[i - at + 1] ELSE Nul
  <2> SUFFICES ASSUME NEW i \in DOMAIN o
               PROVE  /\ i \notin at .. at + n - 1 => new[i] = img[i]
                      /\ i \in at .. at + n - 1 =>
                           new[i] = IF i - at < Len(repl) THEN repl[i - at + 1] ELSE Nul
    OBVIOUS
  <2>1. at \in Nat /\ n \in Nat /\ Len(repl) <= n /\ i \in DOMAIN img
    BY <1>1
  <2> QED
    BY <2>1 DEF Put
<1> HIDE DEF new
<1>4. \A i \in DOMAIN o : new[i] \in Cells
  <2>1. ASSUME NEW i \in DOMAIN o, i \in at .. at + n - 1, i - at < Len(repl)
        PROVE  repl[i - at + 1] \in Cells
    <3>1. i \in Nat /\ at \in Nat /\ Len(repl) \in Nat
      BY <1>1
    <3>2. i - at + 1 \in 1 .. Len(repl)
      BY <2>1, <3>1
    <3> QED
      BY <3>2
  <2>2. Nul \in Cells
    BY DEF Cells
  <2> QED
    BY <1>3, <2>1, <2>2 DEF Intact
<1>5. new \in [DOMAIN o -> Cells]
  BY <1>2, <1>4
<1>6. ASSUME NEW i \in DOMAIN o, new[i] # o[i]
      PROVE  \E a, m, r : Slot(o, h, k, a, m, r) /\ i \in a .. a + m - 1
  <2>1. CASE i \in at .. at + n - 1
    BY <2>1
  <2>2. CASE i \notin at .. at + n - 1
    BY <1>3, <1>6, <2>2 DEF Intact
  <2> QED
    BY <2>1, <2>2
<1>7. Replaced(new, at, n, repl)
  BY <1>1, <1>3 DEF Replaced
<1>8. ASSUME NEW a, NEW m, NEW r, Slot(o, h, k, a, m, r)
      PROVE  /\ Untouched(o, new, a, m) \/ Replaced(new, a, m, r)
             /\ Replaced(img, a, m, r) => Replaced(new, a, m, r)
  <2>1. CASE a = at /\ m = n /\ r = repl
    BY <1>7, <2>1
  <2>2. CASE ~ (a = at /\ m = n /\ r = repl)
    <3>1. ASSUME NEW j \in a .. a + m - 1 PROVE new[j] = img[j]
      <4>1. j \notin at .. at + n - 1
        BY <1>8, <2>2, SlotsDisjoint
      <4>2. j \in DOMAIN o
        BY <1>8, SlotBounds
      <4> QED
        BY <1>3, <4>1, <4>2
    <3>2. Untouched(o, img, a, m) \/ Replaced(img, a, m, r)
      BY <1>8 DEF Intact
    <3>3. Replaced(img, a, m, r) => Replaced(new, a, m, r)
      BY <3>1 DEF Replaced
    <3>4. Untouched(o, img, a, m) => Untouched(o, new, a, m)
      BY <3>1 DEF Untouched
    <3> QED
      BY <3>2, <3>3, <3>4
  <2> QED
    BY <2>1, <2>2
<1>9. Intact(o, h, k, new)
  BY <1>5, <1>6, <1>8, Zenon DEF Intact
<1>10. Keeps(o, h, k, img, new)
  BY <1>8, Zenon DEF Keeps
<1> QED
  BY <1>7, <1>9, <1>10 DEF new

-----------------------------------------------------------------------------
(* What a replacement may put where.                                       *)
Foreign(h, k) ==
  /\ h \in Seq(Cells) /\ k \in Seq(Cells)
  /\ \A i \in DOMAIN h : h[i] \notin {"f", "s", Nul, Newline, Begin, End}
  /\ k # <<>> =>
       /\ k[1] = Begin
       /\ \E m \in DOMAIN k : k[m] = End
       /\ \A i \in DOMAIN k : k[i] \notin {"f", "s", Nul} /\ (i > 1 => k[i] # Begin)

LEMMA Replacements ==
  ASSUME NEW o \in Seq(Cells), NEW h, NEW k, Foreign(h, k),
         NEW at, NEW n, NEW repl, Slot(o, h, k, at, n, repl)
  PROVE  /\ repl \in Seq(Cells)
         /\ \A i \in 1 .. Len(repl) :
              /\ repl[i] \notin {"f", "s"}
              /\ repl[i] = Begin => i = 1 /\ KeySlot(o, at, n)
              /\ repl[i] = End => KeySlot(o, at, n)
              /\ i = 1 => repl[i] \notin {Nul, Newline}
<1> USE DEF Nul, Begin, End, Newline
<1>1. CASE AsciiSlot(o, at, n) /\ repl = h
  BY <1>1 DEF Foreign
<1>2. CASE KeySlot(o, at, n) /\ repl = k
  <2>1. \A i \in 1 .. Len(k) : k # <<>> /\ i \in DOMAIN k
    BY DEF Foreign
  <2> QED
    BY <1>2, <2>1 DEF Foreign
<1>3. CASE WideSlot(o, at, n) /\ repl = Utf16le(h)
  <2>1. h \in Seq(Cells)
    BY DEF Foreign
  <2>2. /\ Utf16le(h) \in Seq(Cells) /\ Len(Utf16le(h)) = 2 * Len(h)
        /\ \A i \in 1 .. 2 * Len(h) :
             Utf16le(h)[i] = IF i % 2 = 1 THEN h[(i + 1) \div 2] ELSE Nul
    BY <2>1, WideHost
  <2>3. ASSUME NEW i \in 1 .. 2 * Len(h), i % 2 = 1
        PROVE  Utf16le(h)[i] \notin {"f", "s", Nul, Newline, Begin, End}
    <3>1. (i + 1) \div 2 \in DOMAIN h
      BY <2>1, <2>3
    <3> QED
      BY <2>2, <2>3, <3>1 DEF Foreign
  <2>4. ASSUME NEW i \in 1 .. 2 * Len(h), i % 2 # 1
        PROVE  Utf16le(h)[i] = Nul /\ i # 1
    <3>1. Utf16le(h)[i] = Nul
      BY <2>2, <2>4
    <3>2. 1 % 2 = 1
      OBVIOUS
    <3> QED
      BY <2>4, <3>1, <3>2
  <2> QED
    BY <1>3, <2>2, <2>3, <2>4
<1> QED
  BY <1>1, <1>2, <1>3 DEF Slot

(* How a cell came to hold what it holds.                                  *)
LEMMA CellOrigin ==
  ASSUME NEW o \in Seq(Cells), NEW h, NEW k, NEW img, Foreign(h, k), Intact(o, h, k, img),
         NEW i \in DOMAIN o, img[i] # o[i]
  PROVE  \E at, n, repl :
           /\ Slot(o, h, k, at, n, repl) /\ i \in at .. at + n - 1
           /\ Replaced(img, at, n, repl)
<1>1. PICK at, n, repl : Slot(o, h, k, at, n, repl) /\ i \in at .. at + n - 1
  BY DEF Intact
<1>2. ~ Untouched(o, img, at, n)
  BY <1>1 DEF Untouched
<1> QED
  BY <1>1, <1>2 DEF Intact

(* "f" and "s" are only where they have always been.                       *)
LEMMA HostLetters ==
  ASSUME NEW o \in Seq(Cells), NEW h, NEW k, NEW img, Foreign(h, k), Intact(o, h, k, img),
         NEW i \in DOMAIN o
  PROVE  /\ img[i] \in {"f", "s"} => o[i] = img[i]
         /\ \A at, n, repl :
              Slot(o, h, k, at, n, repl) /\ i \in at .. at + n - 1 /\ Replaced(img, at, n, repl)
              => img[i] \notin {"f", "s"}
<1>1. ASSUME NEW at, NEW n, NEW repl, Slot(o, h, k, at, n, repl), i \in at .. at + n - 1,
             Replaced(img, at, n, repl)
      PROVE  img[i] \notin {"f", "s"}
  <2>1. at \in Nat /\ n \in Nat
    BY <1>1, SlotBounds
  <2>2. img[i] = IF i - at < Len(repl) THEN repl[i - at + 1] ELSE Nul
    BY <1>1 DEF Replaced
  <2>3. repl \in Seq(Cells) /\ \A j \in 1 .. Len(repl) : repl[j] \notin {"f", "s"}
    BY <1>1, Replacements
  <2>4. i - at < Len(repl) => i - at + 1 \in 1 .. Len(repl)
    BY <1>1, <2>1, <2>3
  <2> QED
    BY <2>2, <2>3, <2>4 DEF Nul
<1>2. img[i] \in {"f", "s"} => o[i] = img[i]
  BY <1>1, CellOrigin
<1> QED
  BY <1>1, <1>2

(* So is a NUL right behind one of them.                                   *)
LEMMA NulBehindLetter ==
  ASSUME NEW o \in Seq(Cells), NEW h, NEW k, NEW img, Foreign(h, k), Intact(o, h, k, img),
         NEW i \in DOMAIN o, i + 1 \in DOMAIN o, img[i] \in {"f", "s"}, img[i + 1] = Nul
  PROVE  o[i + 1] = Nul
<1> SUFFICES ASSUME img[i + 1] # o[i + 1] PROVE FALSE
  OBVIOUS
<1>1. PICK at, n, repl : /\ Slot(o, h, k, at, n, repl) /\ i + 1 \in at .. at + n - 1
                         /\ Replaced(img, at, n, repl)
  BY CellOrigin
<1>2. at \in Nat /\ n \in Nat /\ i \in Nat
  BY <1>1, SlotBounds
<1>3. CASE at = i + 1
  <2>1. Len(repl) \in 1 .. n /\ img[at] = IF at - at < Len(repl) THEN repl[at - at + 1] ELSE Nul
    BY <1>1, <1>3 DEF Replaced
  <2>2. at - at = 0 /\ 0 < Len(repl) /\ 1 \in 1 .. Len(repl)
    BY <1>2, <2>1
  <2>3. img[at] = repl[1]
    BY <2>1, <2>2
  <2>4. repl[1] # Nul
    BY <1>1, <2>2, Replacements
  <2> QED
    BY <1>3, <2>3, <2>4
<1>4. CASE at # i + 1
  <2>1. i \in at .. at + n - 1
    BY <1>1, <1>2, <1>4
  <2> QED
    BY <1>1, <2>1, HostLetters
<1> QED
  BY <1>3, <1>4

(* Whatever install() has done before, it finds only FromSoft's hosts.     *)
LEMMA FindsHosts ==
  ASSUME NEW o \in Seq(Cells), NEW h, NEW k, NEW img, Foreign(h, k), Intact(o, h, k, img)
  PROVE  /\ FindAll(img, 1, OrigHost) \subseteq FindAll(o, 1, OrigHost)
         /\ FindAll(img, 1, Utf16le(OrigHost)) \subseteq FindAll(o, 1, Utf16le(OrigHost))
<1>1. DOMAIN img = 1 .. Len(o) /\ Len(o) \in Nat /\ DOMAIN o = 1 .. Len(o)
  BY DEF Intact
<1>2. Len(img) = Len(o)
  BY <1>1
<1>3. Len(OrigHost) = 2 /\ OrigHost[1] = "f" /\ OrigHost[2] = "s"
  BY DEF OrigHost
<1>4. ASSUME NEW p \in FindAll(img, 1, OrigHost)
      PROVE  p \in FindAll(o, 1, OrigHost)
  <2>1. p \in 1 .. Len(o) - 2 + 1 /\ \A j \in 1 .. 2 : img[p + j - 1] = OrigHost[j]
    BY <1>2, <1>3 DEF FindAll
  <2>2. \A j \in 1 .. 2 : o[p + j - 1] = OrigHost[j]
    <3> SUFFICES ASSUME NEW j \in 1 .. 2 PROVE o[p + j - 1] = OrigHost[j]
      OBVIOUS
    <3>1. p + j - 1 \in DOMAIN o
      BY <1>1, <2>1
    <3>2. img[p + j - 1] = OrigHost[j] /\ OrigHost[j] \in {"f", "s"}
      BY <1>3, <2>1
    <3> QED
      BY <3>1, <3>2, HostLetters
  <2> QED
    BY <1>3, <2>1, <2>2 DEF FindAll
<1>5. ASSUME NEW p \in FindAll(img, 1, Utf16le(OrigHost))
      PROVE  p \in FindAll(o, 1, Utf16le(OrigHost))
  <2> DEFINE w == Utf16le(OrigHost)
  <2>1. p \in 1 .. Len(o) - 4 + 1 /\ \A j \in 1 .. 4 : img[p + j - 1] = w[j]
    BY <1>2, WideOrig DEF FindAll
  <2>2. /\ img[p + 1 - 1] = w[1] /\ img[p + 2 - 1] = w[2]
        /\ img[p + 3 - 1] = w[3] /\ img[p + 4 - 1] = w[4]
    BY <2>1
  <2>3. /\ p + 1 - 1 = p /\ p + 2 - 1 = p + 1
        /\ p + 3 - 1 = p + 2 /\ p + 4 - 1 = (p + 2) + 1
    BY <2>1
  <2>4. /\ p \in DOMAIN o /\ p + 1 \in DOMAIN o
        /\ p + 2 \in DOMAIN o /\ (p + 2) + 1 \in DOMAIN o
    BY <1>1, <2>1
  <2>5. img[p] = "f" /\ img[p + 1] = Nul /\ img[p + 2] = "s" /\ img[(p + 2) + 1] = Nul
    BY <2>2, <2>3, WideOrig
  <2>6. o[p] = "f" /\ o[p + 2] = "s"
    BY <2>4, <2>5, HostLetters
  <2>7. o[p + 1] = Nul /\ o[(p + 2) + 1] = Nul
    BY <2>4, <2>5, NulBehindLetter
  <2>8. \A j \in 1 .. 4 : o[p + j - 1] = w[j]
    <3> SUFFICES ASSUME NEW j \in 1 .. 4 PROVE o[p + j - 1] = w[j]
      OBVIOUS
    <3>1. j = 1 \/ j = 2 \/ j = 3 \/ j = 4
      OBVIOUS
    <3> QED
      BY <2>3, <2>6, <2>7, <3>1, WideOrig
  <2> QED
    BY <2>1, <2>8, WideOrig DEF FindAll
<1> QED
  BY <1>4, <1>5

-----------------------------------------------------------------------------
(* The markers of keys.                                                    *)

(* What TidyImages says of one image.                                      *)
Tidy(o) ==
  \A b, e \in DOMAIN o :
    /\ /\ b < e /\ o[b] = Begin /\ o[e] = End
       /\ \A j \in b .. e - 1 : o[j] # End
       => \A j \in b + 1 .. e - 1 : o[j] = "k"
    /\ /\ o[e] = End /\ e + 2 \in DOMAIN o /\ o[e + 1] = Newline
       => o[e + 2] # Newline

(* A BEGIN marker within a slot begins it, and it is a key's.              *)
LEMMA BeginStarts ==
  ASSUME NEW o \in Seq(Cells), NEW h, NEW k, NEW at, NEW n, NEW repl,
         Slot(o, h, k, at, n, repl),
         NEW b, b \in at .. at + n - 1, o[b] = Begin
  PROVE  b = at /\ KeySlot(o, at, n) /\ repl = k
<1> USE DEF Nul, Begin, End, Newline
<1>1. at \in Nat /\ n \in Nat /\ b \in Nat
  BY SlotBounds
<1>2. ~ AsciiSlot(o, at, n)
  BY <1>1, AsciiCells
<1>3. ~ WideSlot(o, at, n)
  <2> SUFFICES ASSUME WideSlot(o, at, n) PROVE FALSE
    OBVIOUS
  <2>1. b \in {at, at + 1, at + 2, at + 3}
    BY <1>1, WideCells
  <2> QED
    BY <2>1, WideCells
<1>4. KeySlot(o, at, n) /\ repl = k
  BY <1>2, <1>3 DEF Slot
<1> QED
  BY <1>1, <1>4, BehindBegin

LEMMA FindsKeys ==
  ASSUME NEW o \in Seq(Cells), NEW h, NEW k, NEW img, Foreign(h, k), Intact(o, h, k, img),
         NEW b \in DOMAIN o
  PROVE  img[b] = Begin <=> o[b] = Begin
<1>1. ASSUME img[b] = Begin, o[b] # Begin PROVE FALSE
  <2>1. PICK at, n, repl : /\ Slot(o, h, k, at, n, repl) /\ b \in at .. at + n - 1
                           /\ Replaced(img, at, n, repl)
    BY <1>1, CellOrigin
  <2>2. at \in Nat /\ n \in Nat
    BY <2>1, SlotBounds
  <2>3. b - at < Len(repl) /\ repl[b - at + 1] = Begin
    BY <1>1, <2>1 DEF Replaced, Begin, Nul
  <2>4. b - at + 1 \in 1 .. Len(repl)
    BY <2>1, <2>2, <2>3 DEF Replaced
  <2>5. b - at + 1 = 1 /\ KeySlot(o, at, n)
    BY <2>1, <2>3, <2>4, Replacements
  <2>6. b = at
    <3>1. b \in Nat
      OBVIOUS
    <3> QED
      BY <2>2, <2>5, <3>1
  <2>7. o[at] = Begin
    BY <2>5, KeyCells
  <2> QED
    BY <1>1, <2>6, <2>7
<1>2. ASSUME o[b] = Begin, img[b] # Begin PROVE FALSE
  <2>1. PICK at, n, repl : /\ Slot(o, h, k, at, n, repl) /\ b \in at .. at + n - 1
                           /\ Replaced(img, at, n, repl)
    BY <1>2, CellOrigin
  <2>2. b = at /\ repl = k /\ at \in Nat
    BY <1>2, <2>1, BeginStarts, SlotBounds
  <2>3. Len(k) >= 1 /\ img[at] = IF at - at < Len(k) THEN k[at - at + 1] ELSE Nul
    BY <2>1, <2>2 DEF Replaced
  <2>4. img[at] = k[1] /\ k # <<>>
    BY <2>2, <2>3
  <2> QED
    BY <1>2, <2>2, <2>4 DEF Foreign
<1> QED
  BY <1>1, <1>2

(* The first END behind a BEGIN, in the original image.                    *)
LEMMA OriginalKey ==
  ASSUME NEW o \in Seq(Cells), Tidy(o), NEW b \in DOMAIN o, o[b] = Begin,
         NEW e1 \in DOMAIN o, b <= e1, o[e1] = End
  PROVE  \E e0 \in EndsIn(o, b) : e0 <= e1 /\ \A j \in b .. e0 - 1 : o[j] # End
<1> DEFINE S == {i \in b .. Len(o) : o[i] = End}
           e0 == First(S)
<1>1. S \in SUBSET Nat /\ e1 \in S
  OBVIOUS
<1>2. e0 \in S /\ \A j \in S : e0 <= j
  <2> HIDE DEF S
  <2> QED
    BY <1>1, FirstIsLeast
<1> HIDE DEF e0
<1>3. e0 \in DOMAIN o /\ b <= e0 /\ o[e0] = End /\ e0 <= e1 /\ b # e0
  BY <1>1, <1>2 DEF Begin, End
<1>4. b < e0
  BY <1>3
<1>5. \A j \in b .. e0 - 1 : o[j] # End
  BY <1>2, <1>3
<1>6. \A j \in b + 1 .. e0 - 1 : o[j] = "k"
  BY <1>3, <1>4, <1>5 DEF Tidy
<1>7. e0 \in EndsIn(o, b)
  BY <1>3, <1>4, <1>6 DEF EndsIn
<1> QED
  BY <1>3, <1>5, <1>7

(* No newline follows the region of a key, whatever has been patched.      *)
LEMMA BehindKey ==
  ASSUME NEW o \in Seq(Cells), Tidy(o), NEW h, NEW k, NEW img, Foreign(h, k), Intact(o, h, k, img),
         NEW b, NEW n, KeySlot(o, b, n), b + n \in DOMAIN o
  PROVE  img[b + n] # Newline
<1>1. PICK e \in EndsIn(o, b) :
        /\ b \in Nat \ {0} /\ e \in Nat /\ n \in Nat /\ n = KeySize(o, b, e)
        /\ b < e /\ e <= b + n - 1 /\ b + n - 1 <= Len(o) /\ b + n - 1 <= e + 1
        /\ o[b] = Begin /\ o[e] = End
        /\ b + n - 1 = e + 1 => o[e + 1] = Newline
  BY KeyCells
<1> b \in Nat /\ e \in Nat /\ n \in Nat
  BY <1>1
<1>2. o[b + n] # Newline
  <2>1. CASE b + n - 1 = e
    <3>1. b + n = e + 1
      BY <2>1
    <3>2. n # e - b + 2 /\ e < Len(o)
      BY <1>1, <3>1
    <3> QED
      BY <1>1, <3>1, <3>2 DEF KeySize
  <2>2. CASE b + n - 1 = e + 1
    <3>1. b + n = e + 2 /\ e \in DOMAIN o
      BY <1>1, <2>2
    <3> QED
      BY <1>1, <2>2, <3>1 DEF Tidy
  <2>3. b + n - 1 = e \/ b + n - 1 = e + 1
    <3>1. e <= b + n - 1 /\ b + n - 1 <= e + 1
      BY <1>1
    <3> QED
      BY <3>1
  <2> QED
    BY <2>1, <2>2, <2>3
<1> SUFFICES ASSUME img[b + n] = Newline PROVE FALSE
  OBVIOUS
<1>3. PICK at, m, repl : /\ Slot(o, h, k, at, m, repl) /\ b + n \in at .. at + m - 1
                         /\ Replaced(img, at, m, repl)
  BY <1>2, CellOrigin
<1>4. at \in Nat /\ m \in Nat
  BY <1>3, SlotBounds
<1>5. CASE at = b + n
  <2>1. Len(repl) \in 1 .. m /\ img[at] = IF at - at < Len(repl) THEN repl[at - at + 1] ELSE Nul
    BY <1>3, <1>5 DEF Replaced
  <2>2. img[at] = repl[1] /\ 1 \in 1 .. Len(repl)
    BY <1>4, <2>1
  <2>3. repl[1] # Newline
    BY <1>3, <2>2, Replacements
  <2> QED
    BY <1>5, <2>2, <2>3
<1>6. CASE at # b + n
  <2>1. b + n - 1 \in at .. at + m - 1 /\ b + n - 1 \in b .. b + n - 1
    <3>1. n > 0
      BY <1>1
    <3> QED
      BY <3>1, <1>3, <1>4, <1>6
  <2>2. Slot(o, h, k, b, n, k)
    BY DEF Slot
  <2>3. at = b /\ m = n
    BY <1>3, <2>1, <2>2, SlotsDisjoint
  <2> QED
    BY <1>1, <1>3, <2>3
<1> QED
  BY <1>5, <1>6

(* Overwriting, from a BEGIN marker to the next END marker, what the key   *)
(* fits in, overwrites that key's slot, or changes nothing: it is done.    *)
LEMMA PutKey ==
  ASSUME NEW o \in Seq(Cells), Tidy(o), NEW h, NEW k, NEW img, Foreign(h, k), Intact(o, h, k, img),
         NEW b \in DOMAIN o, o[b] = Begin, k # <<>>,
         NEW e, e = First(FindAll(img, b, <<End>>)), FindAll(img, b, <<End>>) # {},
         NEW cap, cap = IF e < Len(img) /\ img[e + 1] = Newline THEN e - b + 2 ELSE e - b + 1,
         Len(k) <= cap
  PROVE  /\ Intact(o, h, k, Put(img, b, cap, k))
         /\ Keeps(o, h, k, img, Put(img, b, cap, k))
<1>1. /\ DOMAIN img = 1 .. Len(o) /\ Len(img) = Len(o) /\ Len(o) \in Nat /\ DOMAIN o = 1 .. Len(o)
      /\ b \in Nat /\ k \in Seq(Cells) /\ Len(k) \in Nat /\ 1 <= Len(k)
  <2>1. DOMAIN img = 1 .. Len(o) /\ Len(o) \in Nat /\ DOMAIN o = 1 .. Len(o)
    BY DEF Intact
  <2>2. k \in Seq(Cells)
    BY DEF Foreign
  <2> QED
    BY <2>1, <2>2
<1>2. /\ e \in b .. Len(o) /\ img[e] = End
      /\ \A j \in b .. Len(o) : img[j] = End => e <= j
  <2> DEFINE S == FindAll(img, b, <<End>>)
  <2>1. S = {i \in b .. Len(o) : img[i] = End}
    <3>1. Len(<<End>>) = 1 /\ <<End>>[1] = End /\ Len(o) - 1 + 1 = Len(o)
      BY <1>1
    <3>2. \A i \in b .. Len(o) : i + 1 - 1 = i
      BY <1>1
    <3>3. 1 .. 1 = {1}
      OBVIOUS
    <3> QED
      BY <1>1, <3>1, <3>2, <3>3 DEF FindAll
  <2>2. S \in SUBSET Nat /\ S # {}
    BY <1>1, <2>1
  <2>3. First(S) \in S /\ \A j \in S : First(S) <= j
    <3> HIDE DEF S
    <3> QED
      BY <2>2, FirstIsLeast
  <2> QED
    BY <2>1, <2>3
<1>3. \E e1 \in DOMAIN o : b <= e1 /\ o[e1] = End
  <2>1. CASE o[e] = End
    BY <1>1, <1>2, <2>1
  <2>2. CASE o[e] # End
    <3>0. e \in DOMAIN o /\ img[e] # o[e]
      BY <1>1, <1>2, <2>2
    <3>1. PICK at, n, repl : /\ Slot(o, h, k, at, n, repl) /\ e \in at .. at + n - 1
                             /\ Replaced(img, at, n, repl)
      BY <3>0, CellOrigin
    <3>2. at \in Nat /\ n \in Nat
      BY <3>1, SlotBounds
    <3>3. e - at < Len(repl) /\ repl[e - at + 1] = End
      BY <1>2, <3>1 DEF Replaced, End, Nul
    <3>4. e - at + 1 \in 1 .. Len(repl)
      <4>1. e \in Nat
        BY <3>0
      <4>2. Len(repl) \in Nat
        BY <3>1, <3>2 DEF Replaced
      <4>3. at <= e
        BY <3>1, <3>2, <4>1
      <4>4. \A l \in Nat : e - at < l => e - at + 1 \in 1 .. l
        BY <3>2, <4>1, <4>3
      <4> QED
        BY <3>3, <4>2, <4>4, Zenon
    <3>5. KeySlot(o, at, n)
      BY <3>1, <3>3, <3>4, Replacements
    <3>6. PICK e1 \in EndsIn(o, at) : o[e1] = End /\ at < e1 /\ e1 \in Nat
      BY <3>5, KeyCells
    <3>7. e1 \in DOMAIN o
      BY DEF EndsIn
    <3>8. b <= at
      <4> SUFFICES ASSUME at < b PROVE FALSE
        BY <1>1, <3>2
      <4>1. b \in at .. at + n - 1
        BY <1>1, <1>2, <3>1, <3>2
      <4>2. b = at
        BY <3>1, <4>1, BeginStarts
      <4> QED
        BY <3>2, <4>2
    <3> QED
      BY <1>1, <3>2, <3>6, <3>7, <3>8
  <2> QED
    BY <2>1, <2>2
<1>4. PICK e0 \in EndsIn(o, b) : \A j \in b .. e0 - 1 : o[j] # End
  BY <1>3, OriginalKey
<1>5. e0 \in DOMAIN o /\ e0 \in Nat /\ b < e0 /\ e0 <= Len(o) /\ o[e0] = End
  BY <1>1 DEF EndsIn
<1> DEFINE n == KeySize(o, b, e0)
<1>6. KeySlot(o, b, n) /\ Slot(o, h, k, b, n, k)
  BY DEF KeySlot, Slot
<1>7. /\ n = e0 - b + 1 \/ (n = e0 - b + 2 /\ e0 < Len(o) /\ o[e0 + 1] = Newline)
      /\ n = e0 - b + 1 => ~ (e0 < Len(o) /\ o[e0 + 1] = Newline)
      /\ n \in Nat
  BY <1>1, <1>5 DEF KeySize
<1> HIDE DEF n
<1>8. b + n <= Len(o) => img[b + n] # Newline
  <2>1. b + n <= Len(o) => b + n \in DOMAIN o
    BY <1>1, <1>7
  <2> QED
    BY <1>6, <2>1, BehindKey
<1>9. CASE Untouched(o, img, b, n)
  <2>1. \A j \in b .. b + n - 1 : img[j] = o[j]
    BY <1>9 DEF Untouched
  <2>2. \A j \in b .. e0 : j \in b .. b + n - 1
    BY <1>1, <1>5, <1>7
  <2>3. e = e0
    <3>1. img[e0] = End
      BY <1>5, <1>1, <2>1, <2>2
    <3>2. e <= e0
      <4>1. e0 \in b .. Len(o)
        BY <1>1, <1>5
      <4> QED
        BY <1>2, <3>1, <4>1
    <3>3. e < e0 => e \in b .. e0 - 1 /\ o[e] = End
      BY <1>1, <1>2, <1>5, <2>1, <2>2
    <3> QED
      BY <1>1, <1>2, <1>4, <1>5, <3>2, <3>3
  <2>4. cap = n
    <3>1. CASE n = e0 - b + 2
      <4>1. e0 + 1 \in b .. b + n - 1 /\ e0 < Len(o) /\ o[e0 + 1] = Newline
        BY <1>1, <1>5, <1>7, <3>1, SMTT(30)
      <4>2. img[e0 + 1] = Newline
        BY <2>1, <4>1
      <4> QED
        BY <1>1, <2>3, <3>1, <4>1, <4>2
    <3>2. CASE n = e0 - b + 1
      <4>1. b + n = e0 + 1
        BY <1>1, <1>5, <3>2
      <4>2. ~ (e0 < Len(o) /\ img[e0 + 1] = Newline)
        BY <1>1, <1>5, <1>8, <4>1
      <4> QED
        BY <1>1, <2>3, <3>2, <4>2
    <3> QED
      BY <1>7, <3>1, <3>2
  <2>5. Len(k) \in 1 .. n
    BY <1>1, <1>7, <2>4
  <2> QED
    BY <1>1, <1>6, <2>4, <2>5, PutSlot
<1>10. CASE Replaced(img, b, n, k)
  <2>1. /\ Len(k) \in 1 .. n
        /\ \A j \in b .. b + n - 1 : img[j] = IF j - b < Len(k) THEN k[j - b + 1] ELSE Nul
    BY <1>10 DEF Replaced
  <2>2. PICK m \in 1 .. Len(k) : k[m] = End
    <3>1. \E m \in DOMAIN k : k[m] = End
      BY DEF Foreign
    <3> QED
      BY <1>1, <3>1
  <2>3. e <= b + m - 1
    <3>1. b + m - 1 \in b .. b + n - 1 /\ (b + m - 1) - b < Len(k) /\ (b + m - 1) - b + 1 = m
      BY <1>1, <1>7, <2>1
    <3>2. img[b + m - 1] = End
      BY <2>1, <2>2, <3>1
    <3>3. b + m - 1 <= Len(o)
      <4>1. b + n - 1 <= Len(o)
        BY <1>6, SlotBounds
      <4> QED
        BY <1>1, <1>7, <3>1, <4>1
    <3>4. b + m - 1 \in b .. Len(o)
      BY <1>1, <3>1, <3>3
    <3> QED
      BY <1>2, <3>2, <3>4
  <2>4. cap = Len(k)
    <3>1. e \in Nat /\ b <= e /\ e - b + 1 <= Len(k)
      BY <1>1, <1>2, <2>3
    <3>2. CASE ~ (e < Len(o) /\ img[e + 1] = Newline)
      BY <1>1, <3>1, <3>2
    <3>3. CASE e < Len(o) /\ img[e + 1] = Newline
      <4>1. cap = e - b + 2
        BY <1>1, <3>3
      <4>2. CASE Len(k) = e - b + 1
        <5>1. e + 1 = b + Len(k)
          BY <1>1, <3>1, <4>2
        <5>2. CASE Len(k) = n
          <6>1. b + n = e + 1
            BY <5>1, <5>2
          <6>2. b + n <= Len(o) /\ img[b + n] = Newline
            <7>1. e + 1 <= Len(o)
              BY <1>1, <3>1, <3>3
            <7> QED
              BY <3>3, <6>1, <7>1
          <6> QED
            BY <1>8, <6>2
        <5>3. CASE Len(k) < n
          <6>1. e + 1 \in b .. b + n - 1 /\ ~ ((e + 1) - b < Len(k))
            <7>1. b \in Nat /\ n \in Nat /\ Len(k) \in Nat
              BY <1>1, <1>7
            <7>2. b + Len(k) \in b .. b + n - 1 /\ (b + Len(k)) - b = Len(k)
              BY <5>3, <7>1
            <7> QED
              BY <5>1, <7>1, <7>2
          <6>2. img[e + 1] = Nul
            BY <2>1, <6>1
          <6> QED
            BY <3>3, <6>2 DEF Nul, Newline
        <5> QED
          BY <1>1, <1>7, <2>1, <5>2, <5>3
      <4>3. CASE Len(k) # e - b + 1
        BY <1>1, <3>1, <4>1, <4>3, SMTT(30)
      <4> QED
        BY <4>2, <4>3
    <3> QED
      BY <3>2, <3>3
  <2>5. Put(img, b, cap, k) = img
    <3> DEFINE new == Put(img, b, cap, k)
    <3>1. DOMAIN new = DOMAIN img /\ new = [i \in DOMAIN img |-> new[i]]
      BY DEF Put
    <3>2. ASSUME NEW i \in DOMAIN img PROVE new[i] = img[i]
      <4>1. CASE i \in b .. b + Len(k) - 1
        <5>1. i \in b .. b + n - 1 /\ i - b < Len(k)
          BY <1>1, <1>7, <2>1, <4>1
        <5>2. img[i] = k[i - b + 1]
          BY <2>1, <5>1
        <5> QED
          BY <4>1, <5>2 DEF Put
      <4>2. CASE i \notin b .. b + Len(k) - 1
        BY <2>4, <4>2 DEF Put
      <4> QED
        BY <4>1, <4>2
    <3>3. img = [i \in DOMAIN img |-> img[i]]
      BY DEF Intact
    <3> HIDE DEF new
    <3>4. new = img
      BY <3>1, <3>2, <3>3
    <3> QED
      BY <3>4 DEF new
  <2> QED
    BY <2>5 DEF Keeps
<1> QED
  BY <1>6, <1>9, <1>10 DEF Intact

-----------------------------------------------------------------------------
(* The inductive invariant.  Besides the image, it is about what install() *)
(* has yet to visit: only what was there to begin with, as step calls for. *)
Sought ==
  {i \in DOMAIN initial :
     \/ step = "ascii" /\ i \in AsciiHosts
     \/ step = "wide" /\ i \in WideHosts
     \/ step = "key" /\ initial[i] = Begin /\ pubkey # <<>>}

(* One of the copies of the host is the coordinator's.                     *)
HostReplaced(img) ==
  \/ \E i \in AsciiHosts : Replaced(img, i, 2, host)
  \/ \E i \in WideHosts : Replaced(img, i, 4, Utf16le(host))

RedirectInv ==
  /\ initial \in Images
  /\ host \in Hosts
  /\ pubkey \in Keys \cup {<<>>}
  /\ Intact(initial, host, pubkey, image)
  /\ step \in {"idle", "ascii", "wide", "key"}
  /\ step # "idle" => host # <<>> /\ Len(host) <= 2
  /\ hits \subseteq Sought
  /\ host_patched \in BOOLEAN
  /\ installed \in BOOLEAN
  /\ calls \in 0 .. MaxInstalls

(* What the two assumptions on images and strings say of the ones in use.  *)
LEMMA InUse ==
  ASSUME ForeignStrings, TidyImages,
         initial \in Images, host \in Hosts, pubkey \in Keys \cup {<<>>}
  PROVE  initial \in Seq(Cells) /\ Tidy(initial) /\ Foreign(host, pubkey)
<1>1. initial \in Seq(Cells) /\ host \in Seq(Cells) /\ pubkey \in Seq(Cells)
  <2>1. initial \in Seq(Cells) /\ host \in Seq(Cells)
    BY RedirectAssumption
  <2>2. <<>> \in Seq(Cells)
    OBVIOUS
  <2>3. pubkey \in Keys => pubkey \in Seq(Cells)
    BY RedirectAssumption
  <2> QED
    BY <2>1, <2>2, <2>3
<1>2. Tidy(initial)
  BY DEF TidyImages, Tidy
<1>3. Foreign(host, pubkey)
  BY <1>1 DEF Foreign, ForeignStrings
<1> QED
  BY <1>1, <1>2, <1>3

LEMMA ShortHost ==
  ASSUME NEW s \in Seq(Cells), s # <<>>, Len(s) <= 2
  PROVE  Len(s) \in 1 .. 2 /\ 2 * Len(s) \in 1 .. 4
<1>1. 1 <= Len(s) /\ Len(s) \in Nat
  OBVIOUS
<1>2. \A x \in Nat : 1 <= x /\ x <= 2 => x \in 1 .. 2 /\ 2 * x \in 1 .. 4
  OBVIOUS
<1> QED
  BY <1>1, <1>2, Zenon

LEMMA StartsIntact ==
  ASSUME Init PROVE RedirectInv
<1>1. /\ initial \in Images /\ host \in Hosts /\ pubkey \in Keys \cup {<<>>}
  BY DEF Init, KeyTexts
<1>2. initial \in Seq(Cells)
  BY <1>1, RedirectAssumption
<1>3. initial \in [DOMAIN initial -> Cells]
  BY <1>2
<1>4. Intact(initial, host, pubkey, image)
  BY <1>3 DEF Init, Intact, Untouched
<1>5. calls \in 0 .. MaxInstalls
  BY RedirectAssumption DEF Init
<1>6. hits \subseteq Sought /\ step = "idle" /\ host_patched \in BOOLEAN /\ installed \in BOOLEAN
  BY DEF Init
<1> QED
  BY <1>1, <1>4, <1>5, <1>6 DEF RedirectInv

LEMMA HostStep ==
  ASSUME ForeignStrings, TidyImages, RedirectInv,
         NEW i \in DOMAIN image, PatchHost(i)
  PROVE  /\ Intact(initial, host, pubkey, image')
         /\ Keeps(initial, host, pubkey, image, image')
         /\ HostReplaced(image')
<1>1. initial \in Seq(Cells) /\ Foreign(host, pubkey) /\ Intact(initial, host, pubkey, image)
  BY InUse DEF RedirectInv
<1>2. /\ i \in Sought /\ Len(OrigHost) = 2
      /\ host \in Seq(Cells) /\ host # <<>> /\ Len(host) <= 2
  <2>1. hits \subseteq Sought /\ hits \subseteq Nat /\ hits # {} /\ i = First(hits)
    BY <1>1 DEF PatchHost, Visit, RedirectInv, Sought
  <2>2. First(hits) \in hits
    BY <2>1, FirstIsLeast
  <2> QED
    BY <1>1, <2>1, <2>2 DEF PatchHost, RedirectInv, Foreign, OrigHost
<1>3. CASE step = "ascii"
  <2>1. AsciiSlot(initial, i, 2) /\ image' = Put(image, i, 2, host)
    BY <1>2, <1>3 DEF PatchHost, Sought, AsciiHosts, AsciiSlot
  <2>2. Slot(initial, host, pubkey, i, 2, host)
    BY <2>1 DEF Slot
  <2>3. Len(host) \in 1 .. 2
    BY <1>2, ShortHost
  <2>4. /\ Intact(initial, host, pubkey, image')
        /\ Keeps(initial, host, pubkey, image, image')
        /\ Replaced(image', i, 2, host)
    BY <1>1, <1>2, <2>1, <2>2, <2>3, PutSlot
  <2>5. i \in AsciiHosts
    BY <1>2, <1>3 DEF Sought
  <2> QED
    BY <2>4, <2>5 DEF HostReplaced
<1>4. CASE step = "wide"
  <2>1. WideSlot(initial, i, 4) /\ image' = Put(image, i, 4, Utf16le(host))
    <3>1. 2 * Len(OrigHost) = 4
      BY <1>2
    <3> QED
      BY <1>2, <1>4, <3>1 DEF PatchHost, Sought, WideHosts, WideSlot
  <2>2. Slot(initial, host, pubkey, i, 4, Utf16le(host))
    BY <2>1 DEF Slot
  <2>3. Utf16le(host) \in Seq(Cells) /\ Len(Utf16le(host)) \in 1 .. 4
    <3>1. Utf16le(host) \in Seq(Cells) /\ Len(Utf16le(host)) = 2 * Len(host)
      BY <1>2, WideHost
    <3>2. 2 * Len(host) \in 1 .. 4
      BY <1>2, ShortHost
    <3> QED
      BY <3>1, <3>2
  <2>4. /\ Intact(initial, host, pubkey, image')
        /\ Keeps(initial, host, pubkey, image, image')
        /\ Replaced(image', i, 4, Utf16le(host))
    BY <1>1, <2>1, <2>2, <2>3, PutSlot
  <2>5. i \in WideHosts
    BY <1>2, <1>4 DEF Sought
  <2> QED
    BY <2>4, <2>5 DEF HostReplaced
<1> QED
  BY <1>3, <1>4 DEF PatchHost

LEMMA KeyStep ==
  ASSUME ForeignStrings, TidyImages, RedirectInv,
         NEW b \in DOMAIN image, PatchKey(b)
  PROVE  /\ Intact(initial, host, pubkey, image')
         /\ Keeps(initial, host, pubkey, image, image')
<1>1. /\ initial \in Seq(Cells) /\ Tidy(initial)
      /\ Foreign(host, pubkey) /\ Intact(initial, host, pubkey, image)
  BY InUse DEF RedirectInv
<1>2. b \in Sought
  <2>1. hits \subseteq Sought /\ hits \subseteq Nat /\ hits # {} /\ b = First(hits)
    BY <1>1 DEF PatchKey, Visit, RedirectInv, Sought
  <2>2. First(hits) \in hits
    BY <2>1, FirstIsLeast
  <2> QED
    BY <2>1, <2>2
<1>3. b \in DOMAIN initial /\ initial[b] = Begin /\ pubkey # <<>>
  BY <1>2 DEF Sought, PatchKey
<1> DEFINE e == First(FindAll(image, b, <<End>>))
           cap == IF e < Len(image) /\ image[e + 1] = Newline THEN e - b + 2 ELSE e - b + 1
<1>4. /\ FindAll(image, b, <<End>>) # {} /\ Len(pubkey) <= cap
      /\ image' = Put(image, b, cap, pubkey)
  BY DEF PatchKey, KeyCapacity
<1>5. /\ Intact(initial, host, pubkey, Put(image, b, cap, pubkey))
      /\ Keeps(initial, host, pubkey, image, Put(image, b, cap, pubkey))
  BY <1>1, <1>3, <1>4, PutKey
<1> QED
  BY <1>4, <1>5

LEMMA StaysIntact ==
  ASSUME ForeignStrings, TidyImages, RedirectInv, [Next]_vars
  PROVE  RedirectInv'
<1>1. /\ initial \in Seq(Cells) /\ Foreign(host, pubkey) /\ Intact(initial, host, pubkey, image)
      /\ DOMAIN image = DOMAIN initial /\ Len(image) = Len(initial)
  <2>1. initial \in Seq(Cells) /\ Foreign(host, pubkey) /\ Intact(initial, host, pubkey, image)
    BY InUse DEF RedirectInv
  <2> QED
    BY <2>1 DEF Intact
<1> USE DEF RedirectInv, Sought, config
<1>2. CASE InstallReturns
  BY <1>2, RedirectAssumption DEF InstallReturns, AsciiHosts, WideHosts
<1>3. CASE Install
  <2>1. FindAll(image, 1, OrigHost) \subseteq AsciiHosts
    BY <1>1, FindsHosts DEF AsciiHosts
  <2>2. AsciiHosts \subseteq DOMAIN initial
    BY <1>1 DEF AsciiHosts, FindAll, OrigHost
  <2>3. AsciiHosts' = AsciiHosts
    BY <1>3 DEF Install, AsciiHosts
  <2>4. host # <<>> /\ Len(host) <= 2
    BY <1>3 DEF Install, OrigHost
  <2>5. calls' \in 0 .. MaxInstalls
    BY <1>3, RedirectAssumption DEF Install
  <2> QED
    BY <1>3, <2>1, <2>2, <2>3, <2>4, <2>5 DEF Install
<1>4. ASSUME NEW i \in DOMAIN image, PatchHost(i)
      PROVE  RedirectInv'
  <2>1. Intact(initial, host, pubkey, image')
    BY <1>4, HostStep
  <2> QED
    BY <1>4, <2>1 DEF PatchHost, Visit, AsciiHosts, WideHosts
<1>5. ASSUME NEW i \in DOMAIN image, MissHost(i)
      PROVE  RedirectInv'
  BY <1>5 DEF MissHost, Visit, AsciiHosts, WideHosts
<1>6. ASSUME NEW i \in DOMAIN image, PatchKey(i)
      PROVE  RedirectInv'
  <2>1. Intact(initial, host, pubkey, image')
    BY <1>6, KeyStep
  <2> QED
    BY <1>6, <2>1 DEF PatchKey, Visit, AsciiHosts, WideHosts
<1>7. ASSUME NEW i \in DOMAIN image, MissKey(i)
      PROVE  RedirectInv'
  BY <1>7 DEF MissKey, Visit, AsciiHosts, WideHosts
<1>8. CASE SearchWide
  <2>1. FindAll(image, 1, Utf16le(OrigHost)) \subseteq WideHosts
    BY <1>1, FindsHosts DEF WideHosts
  <2>2. WideHosts \subseteq DOMAIN initial
    BY <1>1, WideOrig DEF WideHosts, FindAll
  <2>3. WideHosts' = WideHosts
    BY <1>8 DEF SearchWide, WideHosts
  <2> QED
    BY <1>8, <2>1, <2>2, <2>3 DEF SearchWide
<1>9. CASE SearchKey
  <2>1. \A b \in FindAll(image, 1, <<Begin>>) : b \in DOMAIN initial /\ image[b] = Begin
    <3>1. Len(<<Begin>>) = 1 /\ <<Begin>>[1] = Begin
      OBVIOUS
    <3>2. ASSUME NEW b \in FindAll(image, 1, <<Begin>>)
          PROVE  b \in DOMAIN initial /\ image[b] = Begin
      <4>1. b \in 1 .. Len(initial) - 1 + 1 /\ \A j \in 1 .. 1 : image[b + j - 1] = <<Begin>>[j]
        BY <1>1, <3>1, <3>2 DEF FindAll
      <4>2. image[b + 1 - 1] = Begin /\ b + 1 - 1 = b
        BY <3>1, <4>1
      <4> QED
        BY <1>1, <4>1, <4>2
    <3> QED
      BY <3>2
  <2>2. \A b \in FindAll(image, 1, <<Begin>>) : initial[b] = Begin
    BY <1>1, <2>1, FindsKeys
  <2> QED
    BY <1>9, <2>1, <2>2 DEF SearchKey
<1>10. CASE Finish
  BY <1>10 DEF Finish, AsciiHosts, WideHosts
<1>11. CASE UNCHANGED vars
  BY <1>11 DEF vars, AsciiHosts, WideHosts
<1> QED
  BY <1>2, <1>3, <1>4, <1>5, <1>6, <1>7, <1>8, <1>9, <1>10, <1>11 DEF Next, InstallStep

-----------------------------------------------------------------------------
(* What has been replaced.                                                 *)
LEMMA StaysReplaced ==
  ASSUME ForeignStrings, TidyImages, RedirectInv, [Next]_vars
  PROVE  Keeps(initial, host, pubkey, image, image')
<1>1. CASE UNCHANGED image
  BY <1>1 DEF Keeps, Replaced
<1>2. CASE \E i \in DOMAIN image : PatchHost(i) \/ PatchKey(i)
  BY <1>2, HostStep, KeyStep
<1> QED
  BY <1>1, <1>2 DEF Next, InstallStep, InstallReturns, Install, MissHost, MissKey, SearchWide,
                    SearchKey, Finish, vars

(* Slots that hold the coordinator's host go on to.                        *)
LEMMA HostStaysReplaced ==
  ASSUME NEW img, NEW new, Keeps(initial, host, pubkey, img, new), HostReplaced(img)
  PROVE  HostReplaced(new)
<1>1. ASSUME NEW i \in AsciiHosts, Replaced(img, i, 2, host) PROVE Replaced(new, i, 2, host)
  <2>1. Slot(initial, host, pubkey, i, 2, host)
    BY DEF Slot, AsciiSlot, AsciiHosts
  <2> QED
    BY <1>1, <2>1 DEF Keeps
<1>2. ASSUME NEW i \in WideHosts, Replaced(img, i, 4, Utf16le(host))
      PROVE  Replaced(new, i, 4, Utf16le(host))
  <2>1. Slot(initial, host, pubkey, i, 4, Utf16le(host))
    BY DEF Slot, WideSlot, WideHosts
  <2> QED
    BY <1>2, <2>1 DEF Keeps
<1> QED
  BY <1>1, <1>2 DEF HostReplaced

(* The flags say that a host is replaced only where one is.                *)
FlagsAreTrue == host_patched \/ installed => HostReplaced(image)

LEMMA FlagsStayTrue ==
  ASSUME ForeignStrings, TidyImages, RedirectInv, FlagsAreTrue, [Next]_vars
  PROVE  FlagsAreTrue'
<1>1. UNCHANGED <<initial, host>>
  BY DEF Next, InstallStep, InstallReturns, Install, PatchHost, MissHost, PatchKey, MissKey,
         SearchWide, SearchKey, Finish, config, vars
<1>2. HostReplaced(image)' <=> HostReplaced(image')
  BY <1>1 DEF HostReplaced, AsciiHosts, WideHosts
<1>3. CASE \E i \in DOMAIN image : PatchHost(i)
  BY <1>2, <1>3, HostStep DEF FlagsAreTrue
<1>4. CASE ~ \E i \in DOMAIN image : PatchHost(i)
  <2>1. host_patched' \/ installed' => host_patched \/ installed
    BY <1>4 DEF Next, InstallStep, InstallReturns, Install, MissHost, PatchKey, MissKey,
                SearchWide, SearchKey, Finish, vars
  <2>2. HostReplaced(image) => HostReplaced(image')
    BY StaysReplaced, HostStaysReplaced
  <2> QED
    BY <1>2, <2>1, <2>2 DEF FlagsAreTrue
<1> QED
  BY <1>3, <1>4

-----------------------------------------------------------------------------
(* What follows of the image.                                              *)
LEMMA SlotRegions ==
  ASSUME NEW b \in DOMAIN initial, NEW e \in KeyEnds(b), initial \in Seq(Cells)
  PROVE  /\ KeySlot(initial, b, KeySize(initial, b, e))
         /\ KeySize(initial, b, e) \in Nat
         /\ KeyRegion(b, e) = b .. b + KeySize(initial, b, e) - 1
         /\ Cardinality(KeyRegion(b, e)) = KeySize(initial, b, e)
<1> DEFINE n == KeySize(initial, b, e)
<1>1. e \in EndsIn(initial, b) /\ b \in Nat /\ e \in Nat /\ b < e
  BY DEF KeyEnds, EndsIn
<1>2. KeySlot(initial, b, n)
  BY <1>1 DEF KeySlot
<1>3. KeyRegion(b, e) = b .. b + n - 1 /\ n \in Nat \ {0}
  <2>1. CASE e < Len(initial) /\ initial[e + 1] = Newline
    <3>1. n = e - b + 2 /\ KeyRegion(b, e) = b .. e + 1
      BY <2>1 DEF KeyRegion, KeySize
    <3>2. b + (e - b + 2) - 1 = e + 1 /\ e - b + 2 \in Nat \ {0}
      BY <1>1
    <3> QED
      BY <3>1, <3>2
  <2>2. CASE ~ (e < Len(initial) /\ initial[e + 1] = Newline)
    <3>1. n = e - b + 1 /\ KeyRegion(b, e) = b .. e
      BY <2>2 DEF KeyRegion, KeySize
    <3>2. b + (e - b + 1) - 1 = e /\ e - b + 1 \in Nat \ {0}
      BY <1>1
    <3> QED
      BY <3>1, <3>2
  <2> QED
    BY <2>1, <2>2
<1> HIDE DEF n
<1>4. Cardinality(b .. b + n - 1) = n
  <2>1. b \in Int /\ b + n - 1 \in Int /\ b <= b + n - 1
    BY <1>1, <1>3
  <2>2. Cardinality(b .. b + n - 1) = (b + n - 1) - b + 1
    BY <2>1, FS_Interval
  <2> QED
    BY <1>1, <1>3, <2>2
<1>5. KeySlot(initial, b, n) /\ n \in Nat /\ KeyRegion(b, e) = b .. b + n - 1
      /\ Cardinality(KeyRegion(b, e)) = n
  BY <1>2, <1>3, <1>4
<1> QED
  BY <1>5 DEF n

LEMMA OnlyStrings ==
  ASSUME initial \in Seq(Cells), Intact(initial, host, pubkey, image)
  PROVE  StringsOnly
<1> SUFFICES ASSUME NEW i \in DOMAIN initial, image[i] # initial[i]
             PROVE  i \in Patchable
  BY DEF StringsOnly
<1>1. PICK at, n, repl : Slot(initial, host, pubkey, at, n, repl) /\ i \in at .. at + n - 1
  BY DEF Intact
<1>2. CASE AsciiSlot(initial, at, n)
  <2>1. at \in AsciiHosts /\ n = Len(OrigHost)
    BY <1>2 DEF AsciiSlot, AsciiHosts, OrigHost
  <2> QED
    BY <1>1, <2>1 DEF Patchable
<1>3. CASE WideSlot(initial, at, n)
  <2>1. at \in WideHosts /\ n = 2 * Len(OrigHost)
    BY <1>3 DEF WideSlot, WideHosts, OrigHost
  <2> QED
    BY <1>1, <2>1 DEF Patchable
<1>4. CASE KeySlot(initial, at, n)
  <2>1. PICK e \in EndsIn(initial, at) : n = KeySize(initial, at, e)
    BY <1>4 DEF KeySlot
  <2>2. at \in DOMAIN initial /\ e \in KeyEnds(at)
    BY <1>4 DEF KeySlot, EndsIn, KeyEnds
  <2>3. KeyRegion(at, e) = at .. at + n - 1
    BY <2>1, <2>2, SlotRegions
  <2>4. i \in KeyRegion(at, e) /\ KeyRegion(at, e) \in {KeyRegion(at, f) : f \in KeyEnds(at)}
    BY <1>1, <2>2, <2>3
  <2>5. {KeyRegion(at, f) : f \in KeyEnds(at)}
          \in {{KeyRegion(b, f) : f \in KeyEnds(b)} : b \in DOMAIN initial}
    BY <2>2
  <2> QED
    BY <2>4, <2>5, Zenon DEF Patchable
<1> QED
  BY <1>1, <1>2, <1>3, <1>4 DEF Slot

LEMMA SlotIsWhole ==
  ASSUME Intact(initial, host, pubkey, image),
         NEW at, NEW n, NEW repl, Slot(initial, host, pubkey, at, n, repl)
  PROVE  Whole(at, n, repl)
BY DEF Intact, Untouched, Replaced, Whole, Holds

LEMMA WholeStrings ==
  ASSUME initial \in Seq(Cells), Intact(initial, host, pubkey, image)
  PROVE  WholeOrUntouched
<1>1. Len(OrigHost) = 2 /\ 2 * Len(OrigHost) = 4
  BY DEF OrigHost
<1>2. ASSUME NEW i \in AsciiHosts PROVE Whole(i, 2, host)
  BY SlotIsWhole DEF Slot, AsciiSlot, AsciiHosts
<1>3. ASSUME NEW i \in WideHosts PROVE Whole(i, 4, Utf16le(host))
  BY SlotIsWhole DEF Slot, WideSlot, WideHosts
<1>4. ASSUME NEW b \in DOMAIN initial, NEW e \in KeyEnds(b)
      PROVE  Whole(b, Cardinality(KeyRegion(b, e)), pubkey)
  BY SlotRegions, SlotIsWhole DEF Slot
<1> QED
  BY <1>1, <1>2, <1>3, <1>4 DEF WholeOrUntouched

LEMMA TypesFromInv ==
  ASSUME RedirectInv
  PROVE  TypeOK
<1>1. hits \subseteq DOMAIN initial /\ (step = "idle" => hits = {})
  BY DEF RedirectInv, Sought
<1>2. image \in [DOMAIN initial -> Cells]
  BY DEF RedirectInv, Intact
<1> QED
  BY <1>1, <1>2 DEF RedirectInv, TypeOK

(* Every state of install() is of its type.                                *)
THEOREM RedirectTypes ==
  ASSUME ForeignStrings, TidyImages
  PROVE  Spec => []TypeOK
<1>1. Init => RedirectInv
  BY StartsIntact
<1>2. RedirectInv /\ [Next]_vars => RedirectInv'
  BY StaysIntact
<1>3. RedirectInv => TypeOK
  BY TypesFromInv
<1> QED
  BY <1>1, <1>2, <1>3, PTL DEF Spec

(* server_redirect_hook.cpp's overwrite() is "bounded by the original      *)
(* buffer length": whatever the host and the key, and however often        *)
(* install() is called, no cell changes outside FromSoft's strings.        *)
THEOREM StringsOnlyAlways ==
  ASSUME ForeignStrings, TidyImages
  PROVE  Spec => []StringsOnly
<1>1. Init => RedirectInv
  BY StartsIntact
<1>2. RedirectInv /\ [Next]_vars => RedirectInv'
  BY StaysIntact
<1>3. RedirectInv => StringsOnly
  BY InUse, OnlyStrings DEF RedirectInv
<1> QED
  BY <1>1, <1>2, <1>3, PTL DEF Spec

(* No string of the image is ever left half FromSoft's and half the        *)
(* coordinator's by install(), a repeated one included.                    *)
THEOREM WholeOrUntouchedAlways ==
  ASSUME ForeignStrings, TidyImages
  PROVE  Spec => []WholeOrUntouched
<1>1. Init => RedirectInv
  BY StartsIntact
<1>2. RedirectInv /\ [Next]_vars => RedirectInv'
  BY StaysIntact
<1>3. RedirectInv => WholeOrUntouched
  BY InUse, WholeStrings DEF RedirectInv
<1> QED
  BY <1>1, <1>2, <1>3, PTL DEF Spec

(* "(hostname x%d": whatever VirtualProtect refuses, g_installed is set    *)
(* only with a coordinator's host in place, and none is taken out again.   *)
THEOREM InstalledMeansRedirectedAlways ==
  ASSUME ForeignStrings, TidyImages
  PROVE  Spec => []InstalledMeansRedirected
<1>1. Init => RedirectInv /\ FlagsAreTrue
  BY StartsIntact DEF Init, FlagsAreTrue
<1>2. RedirectInv /\ FlagsAreTrue /\ [Next]_vars => RedirectInv' /\ FlagsAreTrue'
  BY StaysIntact, FlagsStayTrue
<1>3. FlagsAreTrue => InstalledMeansRedirected
  <2>1. Len(OrigHost) = 2 /\ 2 * Len(OrigHost) = 4
    BY DEF OrigHost
  <2> QED
    BY <2>1 DEF FlagsAreTrue, HostReplaced, Replaced, InstalledMeansRedirected, Holds
<1> QED
  BY <1>1, <1>2, <1>3, PTL DEF Spec

(* However often install() runs over an image it has been at, a cell that  *)
(* has changed is never changed again.                                     *)
THEOREM OverwrittenOnceAlways ==
  ASSUME ForeignStrings, TidyImages
  PROVE  Spec => OverwrittenOnce
<1> DEFINE Once == \A i \in DOMAIN initial : image[i] # initial[i] => image'[i] = image[i]
<1>1. Init => RedirectInv
  BY StartsIntact
<1>2. RedirectInv /\ [Next]_vars => RedirectInv'
  BY StaysIntact
<1>3. RedirectInv /\ [Next]_vars => [Once]_vars
  <2> SUFFICES ASSUME RedirectInv, [Next]_vars, NEW i \in DOMAIN initial, image[i] # initial[i]
               PROVE  image'[i] = image[i]
    OBVIOUS
  <2>1. initial \in Seq(Cells) /\ Foreign(host, pubkey) /\ Intact(initial, host, pubkey, image)
    BY InUse DEF RedirectInv
  <2>2. PICK at, n, repl :
          /\ Slot(initial, host, pubkey, at, n, repl) /\ i \in at .. at + n - 1
          /\ Replaced(image, at, n, repl)
    BY <2>1, CellOrigin
  <2>3. Replaced(image', at, n, repl)
    BY <2>2, StaysReplaced DEF Keeps
  <2> QED
    BY <2>2, <2>3 DEF Replaced
<1> QED
  BY <1>1, <1>2, <1>3, PTL DEF Spec, OverwrittenOnce
=============================================================================
