--------------------------- MODULE SettingsProofs ---------------------------
(***************************************************************************)
(* Proofs about Settings, for files of any length and any texts in them:   *)
(* each setting is what the last line that sets it says.                   *)
(***************************************************************************)
EXTENDS Settings, TLAPS

USE SettingsAssumption

(* The section in force is that of the last header read.                   *)
SectionInForce ==
  \/ section = "" /\ \A i \in DOMAIN file : file[i].kind # "header"
  \/ InSection(Len(file) + 1, section)

SettingsInv ==
  /\ TypeOK
  /\ SectionInForce
  /\ LastSettingWins

-----------------------------------------------------------------------------
LEMMA KnownFacts ==
  ASSUME NEW s \in Known
  PROVE  /\ s.section # ""
         /\ \A a, b : s = [section |-> a, key |-> b] <=> s.section = a /\ s.key = b
<1>1. s = [section |-> s.section, key |-> s.key] /\ s.section # ""
  BY DEF Known, Boolean, Number, Text
<1>2. ASSUME NEW a, NEW b, s.section = a, s.key = b PROVE s = [section |-> a, key |-> b]
  BY <1>1, <1>2
<1>3. ASSUME NEW a, NEW b, s = [section |-> a, key |-> b] PROVE s.section = a /\ s.key = b
  BY <1>3
<1> QED
  BY <1>1, <1>2, <1>3, Zenon

(* A line that is read changes nothing above it.                           *)
LEMMA ReadFacts ==
  ASSUME file \in Seq(Lines), NEW line \in Lines, file' = Append(file, line)
  PROVE  /\ file' \in Seq(Lines)
         /\ Len(file) \in Nat /\ Len(file') = Len(file) + 1
         /\ DOMAIN file = 1 .. Len(file) /\ DOMAIN file' = 1 .. Len(file) + 1
         /\ \A i \in DOMAIN file : file'[i] = file[i]
         /\ file'[Len(file) + 1] = line
OBVIOUS

LEMMA SectionsAbove ==
  ASSUME file \in Seq(Lines), NEW line \in Lines, file' = Append(file, line),
         NEW i \in 1 .. Len(file) + 1, NEW name
  PROVE  InSection(i, name)' <=> InSection(i, name)
<1>1. \A j \in 1 .. i - 1 : file'[j] = file[j]
  BY ReadFacts
<1>2. \A h \in 1 .. i - 1 : \A j \in h + 1 .. i - 1 : file'[j] = file[j]
  BY <1>1, ReadFacts
<1> QED
  BY <1>1, <1>2 DEF InSection

LEMMA SetsAbove ==
  ASSUME file \in Seq(Lines), NEW line \in Lines, file' = Append(file, line),
         NEW i \in 1 .. Len(file), NEW s
  PROVE  Sets(i, s)' <=> Sets(i, s)
<1>1. file'[i] = file[i] /\ i \in 1 .. Len(file) + 1
  BY ReadFacts
<1>2. InSection(i, s.section)' <=> InSection(i, s.section)
  BY <1>1, SectionsAbove
<1> QED
  BY <1>1, <1>2 DEF Sets, Accepts

(* A line stands in one section.                                           *)
LEMMA OneSection ==
  ASSUME NEW i \in Nat, NEW a, NEW b, InSection(i, a), InSection(i, b)
  PROVE  a = b
<1>1. PICK g \in 1 .. i - 1 :
        file[g].kind = "header" /\ file[g].name = a /\ \A j \in g + 1 .. i - 1 : file[j].kind # "header"
  BY DEF InSection
<1>2. PICK h \in 1 .. i - 1 :
        file[h].kind = "header" /\ file[h].name = b /\ \A j \in h + 1 .. i - 1 : file[j].kind # "header"
  BY DEF InSection
<1>3. ~ (g < h) /\ ~ (h < g)
  BY <1>1, <1>2
<1> QED
  BY <1>1, <1>2, <1>3

(* The line that is read next sets what the section in force lets it set.  *)
LEMMA NewLineSets ==
  ASSUME SettingsInv, NEW line \in Lines, file' = Append(file, line), NEW s \in Known,
         NEW n, n = Len(file) + 1
  PROVE  Sets(n, s)' <=>
           /\ line.kind = "assignment" /\ line.key = s.key /\ Accepts(s, line.val)
           /\ s.section = section
<1>0. file \in Seq(Lines)
  BY DEF SettingsInv, TypeOK
<1>1. /\ file \in Seq(Lines) /\ Len(file) \in Nat /\ n \in Nat /\ file'[n] = line
      /\ n \in 1 .. Len(file) + 1 /\ DOMAIN file = 1 .. n - 1
  BY <1>0, ReadFacts
<1>2. InSection(n, s.section)' <=> InSection(n, s.section)
  BY <1>1, SectionsAbove
<1>3. InSection(n, s.section) <=> s.section = section
  <2>1. CASE section = "" /\ \A i \in DOMAIN file : file[i].kind # "header"
    BY <1>1, <2>1, KnownFacts DEF InSection
  <2>2. CASE InSection(n, section)
    BY <1>1, <2>2, OneSection
  <2> QED
    BY <2>1, <2>2 DEF SettingsInv, SectionInForce
<1> QED
  BY <1>1, <1>2, <1>3 DEF Sets, Accepts

-----------------------------------------------------------------------------
LEMMA SettingsInvInit == Init => SettingsInv
<1> SUFFICES ASSUME Init PROVE SettingsInv
  OBVIOUS
<1>0. file = <<>>
  BY DEF Init
<1>1. file \in Seq(Lines) /\ DOMAIN file = {} /\ Len(file) = 0
  BY <1>0
<1>2. Boolean \subseteq Known /\ Number \subseteq Known
  BY DEF Known
<1>3. TypeOK
  BY <1>1, <1>2 DEF Init, TypeOK
<1> QED
  BY <1>1, <1>3 DEF Init, SettingsInv, SectionInForce, LastSettingWins

(* Whatever line is read, if it leaves the section and the settings as the *)
(* code does, the invariant goes on to hold.                               *)
LEMMA ReadKeepsInv ==
  ASSUME SettingsInv, NEW line \in Lines, ReadLine(line),
         section' = IF line.kind = "header" THEN line.name ELSE section,
         line.kind = "header" => section' \in Names,
         IF line.kind = "assignment" THEN Set(line.key, line.val) ELSE UNCHANGED out,
         line.kind = "assignment" => line.val \in Values
  PROVE  SettingsInv'
<1>0. file \in Seq(Lines) /\ file' = Append(file, line)
  BY DEF SettingsInv, TypeOK, ReadLine
<1> PICK n \in Nat : n = Len(file) + 1
  BY <1>0, ReadFacts
<1>1. /\ file \in Seq(Lines) /\ file' = Append(file, line) /\ UNCHANGED result
      /\ n \in Nat /\ file'[n] = line /\ file' \in Seq(Lines) /\ Len(file') = n
      /\ DOMAIN file = 1 .. n - 1 /\ DOMAIN file' = 1 .. n
      /\ \A i \in 1 .. n - 1 : file'[i] = file[i]
  BY <1>0, ReadFacts DEF ReadLine
<1>2. ASSUME NEW s \in Known PROVE
        out'[s] = IF /\ line.kind = "assignment" /\ line.key = s.key /\ Accepts(s, line.val)
                     /\ s.section = section
                  THEN line.val ELSE out[s]
  <2>1. s = [section |-> section, key |-> line.key] <=> s.section = section /\ s.key = line.key
    BY KnownFacts
  <2> QED
    BY <2>1 DEF Set
<1>3. out' \in [Known -> Values \cup {"default"}]
  BY DEF Set, SettingsInv, TypeOK
<1>4. TypeOK'
  <2>1. Boolean \subseteq Known /\ Number \subseteq Known
    BY DEF Known
  <2>2. \A s \in Boolean : out'[s] \in BoolTexts \cup {"default"}
    BY <1>2, <2>1 DEF Accepts, SettingsInv, TypeOK
  <2>3. \A s \in Number : out'[s] \in IntTexts \cup {"default"}
    BY <1>2, <2>1 DEF Accepts, SettingsInv, TypeOK
  <2>4. section' \in Names \cup {""}
    BY DEF SettingsInv, TypeOK
  <2> QED
    BY <1>1, <1>3, <2>2, <2>3, <2>4 DEF SettingsInv, TypeOK
<1>5. SectionInForce'
  <2> DEFINE Last(h) ==
        /\ file'[h].kind = "header" /\ file'[h].name = section'
        /\ \A j \in h + 1 .. n : file'[j].kind # "header"
  <2>1. ASSUME NEW h \in 1 .. n, Last(h) PROVE SectionInForce'
    <3>1. InSection(Len(file) + 1, section)'
            <=> \E g \in 1 .. Len(file') + 1 - 1 :
                  /\ file'[g].kind = "header" /\ file'[g].name = section'
                  /\ \A j \in g + 1 .. Len(file') + 1 - 1 : file'[j].kind # "header"
      BY DEF InSection
    <3>2. Len(file') + 1 - 1 = n
      BY <1>1
    <3>3. InSection(Len(file) + 1, section)'
      BY <2>1, <3>1, <3>2
    <3> QED
      BY <3>3 DEF SectionInForce
  <2>2. CASE line.kind = "header"
    <3>1. Last(n)
      BY <1>1, <2>2
    <3> QED
      BY <1>1, <2>1, <3>1
  <2>3. CASE line.kind # "header" /\ section = "" /\ \A i \in DOMAIN file : file[i].kind # "header"
    <3>1. ASSUME NEW i \in 1 .. n PROVE file'[i].kind # "header"
      <4>1. i = n \/ i \in DOMAIN file
        BY <1>1
      <4> QED
        BY <1>1, <2>3, <4>1
    <3> QED
      BY <1>1, <2>3, <3>1 DEF SectionInForce
  <2>4. CASE line.kind # "header" /\ InSection(n, section)
    <3>1. PICK h \in 1 .. n - 1 :
            file[h].kind = "header" /\ file[h].name = section
              /\ \A j \in h + 1 .. n - 1 : file[j].kind # "header"
      BY <2>4 DEF InSection
    <3>2. ASSUME NEW j \in h + 1 .. n PROVE file'[j].kind # "header"
      BY <1>1, <2>4, <3>1
    <3>3. Last(h)
      BY <1>1, <2>4, <3>1, <3>2
    <3> QED
      BY <2>1, <3>3
  <2> QED
    BY <2>2, <2>3, <2>4 DEF SettingsInv, SectionInForce
<1>6. LastSettingWins'
  <2> SUFFICES ASSUME NEW s \in Known
               PROVE  \/ /\ out'[s] = "default"
                         /\ \A i \in DOMAIN file' : ~ Sets(i, s)'
                      \/ \E i \in DOMAIN file' :
                           /\ Sets(i, s)' /\ out'[s] = file'[i].val
                           /\ \A j \in i + 1 .. Len(file') : ~ Sets(j, s)'
    BY DEF LastSettingWins
  <2>1. \A i \in 1 .. n - 1 : Sets(i, s)' <=> Sets(i, s)
    BY <1>1, SetsAbove
  <2>2. Sets(n, s)' <=>
          /\ line.kind = "assignment" /\ line.key = s.key /\ Accepts(s, line.val)
          /\ s.section = section
    BY <1>1, NewLineSets
  <2>3. CASE Sets(n, s)'
    BY <1>1, <1>2, <2>2, <2>3
  <2>4. CASE ~ Sets(n, s)'
    <3>1. out'[s] = out[s]
      BY <1>2, <2>2, <2>4
    <3>2. CASE out[s] = "default" /\ \A i \in DOMAIN file : ~ Sets(i, s)
      BY <1>1, <2>1, <2>4, <3>1, <3>2
    <3>3. CASE \E i \in DOMAIN file : /\ Sets(i, s) /\ out[s] = file[i].val
                                      /\ \A j \in i + 1 .. Len(file) : ~ Sets(j, s)
      BY <1>1, <2>1, <2>4, <3>1, <3>3
    <3> QED
      BY <3>2, <3>3 DEF SettingsInv, LastSettingWins
  <2> QED
    BY <2>3, <2>4
<1> QED
  BY <1>4, <1>5, <1>6 DEF SettingsInv

LEMMA SettingsInvStep == SettingsInv /\ [Next]_vars => SettingsInv'
<1> SUFFICES ASSUME SettingsInv, [Next]_vars PROVE SettingsInv'
  OBVIOUS
<1>1. CASE Skip
  <2>1. PICK kind \in {"blank", "malformed"} : ReadLine([kind |-> kind])
    BY <1>1 DEF Skip
  <2>2. UNCHANGED <<section, out>>
    BY <1>1 DEF Skip
  <2>3. [kind |-> kind] \in Lines
    BY DEF Lines
  <2> QED
    BY <2>1, <2>2, <2>3, ReadKeepsInv
<1>2. ASSUME NEW name \in Names, Header(name) PROVE SettingsInv'
  BY <1>2, ReadKeepsInv DEF Header, Lines, ReadLine
<1>3. ASSUME NEW key \in KeyNames, NEW val \in Values, Assign(key, val) PROVE SettingsInv'
  <2> DEFINE line == [kind |-> "assignment", key |-> key, val |-> val]
  <2>1. line \in Lines
    BY DEF Lines
  <2>2. line.kind = "assignment" /\ line.key = key /\ line.val = val
    OBVIOUS
  <2>3. ReadLine(line) /\ Set(key, val) /\ UNCHANGED section
    BY <1>3 DEF Assign
  <2> HIDE DEF line
  <2> QED
    BY <2>1, <2>2, <2>3, ReadKeepsInv
<1>4. CASE NoFile \/ Stop \/ UNCHANGED vars
  <2>1. UNCHANGED <<file, section, out>> /\ result' \in {"none", "true", "false"}
    BY <1>4 DEF NoFile, Stop, vars, SettingsInv, TypeOK
  <2>2. TypeOK'
    BY <2>1 DEF SettingsInv, TypeOK
  <2>3. SectionInForce' /\ LastSettingWins'
    <3>1. file' = file /\ section' = section /\ out' = out
      BY <2>1
    <3>2. \A i, name : InSection(i, name)' = InSection(i, name)
      BY <3>1 DEF InSection
    <3>3. \A i, s : Sets(i, s)' = Sets(i, s)
      BY <3>1 DEF Sets, InSection, Accepts
    <3>4. SectionInForce'
      BY <3>1 DEF SettingsInv, SectionInForce, InSection
    <3>5. LastSettingWins'
      BY <3>1, <3>3 DEF SettingsInv, LastSettingWins
    <3> QED
      BY <3>4, <3>5
  <2> QED
    BY <2>2, <2>3 DEF SettingsInv
<1> QED
  BY <1>1, <1>2, <1>3, <1>4 DEF Next

(* Types, whatever is in the file.                                         *)
THEOREM SettingsTypes == Spec => []TypeOK
BY SettingsInvInit, SettingsInvStep, PTL DEF Spec, SettingsInv

(* For a file of any length: the last line that sets a setting decides,    *)
(* and no malformed value or lost header elsewhere changes that.           *)
THEOREM LastSettingWinsAlways == Spec => []LastSettingWins
BY SettingsInvInit, SettingsInvStep, PTL DEF Spec, SettingsInv
=============================================================================
