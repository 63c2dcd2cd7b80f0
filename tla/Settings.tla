------------------------------ MODULE Settings ------------------------------
(***************************************************************************)
(* load_settings of dll/settings.cpp: the ini file, read line by line.     *)
(*                                                                         *)
(* A line is what remains of it once its comment and the blanks around it  *)
(* are gone: nothing, a [section] header, an assignment, or anything else. *)
(* A disk error may end the file early: getline then fails like at its end.*)
(***************************************************************************)
EXTENDS Naturals, Sequences

CONSTANTS
  Names,     \* section names in headers, in lower case
  KeyNames,  \* keys to the left of an equals sign, in lower case
  Values,    \* the texts to the right of one
  MaxLines   \* bound of the model: the longest file

Boolean == [section : {"gameplay"}, key : {"allow_invaders", "skip_intros"}]

Number == [section : {"scaling"}, key : {"enemy_health_scaling", "_debug_player_count"}]
            \cup [section : {"network"}, key : {"coordinator_port"}]

Text == [section : {"save"}, key : {"save_file_extension"}]
          \cup [section : {"network"}, key : {"coordinator_host"}]

(* Each kind of setting stands for the others of its section and type.     *)
Known == Boolean \cup Number \cup Text

(* The texts parse_bool knows, and those from_chars takes whole.           *)
BoolTexts == {"1", "true", "TRUE", "0", "false", "FALSE"}

IntTexts == {"0", "1", "35", "-5"}

ASSUME SettingsAssumption ==
  /\ Names \subseteq STRING
  /\ KeyNames \subseteq STRING
  /\ Values \subseteq STRING
  /\ MaxLines \in Nat

Lines ==
  [kind : {"blank", "malformed"}] \cup [kind : {"header"}, name : Names]
    \cup [kind : {"assignment"}, key : KeyNames, val : Values]

VARIABLES
  file,      \* the lines the loop has read, for the properties
  section,   \* the local section: empty before the first header
  out,       \* the settings: the text each was set to, or "default"
  result     \* what load_settings returns: none while it runs

vars == <<file, section, out, result>>

Init ==
  /\ file = <<>>
  /\ section = ""
  /\ out = [s \in Known |-> "default"]
  /\ result = "none"

-----------------------------------------------------------------------------
(* The file cannot be opened: warn, and keep every default.                *)
NoFile ==
  /\ file = <<>> /\ result = "none"
  /\ result' = "false"
  /\ UNCHANGED <<file, section, out>>

ReadLine(line) ==
  /\ result = "none"
  /\ Len(file) < MaxLines
  /\ file' = Append(file, line)
  /\ UNCHANGED result

(* A line of blanks or a comment, and a line without an equals sign, also  *)
(* a header that has lost one of its brackets.  The latter is logged, which*)
(* is left out here; other lines without effect are not, see Accepts.      *)
Skip ==
  /\ \E kind \in {"blank", "malformed"} : ReadLine([kind |-> kind])
  /\ UNCHANGED <<section, out>>

Header(name) ==
  /\ ReadLine([kind |-> "header", name |-> name])
  /\ section' = name
  /\ UNCHANGED out

MutAccepts(s, val) == TRUE

(* A value its type cannot take leaves the setting as it was: parse_bool   *)
(* and parse_int return false, and nobody looks at it or logs it.          *)
Accepts(s, val) ==
  /\ s \in Boolean => val \in BoolTexts
  /\ s \in Number => val \in IntTexts

MutSet(key, val) ==
  out' = [s \in Known |-> IF s.key = key /\ Accepts(s, val) THEN val ELSE out[s]]

(* The setting that the key names in the section of the last header.       *)
Set(key, val) ==
  out' = [s \in Known |->
            IF s = [section |-> section, key |-> key] /\ Accepts(s, val)
              THEN val ELSE out[s]]

Assign(key, val) ==
  /\ ReadLine([kind |-> "assignment", key |-> key, val |-> val])
  /\ Set(key, val)
  /\ UNCHANGED section

(* getline fails, at the end of the file or at a disk error: return true.  *)
Stop ==
  /\ result = "none"
  /\ result' = "true"
  /\ UNCHANGED <<file, section, out>>

Next ==
  \/ NoFile
  \/ Skip
  \/ \E name \in Names : Header(name)
  \/ \E key \in KeyNames, val \in Values : Assign(key, val)
  \/ Stop

Spec == Init /\ [][Next]_vars

-----------------------------------------------------------------------------
(* Every setting holds its default, or a text that its type can take.      *)
TypeOK ==
  /\ file \in Seq(Lines)
  /\ section \in Names \cup {""}
  /\ out \in [Known -> Values \cup {"default"}]
  /\ \A s \in Boolean : out[s] \in BoolTexts \cup {"default"}
  /\ \A s \in Number : out[s] \in IntTexts \cup {"default"}
  /\ result \in {"none", "true", "false"}

(* Line i is in the section of the last header above it.                   *)
InSection(i, name) ==
  \E h \in 1 .. i - 1 :
    /\ file[h].kind = "header" /\ file[h].name = name
    /\ \A j \in h + 1 .. i - 1 : file[j].kind # "header"

(* Line i sets s.                                                          *)
Sets(i, s) ==
  /\ file[i].kind = "assignment"
  /\ file[i].key = s.key
  /\ Accepts(s, file[i].val)
  /\ InSection(i, s.section)

(* What the file says, whatever stands between: the last line that sets a  *)
(* setting in a section of its own decides, a malformed value or a lost    *)
(* header before or after it does not, and a setting no line sets keeps    *)
(* its default.                                                            *)
LastSettingWins ==
  \A s \in Known :
    \/ /\ out[s] = "default"
       /\ \A i \in DOMAIN file : ~ Sets(i, s)
    \/ \E i \in DOMAIN file :
         /\ Sets(i, s) /\ out[s] = file[i].val
         /\ \A j \in i + 1 .. Len(file) : ~ Sets(j, s)
=============================================================================
