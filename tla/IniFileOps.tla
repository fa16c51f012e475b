----------------------------- MODULE IniFileOps -----------------------------
(***************************************************************************)
(* CIniFile as an object (xIniFile.cpp): what its lookups find and what    *)
(* its changes leave.  A section is found by the first name that matches,  *)
(* AddKeyName appends one without looking, and ReadFile adds to what is    *)
(* there.  A file is a sequence of lines, already told apart by their      *)
(* first special character.                                                *)
(***************************************************************************)
EXTENDS Integers, Sequences, FiniteSets, SequencesExt

CONSTANTS
    Sections,      \* section names ("keynames" in the code)
    ValueNames,    \* names of values
    CheckCase      \* the name in lower case, of each name

ASSUME IniAssumption ==
    CheckCase \in [Sections \cup ValueNames -> Sections \cup ValueNames]

Empty == [sections |-> <<>>, comments |-> <<>>]

Section(s) == [name |-> s, values |-> <<>>, comments |-> <<>>]

SectionLine(s) == [kind |-> "section", name |-> s, text |-> ""]
ValueLine(n, v) == [kind |-> "value", name |-> n, text |-> v]
CommentLine(c) == [kind |-> "comment", name |-> "", text |-> c]
BlankLine == [kind |-> "blank", name |-> "", text |-> ""]
BinaryLine == [kind |-> "binary", name |-> "", text |-> ""]   \* !isprint(line[0])

noID == 0
-----------------------------------------------------------------------------
(* Lookups.                                                                *)

\* The first index of a sequence whose name matches, or noID.
FirstNamed(seq, n) ==
    LET S == {i \in DOMAIN seq : CheckCase[seq[i].name] = CheckCase[n]}
    IN  IF S = {} THEN noID ELSE CHOOSE i \in S : \A j \in S : i <= j

FindKey(x, s) == FirstNamed(x.sections, s)

FindValue(x, keyID, n) == FirstNamed(x.sections[keyID].values, n)

GetValue(x, s, n, def) ==
    LET keyID == FindKey(x, s)
    IN  IF keyID = noID THEN def
        ELSE LET valueID == FindValue(x, keyID, n)
             IN  IF valueID = noID THEN def
                 ELSE x.sections[keyID].values[valueID].value
-----------------------------------------------------------------------------
(* Faulty variants of the operations.                                      *)

\* SetValue that compares the names as they are written.
SetValueExactCase(x, s, n, v) ==
    LET found == {i \in DOMAIN x.sections : x.sections[i].name = s}
        y == IF found = {} THEN [x EXCEPT !.sections = Append(@, Section(s))] ELSE x
        keyID == CHOOSE i \in DOMAIN y.sections : y.sections[i].name = s
        same  == {i \in DOMAIN y.sections[keyID].values :
                      y.sections[keyID].values[i].name = n}
    IN  IF same = {}
        THEN [y EXCEPT !.sections[keyID].values = Append(@, [name |-> n, value |-> v])]
        ELSE [y EXCEPT !.sections[keyID].values[CHOOSE i \in same : TRUE].value = v]

-----------------------------------------------------------------------------
(* Changes of the object.                                                  *)

AddKeyName(x, s) == [x EXCEPT !.sections = Append(@, Section(s))]

\* SetValue with create: the section and the value are made when missing.
SetValue(x, s, n, v) ==
    LET y == IF FindKey(x, s) = noID THEN AddKeyName(x, s) ELSE x
        keyID   == FindKey(y, s)
        valueID == FindValue(y, keyID, n)
    IN  IF valueID = noID
        THEN [y EXCEPT !.sections[keyID].values = Append(@, [name |-> n, value |-> v])]
        ELSE [y EXCEPT !.sections[keyID].values[valueID].value = v]

HeaderComment(x, c) == [x EXCEPT !.comments = Append(@, c)]

KeyComment(x, s, c) ==
    LET keyID == FindKey(x, s)
    IN  IF keyID = noID THEN x
        ELSE [x EXCEPT !.sections[keyID].comments = Append(@, c)]

\* ReadFile that stays in the section it was in.
ReadLineStaysIn(st, line) ==
    CASE st.failed \/ line.kind = "blank" -> st
      [] ~st.failed /\ line.kind = "binary" -> [st EXCEPT !.failed = TRUE]
      [] ~st.failed /\ line.kind = "section" ->
            [st EXCEPT !.ini = AddKeyName(@, line.name),
                       !.keyname = IF @ = "" THEN line.name ELSE @]
      [] ~st.failed /\ line.kind = "value" ->
            [st EXCEPT !.ini = SetValue(@, st.keyname, line.name, line.text)]
      [] ~st.failed /\ line.kind = "comment" -> st

\* ReadFile on one line.  Its state is the object, the section it is in, and
\* whether it met a line that does not begin with a printable character.
ReadLine(st, line) ==
    CASE st.failed \/ line.kind = "blank" -> st
      [] ~st.failed /\ line.kind = "binary" -> [st EXCEPT !.failed = TRUE]
      [] ~st.failed /\ line.kind = "section" ->
            [st EXCEPT !.ini = AddKeyName(@, line.name), !.keyname = line.name]
      [] ~st.failed /\ line.kind = "value" ->
            [st EXCEPT !.ini = SetValue(@, st.keyname, line.name, line.text)]
      [] ~st.failed /\ line.kind = "comment" ->
            [st EXCEPT !.ini = IF @.sections = <<>> THEN HeaderComment(@, line.text)
                               ELSE KeyComment(@, st.keyname, line.text)]

\* ReadFile on all lines, from a state on.
ReadLines(start, lines) ==
    LET st[i \in 0 .. Len(lines)] ==
            IF i = 0 THEN start ELSE ReadLine(st[i - 1], lines[i])
    IN  st[Len(lines)]

\* keyname is empty before the first section.
Read(x, lines) == ReadLines([ini |-> x, keyname |-> "", failed |-> FALSE], lines)

\* The lines WriteFile writes.
SectionLines(k) ==
    <<SectionLine(k.name)>>
        \o [i \in DOMAIN k.comments |-> CommentLine(k.comments[i])]
        \o [i \in DOMAIN k.values |-> ValueLine(k.values[i].name, k.values[i].value)]
        \o <<BlankLine>>

HeaderLines(x) ==
    [i \in DOMAIN x.comments |-> CommentLine(x.comments[i])]
        \o (IF x.comments = <<>> THEN <<>> ELSE <<BlankLine>>)

Lines(x) ==
    LET upTo[i \in 0 .. Len(x.sections)] ==
            IF i = 0 THEN HeaderLines(x) ELSE upTo[i - 1] \o SectionLines(x.sections[i])
    IN  upTo[Len(x.sections)]
=============================================================================
