------------------------------ MODULE IniFile ------------------------------
(***************************************************************************)
(* The calls of CIniFile (xIniFile.h) in any order, on one object and the  *)
(* file at its path.  What they return is left out: the program uses only  *)
(* the result of ReadFile, which is in Startup.                            *)
(***************************************************************************)
EXTENDS IniFileOps

CONSTANTS
    Values,        \* contents of values, and texts of comments
    UserFiles,     \* bound: the files a user may supply
    MaxSections,   \* bound: the sections in memory
    MaxCalls       \* bound: the calls made on the object

FileLine == [kind : {"section", "value", "comment", "blank", "binary"},
             name : Sections \cup ValueNames, text : Values \cup {""}]

CallsAssumption ==
    /\ MaxSections \in Nat /\ MaxCalls \in Nat
    /\ "" \in Sections /\ UserFiles \subseteq Seq(FileLine)

VARIABLES
    ini,           \* the names, keys and comments of the object
    file,          \* the lines of the file at path
    calls          \* the calls so far

vars == <<ini, file, calls>>
-----------------------------------------------------------------------------
(* The calls.                                                              *)

ReadFile ==
    LET st == Read(ini, file)
    IN  /\ Len(st.ini.sections) <= MaxSections
        /\ Len(st.ini.comments) <= 1
        /\ ini' = st.ini
        /\ UNCHANGED file

WriteFile ==
    /\ file' = Lines(ini)
    /\ UNCHANGED ini

\* The user edits the file.
Edit ==
    /\ file' \in UserFiles
    /\ UNCHANGED ini

CallSetValue(s, n, v, create) ==
    LET keyID == FindKey(ini, s)
        there == keyID # noID /\ FindValue(ini, keyID, n) # noID
    IN  /\ create /\ keyID = noID => Len(ini.sections) < MaxSections
        /\ ini' = IF create \/ there THEN SetValue(ini, s, n, v) ELSE ini
        /\ UNCHANGED file

\* SetValueI and SetValueF do not pass create on.
CallSetValueI(s, n, v) ==
    /\ FindKey(ini, s) = noID => Len(ini.sections) < MaxSections
    /\ ini' = SetValue(ini, s, n, v)
    /\ UNCHANGED file

\* SetValue by the indices of section and value.
CallSetValueID(keyID, valueID, v) ==
    /\ ini' = IF keyID \in DOMAIN ini.sections
                  /\ valueID \in DOMAIN ini.sections[keyID].values
              THEN [ini EXCEPT !.sections[keyID].values[valueID].value = v] ELSE ini
    /\ UNCHANGED file

CallAddKeyName(s) ==
    /\ Len(ini.sections) < MaxSections
    /\ ini' = AddKeyName(ini, s)
    /\ UNCHANGED file

DeleteValue(s, n) ==
    LET keyID == FindKey(ini, s)
        valueID == IF keyID = noID THEN noID ELSE FindValue(ini, keyID, n)
    IN  /\ ini' = IF valueID = noID THEN ini
                  ELSE [ini EXCEPT !.sections[keyID].values = RemoveAt(@, valueID)]
        /\ UNCHANGED file

DeleteKey(s) ==
    LET keyID == FindKey(ini, s)
    IN  /\ ini' = IF keyID = noID THEN ini
                  ELSE [ini EXCEPT !.sections = RemoveAt(@, keyID)]
        /\ UNCHANGED file

CallHeaderComment(c) ==
    /\ ini.comments = <<>>
    /\ ini' = HeaderComment(ini, c)
    /\ UNCHANGED file

DeleteHeaderComment ==
    /\ ini' = [ini EXCEPT !.comments = IF @ = <<>> THEN @ ELSE Tail(@)]
    /\ UNCHANGED file

CallKeyComment(s, c) ==
    LET keyID == FindKey(ini, s)
    IN  /\ keyID # noID => ini.sections[keyID].comments = <<>>
        /\ ini' = KeyComment(ini, s, c)
        /\ UNCHANGED file

DeleteKeyComments(s) ==
    LET keyID == FindKey(ini, s)
    IN  /\ ini' = IF keyID = noID THEN ini
                  ELSE [ini EXCEPT !.sections[keyID].comments = <<>>]
        /\ UNCHANGED file

Erase ==
    /\ ini' = Empty
    /\ UNCHANGED file

Init ==
    /\ ini = Empty
    /\ file \in UserFiles
    /\ calls = 0

Call ==
    \/ ReadFile \/ WriteFile \/ Edit \/ Erase \/ DeleteHeaderComment
    \/ \E c \in Values : CallHeaderComment(c)
    \/ \E s \in Sections :
        \/ CallAddKeyName(s) \/ DeleteKey(s) \/ DeleteKeyComments(s)
        \/ \E c \in Values : CallKeyComment(s, c)
        \/ \E n \in ValueNames : DeleteValue(s, n)
        \/ \E n \in ValueNames, v \in Values :
            CallSetValueI(s, n, v) \/ \E create \in BOOLEAN : CallSetValue(s, n, v, create)
    \/ \E keyID \in 1 .. MaxSections, valueID \in 1 .. Cardinality(ValueNames), v \in Values :
        CallSetValueID(keyID, valueID, v)

Next == calls < MaxCalls /\ calls' = calls + 1 /\ Call

Spec == Init /\ [][Next]_vars
-----------------------------------------------------------------------------
Looked(x) == [s \in Sections |-> [n \in ValueNames |-> GetValue(x, s, n, "")]]

(***************************************************************************)
(* Writing the file and reading it into a new object gives the same value  *)
(* for every name, in whatever order sections were added twice, values     *)
(* changed and sections deleted before.                                    *)
(***************************************************************************)
RoundTrip ==
    LET st == Read(Empty, Lines(ini))
    IN  ~st.failed /\ Looked(st.ini) = Looked(ini)

(***************************************************************************)
(* A value is never there twice: no two values of a section have the same  *)
(* name but for case, and of several sections with one name only the first *)
(* has values.  A second one would be shadowed and come back when the      *)
(* first is deleted.                                                       *)
(***************************************************************************)
NothingShadowed ==
    \A i \in DOMAIN ini.sections :
        LET k == ini.sections[i] IN
        /\ k.values # <<>> => FindKey(ini, k.name) = i
        /\ \A j \in DOMAIN k.values : FindValue(ini, i, k.values[j].name) = j
=============================================================================
