---------------------------- MODULE MultipartOps ----------------------------
(***************************************************************************)
(* MPFD::Parser as an object (Parser.cpp, Field.cpp), with the files of a  *)
(* form kept in memory.  A body is a sequence of symbols: bytes, and one   *)
(* symbol for each Content-Disposition line, which FieldOf reads.          *)
(***************************************************************************)
EXTENDS Integers, Sequences, FiniteSets, SequencesExt

CONSTANTS
    Symbols,        \* the symbols of bodies
    CR, LF, NUL,    \* bytes with a meaning
    Boundary,       \* "--" and the boundary of the Content-Type
    FieldOf         \* Content-Disposition line -> [name, type]

BoundaryAssumption ==
    /\ {CR, LF, NUL, "-"} \cup DOMAIN FieldOf \subseteq Symbols
    /\ CR # LF /\ NUL \notin {CR, LF} /\ "-" \notin {CR, LF}
    /\ {CR, LF, NUL} \cap DOMAIN FieldOf = {}
    /\ Boundary \in Seq(Symbols) /\ Boundary # <<>>
    /\ \A i \in DOMAIN Boundary : Boundary[i] \notin {CR, LF}
    /\ \A h \in DOMAIN FieldOf : /\ FieldOf[h].name \in Nat
                                 /\ FieldOf[h].type \in {"text", "file"}

\* The parts that forms are made of.
FormPart == [header : Symbols, content : Seq(Symbols)]

\* The status of the parser; "thrown" after an exception.
LookingForStartingBoundary == "LookingForStartingBoundary"
ProcessingHeaders == "ProcessingHeaders"
ProcessingContentOfTheField == "ProcessingContentOfTheField"
Thrown == "thrown"

\* The parser after SetContentType.
NewParser == [status |-> LookingForStartingBoundary, data |-> <<>>,
              fields |-> <<>>, name |-> 0]

Drop(seq, n) == SubSeq(seq, n + 1, Len(seq))
Take(seq, n) == SubSeq(seq, 1, n)

\* The offset of the first occurrence of pat in data, or -1.
Position(data, pat) ==
    LET S == {i \in 0 .. (Len(data) - Len(pat)) :
                  SubSeq(data, i + 1, i + Len(pat)) = pat}
    IN  IF S = {} THEN -1 ELSE CHOOSE i \in S : \A j \in S : i <= j

BoundaryPosition(data) == Position(data, Boundary)

TruncateDataCollector(p, n) == [p EXCEPT !.data = Drop(@, n)]

\* A C string ends at the first NUL.
CString(data) ==
    LET n == Position(data, <<NUL>>) IN IF n < 0 THEN data ELSE Take(data, n)
-----------------------------------------------------------------------------
(* A faulty variant of a step of the parser.                               *)

\* ProcessContentOfTheField that saves no room for the line end in front of
\* a boundary that has not arrived yet.
ProcessContentSavesLess(p) ==
    LET at == BoundaryPosition(p.data)
        n  == IF at >= 0 THEN at - 2 ELSE Len(p.data) - Len(Boundary)
    IN  [p EXCEPT !.fields[p.name].content =
                      IF n > 0 THEN @ \o Take(p.data, n) ELSE @,
                  !.data = IF n > 0 THEN Drop(@, n) ELSE @,
                  !.status = IF at >= 0 THEN LookingForStartingBoundary ELSE @]
-----------------------------------------------------------------------------
(* The steps of _ProcessData.                                              *)

FindStartingBoundary(p) ==
    LET n == BoundaryPosition(p.data)
    IN  IF n < 0 THEN p
        ELSE [TruncateDataCollector(p, n + Len(Boundary)) EXCEPT
                 !.status = ProcessingHeaders]

\* A field of the same name is replaced.
_ParseHeaders(p, headers) ==
    LET S == {i \in DOMAIN headers : headers[i] \in DOMAIN FieldOf}
    IN  IF S = {} THEN [p EXCEPT !.status = Thrown]
        ELSE LET f == FieldOf[headers[CHOOSE i \in S : \A j \in S : i <= j]]
             IN  [p EXCEPT
                    !.name = f.name,
                    !.fields = [n \in DOMAIN @ \cup {f.name} |->
                        IF n = f.name THEN [type |-> f.type, content |-> <<>>]
                                      ELSE p.fields[n]],
                    !.status = ProcessingContentOfTheField]

WaitForHeadersEndShort(p) ==
    LET i == Position(p.data, <<CR, LF, CR, LF>>)
        q == _ParseHeaders(p, CString(Take(p.data, i)))
    IN  IF i < 0 THEN p
        ELSE IF q.status = Thrown THEN q ELSE TruncateDataCollector(q, i + 2)

WaitForHeadersEnd(p) ==
    LET i == Position(p.data, <<CR, LF, CR, LF>>)
        q == _ParseHeaders(p, CString(Take(p.data, i)))
    IN  IF i < 0 THEN p
        ELSE IF q.status = Thrown THEN q ELSE TruncateDataCollector(q, i + 4)

\* Field::AcceptSomeData, for a text and for a file that is kept in memory.
FieldAccept(content, data) == content \o data

\* The two bytes in front of a boundary are its line end; without a boundary
\* as much is kept as could be the beginning of one.
ProcessContentOfTheField(p) ==
    LET at == BoundaryPosition(p.data)
        n  == IF at >= 0 THEN at - 2 ELSE Len(p.data) - (Len(Boundary) + 2)
    IN  [p EXCEPT !.fields[p.name].content =
                      IF n > 0 THEN FieldAccept(@, Take(p.data, n)) ELSE @,
                  !.data = IF n > 0 THEN Drop(@, n) ELSE @,
                  !.status = IF at >= 0 THEN LookingForStartingBoundary ELSE @]

\* One round of the loop.
Process(p) ==
    CASE p.status = LookingForStartingBoundary  -> FindStartingBoundary(p)
      [] p.status = ProcessingHeaders           -> WaitForHeadersEnd(p)
      [] p.status = ProcessingContentOfTheField -> ProcessContentOfTheField(p)
      [] p.status = Thrown                      -> p

Round(s) ==
    IF ~s.NeedToRepeat THEN s
    ELSE LET q == Process(s.parser)
         IN  [parser |-> q, NeedToRepeat |-> q.status # s.parser.status]

\* The loop ends: three rounds that each need another take off a boundary.
Rounds(p) == 3 * Len(p.data) + 3

_ProcessData(p) ==
    LET st[i \in 0 .. Rounds(p)] ==
            IF i = 0 THEN [parser |-> p, NeedToRepeat |-> TRUE] ELSE Round(st[i - 1])
    IN  st[Rounds(p)].parser

\* AcceptSomeData, with MaxDataCollectorLength.
Accept(p, data, max) ==
    LET q == [p EXCEPT !.data = @ \o data]
    IN  IF Len(q.data) > max THEN [q EXCEPT !.status = Thrown] ELSE _ProcessData(q)
-----------------------------------------------------------------------------
(* What a client sends (RFC 2388) and what it means by it.  A form is a    *)
(* sequence of parts [header, content].                                    *)

Part(x) == Boundary \o <<CR, LF, x.header, CR, LF, CR, LF>> \o x.content \o <<CR, LF>>

PartsUpTo(f) ==
    LET upTo[i \in 0 .. Len(f)] == IF i = 0 THEN <<>> ELSE upTo[i - 1] \o Part(f[i])
    IN  upTo

Body(f) == PartsUpTo(f)[Len(f)] \o Boundary \o <<"-", "-", CR, LF>>

WellFormed(f) == \A i \in DOMAIN f : /\ f[i].header \in DOMAIN FieldOf
                                     /\ BoundaryPosition(f[i].content) < 0

\* The parts of the form under their names; the last one of a name counts.
Fields(f) ==
    LET Name(i) == FieldOf[f[i].header].name
        LastOf(n) == CHOOSE i \in DOMAIN f :
                       Name(i) = n /\ \A j \in DOMAIN f : Name(j) = n => j <= i
    IN  [n \in {Name(i) : i \in DOMAIN f} |->
            [type |-> FieldOf[f[LastOf(n)].header].type, content |-> f[LastOf(n)].content]]
=============================================================================
