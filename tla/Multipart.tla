----------------------------- MODULE Multipart -----------------------------
(***************************************************************************)
(* MPFD::Parser fed with the chunks of a form (Parser.cpp): the caller may *)
(* cut the body anywhere, inside a boundary, a line end or the headers.    *)
(***************************************************************************)
EXTENDS MultipartOps

CONSTANTS
    Forms,          \* forms: sequences of parts [header, content]
    MaxLength       \* MaxDataCollectorLength

FormsAssumption == Forms \subseteq Seq(FormPart) /\ MaxLength \in Nat

VARIABLES
    parser,         \* MPFD::Parser
    form,           \* the form that is sent
    fed             \* history: how many bytes the parser was given

vars == <<parser, form, fed>>
-----------------------------------------------------------------------------
Init ==
    /\ form \in Forms
    /\ parser = NewParser
    /\ fed = 0

\* One call; the caller gives up after an exception.
AcceptSomeData ==
    /\ parser.status # Thrown
    /\ \E n \in 1 .. (Len(Body(form)) - fed) :
           /\ parser' = Accept(parser, SubSeq(Body(form), fed + 1, fed + n), MaxLength)
           /\ fed' = fed + n
    /\ UNCHANGED form

Next == AcceptSomeData

Spec == Init /\ [][Next]_vars
-----------------------------------------------------------------------------
(* Properties.                                                             *)

AtOnce == Accept(NewParser, Take(Body(form), fed), fed)

\* How the body is cut does not show: after any chunks the parser is as it
\* would be had it been given the same bytes in one call (Parser.cpp,
\* ProcessContentOfTheField keeps what may be the beginning of a boundary).
ChunksInvisible ==
    /\ parser.status # Thrown => parser = AtOnce
    /\ AtOnce.status = Thrown => parser.status = Thrown

\* A well-formed form has been read, when all of it was taken, with the
\* content of every field byte by byte: nothing of the line ends around it,
\* and nothing missing that looks like a line end or part of a boundary.  It
\* is refused only when more was held back than the limit on the collector
\* allows.
FormRead ==
    WellFormed(form) =>
        /\ parser.status = Thrown => Len(parser.data) > MaxLength
        /\ parser.status # Thrown /\ fed = Len(Body(form)) => parser.fields = Fields(form)
=============================================================================
