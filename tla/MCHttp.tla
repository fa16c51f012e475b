------------------------------- MODULE MCHttp -------------------------------
(***************************************************************************)
(* One model of the HTTP side: the conditional GETs of the frontend        *)
(* (ConditionalGet), the requests of the backend (Backend) and the form    *)
(* parser fed with chunks (Multipart).  They have no state in common: Init *)
(* chooses which part moves and the others stay as they are.               *)
(*                                                                         *)
(* The frontend moves in two parts: two threads whose clients keep dates,  *)
(* beside one writer; and one thread whose client keeps dates and ETags,   *)
(* beside two writers, whose timestamps may arrive out of order, and a     *)
(* read that fails.                                                        *)
(***************************************************************************)
EXTENDS ConditionalGet, TLC

CONSTANTS
    t1, t2, t3, w2,  \* the threads, and the second writer
    PairTime,        \* bound: the clock of the pair of threads stops there
    Symbols, CR, LF, NUL, Boundary, FieldOf,
    Paths, Route, Requests, encode_pass, max_upload_file_size, MaxFaults,
    Forms, MaxLength

VARIABLES
    part,            \* the part that moves
    rows, answer, faults, acked,
    parser, form, fed

backend == <<rows, answer, faults, acked>>
parsing == <<parser, form, fed>>

Rest == INSTANCE Backend WITH Keys <- Paths, reply <- answer
Parsing == INSTANCE Multipart

ASSUME HttpAssumption ==
    /\ FrontendAssumption /\ Rest!BackendAssumption
    /\ Parsing!BoundaryAssumption /\ Parsing!FormsAssumption

\* What the clients of the pair keep, and the single one.
MCValidators == t1 :> {"date"} @@ t2 :> {"date"} @@ t3 :> {"date", "etag"}

\* The clients of the pair do the same.
Pair == Permutations({t1, t2})
-----------------------------------------------------------------------------
(* Requests of the backend.  Paths 1 and 2 are plain rows, 3 is the shell, *)
(* 4 to 6 are the paths of /scan, /statistics and /config.                 *)

MCBoundary == <<"-", "b">>

MCFieldOf == "F" :> [name |-> 2, type |-> "file"] @@ "T" :> [name |-> 1, type |-> "text"]
                 @@ "G" :> [name |-> 2, type |-> "text"]

MCSymbols == {"CR", "LF", "NUL", "-", "b", "x", "F", "T", "G", "?"}

MCRoute == [k \in 0 .. 6 |-> CASE k = 3 -> "admin" [] k = 4 -> "scan"
               [] k = 5 -> "statistics" [] k = 6 -> "config" [] OTHER -> "rest"]

Raw(bytes) == [form |-> FALSE, bytes |-> bytes, parts |-> <<>>]
Form(parts) == [form |-> TRUE, bytes |-> <<>>, parts |-> parts]
File(content) == [header |-> "F", content |-> content]
Text(content) == [header |-> "T", content |-> content]

NoUpload == Raw(<<>>)

Plain == {Raw(<<"x">>), Form(<<File(<<"CR", "NUL">>), Text(<<"x">>)>>)}

RestRequest(k, m, a, db, u, start, limit) ==
    [key |-> k, method |-> m, auth |-> a, db |-> db, upload |-> u,
     start |-> start, limit |-> limit]

Reads == {RestRequest(k, "GET", "right", db, NoUpload, 0, 0) :
              k \in {0, 1, 2, 3, 5, 6}, db \in {"", "xdb"}}
    \cup {RestRequest(4, "GET", "right", db, NoUpload, s, n) :
              db \in {"", "xdb"}, s \in {0, 2}, n \in 0 .. 2}
Writes(K, U, A) ==
    {RestRequest(k, "PUT", a, db, u, 0, 0) : k \in K, a \in A, db \in {"", "xdb"}, u \in U}
    \cup {RestRequest(k, m, a, db, NoUpload, 0, 0) :
              k \in K, m \in {"DELETE", "HEAD"}, a \in A, db \in {"", "xdb"}}

MCRequests == Reads \cup Writes({1}, Plain, {"none", "other", "wrong", "right"})
                   \cup Writes({2, 3}, {Raw(<<"x">>)}, {"wrong", "right"})

\* A raw body with a NUL inside.
BinaryRequests == Writes({1}, {Raw(<<"x", "NUL", "x">>)}, {"right"})

\* All requests but those are for the server to store.
ASSUME RequestsAssumption == Requests = MCRequests => Rest!StorableRequests
-----------------------------------------------------------------------------
(* Forms: contents that look like line ends and parts of a boundary, and   *)
(* up to two fields, of which the second is short.                         *)

FormBytes == {"CR", "LF", "-", "b"}
Parts(H, n) == [header : H, content : UNION {[1 .. m -> FormBytes] : m \in 0 .. n}]

MCForms ==
    {<<x>> : x \in Parts({"F", "T", "?"}, 3)}
        \cup {<<x, y>> : x \in Parts({"F"}, 2), y \in Parts({"T", "G", "?"}, 1)}
-----------------------------------------------------------------------------
MCInit ==
    /\ part \in {"pair", "single", "backend", "parser"}
    /\ Init /\ Rest!Init /\ Parsing!Init
    /\ part # "parser" => form = <<[header |-> "F", content |-> <<>>]>>

\* The pair; the second writer has nothing to put, and no read fails.
PairNext == Next /\ pc'[t3] = "idle" /\ wpc'[w2] = Absent /\ errors' = 0 /\ now' <= PairTime

\* The pair takes no request.
SingleNext == Next /\ pc'[t1] = "idle" /\ pc'[t2] = "idle"

MCNext ==
    /\ UNCHANGED part
    /\ \/ part = "pair"    /\ PairNext     /\ UNCHANGED <<backend, parsing>>
       \/ part = "single"  /\ SingleNext   /\ UNCHANGED <<backend, parsing>>
       \/ part = "backend" /\ Rest!Next    /\ UNCHANGED <<vars, parsing>>
       \/ part = "parser"  /\ Parsing!Next /\ UNCHANGED <<vars, backend>>

MCSpec == MCInit /\ [][MCNext]_<<part, vars, backend, parsing>>
-----------------------------------------------------------------------------
(* The properties of the backend and of the parser, see their modules.     *)

\* The databases hold what the clients of the backend were told.
AckedIsKept == Rest!AckedIsKept

\* A read of the backend tells what clients were told before.
ReadsAcked == Rest!ReadsAcked

\* How the body of a form is cut into chunks does not show in the parser.
ChunksInvisible == part = "parser" => Parsing!ChunksInvisible

\* A well-formed form is read with the content of every field, or refused for
\* the length of what was held back.
FormRead == part = "parser" => Parsing!FormRead
=============================================================================
