------------------------------ MODULE Backend ------------------------------
(***************************************************************************)
(* The back-end HTTP server (xevHtpdBackend.cpp): REST reads and writes on *)
(* two databases behind one password.  Every request makes at most one     *)
(* RocksDB call, so that a request is one step; the call may fail.         *)
(***************************************************************************)
EXTENDS MultipartOps, FiniteSetsExt

CONSTANTS
    Keys,                  \* names of rows, in their order; 0 is the empty one
    Route,                 \* the callback of the path of each key
    Requests,              \* requests that clients make
    encode_pass,           \* is a password configured?
    max_upload_file_size,  \* bound on the body of a form
    MaxFaults              \* bound: the RocksDB calls that fail

BackendAssumption ==
    /\ Keys \subseteq Nat /\ 0 \in Keys
    /\ Route \in [Keys -> {"rest", "admin", "scan", "statistics", "config"}]
    /\ encode_pass \in BOOLEAN
    /\ max_upload_file_size \in Nat /\ MaxFaults \in Nat
    /\ \A r \in Requests :
           /\ r.key \in Keys /\ r.start \in Nat /\ r.limit \in Nat
           /\ r.upload.form \in BOOLEAN /\ r.upload.bytes \in Seq(Symbols)
           /\ r.upload.parts \in Seq(FormPart)

VARIABLES
    rows,      \* the k rows of both databases
    reply,     \* the last request and the answer to it
    faults,    \* the calls that failed
    acked      \* history: the rows that clients were told there are

vars == <<rows, reply, faults, acked>>

Databases == {"xdb", "sysdb"}
None == <<>>        \* no rows, the body of a reply without one

\* Changes of a table of rows.
WithRow(t, k, v) == [n \in DOMAIN t \cup {k} |-> IF n = k THEN v ELSE t[n]]
WithoutRow(t, k) == [n \in DOMAIN t \ {k} |-> t[n]]

\* An upload is [form, bytes], or [form, parts] when it is a form.
Bytes(u) == IF u.form THEN Body(u.parts) ELSE u.bytes

FileFields(fields) == {n \in DOMAIN fields : fields[n].type = "file"}

\* What the client wants to store: the bytes, or the file of the form.
Meant(u) == IF u.form THEN LET f == Fields(u.parts) IN f[Min(FileFields(f))].content
                      ELSE u.bytes

\* The keys of S in order: the i-th has i - 1 keys of S before it.
Ascending(S) ==
    [i \in 1 .. Cardinality(S) |-> CHOOSE k \in S : Cardinality({j \in S : j < k}) = i - 1]

\* Who may ask, and for the rows of which database.
Authorised(r) == encode_pass => r.auth = "right"
Addressed(r) == IF Route[r.key] = "admin" \/ r.db = "xdb" THEN "sysdb" ELSE "xdb"
-----------------------------------------------------------------------------
(* Faulty variants of the operations.                                      *)

\* RESTCallback that uses xdb whatever the query says.
DatabaseAlways(r) == "xdb"

\* ScanKey that starts behind the first key.
ScanKeyBehind(t, start, limit) ==
    LET S == {k \in DOMAIN t : k > start}
    IN  Take(Ascending(S), Min({limit, Cardinality(S)}))
-----------------------------------------------------------------------------
(* Helpers of the callbacks.                                               *)

\* CheckAuth; the header is "none", "other" (not Basic), "wrong" or "right".
CheckSession(r) == ~encode_pass \/ r.auth = "right"

\* The database of a request, from its argument db.
Database(r) == IF r.db = "xdb" THEN "sysdb" ELSE "xdb"

\* The file of a form that the parser takes; otherwise filedata stays empty.
ParasrMultipartPost(bytes) ==
    LET p == Accept(NewParser, bytes, max_upload_file_size)
        F == FileFields(p.fields)
    IN  IF p.status = Thrown \/ F = {} THEN <<>> ELSE p.fields[Min(F)].content

\* The value that a POST or PUT stores.
Value(u) == IF u.form THEN ParasrMultipartPost(Bytes(u)) ELSE CString(Bytes(u))

\* xDataBase::ScanKey
ScanKey(t, start, limit) ==
    LET S == {k \in DOMAIN t : k >= start}
    IN  Take(Ascending(S), Min({limit, Cardinality(S)}))

\* The RocksDB call of a request fails, or not.
Meets(fails) == /\ faults' = IF fails THEN faults + 1 ELSE faults
                /\ faults' <= MaxFaults

\* The rows after an answer, as the client who asked sees them.
Believes(r, status) ==
    LET db == Addressed(r)
    IN  IF ~Authorised(r) THEN acked
        ELSE CASE status = "OK" /\ r.method \in {"POST", "PUT"} ->
                      [acked EXCEPT ![db] = WithRow(@, r.key, Meant(r.upload))]
               [] status = "ACCEPTED" -> [acked EXCEPT ![db] = WithoutRow(@, r.key)]
               [] OTHER -> acked

SendReply(r, fails, status, body) ==
    /\ reply' = [request |-> r, failed |-> fails, status |-> status, body |-> body]
    /\ acked' = Believes(r, status)
-----------------------------------------------------------------------------
(* RESTfulPro, on the database db.                                         *)

RestGet(r, db, fails) ==
    /\ r.method = "GET"
    /\ IF ~fails /\ r.key \notin DOMAIN rows[db]
       THEN SendReply(r, fails, "NOTFOUND", None)
       ELSE SendReply(r, fails, "OK", IF fails THEN None ELSE rows[db][r.key])
    /\ UNCHANGED rows

RestPut(r, db, fails) ==
    /\ r.method \in {"POST", "PUT"}
    /\ IF fails
       THEN /\ SendReply(r, fails, "SERVERR", None)
            /\ UNCHANGED rows
       ELSE /\ rows' = [rows EXCEPT ![db] = WithRow(@, r.key, Value(r.upload))]
            /\ SendReply(r, fails, "OK", None)

\* Deleting a row that is not there is no error.
RestDelete(r, db, fails) ==
    /\ r.method = "DELETE"
    /\ IF fails
       THEN /\ SendReply(r, fails, "NOTFOUND", None)
            /\ UNCHANGED rows
       ELSE /\ rows' = [rows EXCEPT ![db] = WithoutRow(@, r.key)]
            /\ SendReply(r, fails, "ACCEPTED", None)

RestOther(r, db, fails) ==
    /\ r.method \notin {"GET", "POST", "PUT", "DELETE"}
    /\ ~fails
    /\ SendReply(r, fails, "BADREQ", None)
    /\ UNCHANGED rows

RESTfulPro(r, db, fails) ==
    \/ RestGet(r, db, fails)
    \/ RestPut(r, db, fails)
    \/ RestDelete(r, db, fails)
    \/ RestOther(r, db, fails)
-----------------------------------------------------------------------------
(* The callbacks.                                                          *)

Unauthorised(r) ==
    /\ ~CheckSession(r)
    /\ SendReply(r, FALSE, "UNAUTH", None)
    /\ UNCHANGED <<rows, faults>>

EmptyPath(r) ==
    /\ CheckSession(r) /\ Route[r.key] = "rest" /\ r.key = 0
    /\ SendReply(r, FALSE, "NOTFOUND", None)
    /\ UNCHANGED <<rows, faults>>

RESTCallback(r) ==
    /\ CheckSession(r) /\ Route[r.key] = "rest" /\ r.key # 0
    /\ \E fails \in BOOLEAN : Meets(fails) /\ RESTfulPro(r, Database(r), fails)

AdminShellCallback(r) ==
    /\ CheckSession(r) /\ Route[r.key] = "admin"
    /\ \E fails \in BOOLEAN : Meets(fails) /\ RESTfulPro(r, "sysdb", fails)

\* Neither of these looks at the method of the request.
StatisticsCallback(r) ==
    /\ CheckSession(r) /\ Route[r.key] = "statistics"
    /\ SendReply(r, FALSE, "OK", None)
    /\ UNCHANGED <<rows, faults>>

ConfigCallback(r) ==
    /\ CheckSession(r) /\ Route[r.key] = "config"
    /\ SendReply(r, FALSE, "OK", None)
    /\ UNCHANGED <<rows, faults>>

\* The branch for a failing scan asks for a negative result; db_err is 1.
KeyScanCallback(r) ==
    /\ CheckSession(r) /\ Route[r.key] = "scan"
    /\ \E fails \in BOOLEAN :
           /\ Meets(fails)
           /\ SendReply(r, fails, "OK",
                  IF fails THEN None ELSE ScanKey(rows[Database(r)], r.start, r.limit))
    /\ UNCHANGED rows
-----------------------------------------------------------------------------
NoReply == [request |-> None, failed |-> FALSE, status |-> "none", body |-> None]

Init ==
    /\ rows = [db \in Databases |-> None]
    /\ acked = [db \in Databases |-> None]
    /\ reply = NoReply
    /\ faults = 0

Next == \E r \in Requests :
    \/ Unauthorised(r)
    \/ EmptyPath(r)
    \/ RESTCallback(r)
    \/ AdminShellCallback(r)
    \/ StatisticsCallback(r)
    \/ ConfigCallback(r)
    \/ KeyScanCallback(r)

Spec == Init /\ [][Next]_vars
-----------------------------------------------------------------------------
(* Properties.                                                             *)

\* The server can store an upload as it is meant: a form with a file that is
\* not too long, or bytes without a NUL, which would end the string.
Storable(u) ==
    IF u.form THEN /\ WellFormed(u.parts) /\ FileFields(Fields(u.parts)) # {}
                   /\ Len(Body(u.parts)) <= max_upload_file_size
              ELSE \A i \in DOMAIN u.bytes : u.bytes[i] # NUL

\* Writes are such uploads, to paths under which there are rows.
StorableRequests == \A r \in Requests :
    r.method \in {"POST", "PUT"} => Storable(r.upload) /\ Route[r.key] \in {"rest", "admin"}

\* The databases hold what the clients were told, byte by byte: a write that
\* was answered with OK is there in the database it was addressed to, one
\* that was refused or failed has changed nothing, and so for deletions
\* (RESTfulPro, CheckSession, the choice of the database in RESTCallback).
AckedIsKept == rows = acked

\* A read that met no failing call tells what clients were told before: the
\* value under the key, and for a scan the first keys from its start on.
ReadsAcked ==
    LET r  == reply.request
        t  == acked[Addressed(r)]
        S  == {k \in DOMAIN t : k >= r.start}
    IN  (reply.status \in {"OK", "NOTFOUND"} /\ ~reply.failed /\ r.method = "GET") =>
            /\ (Route[r.key] \in {"rest", "admin"} /\ r.key # 0)
                   => IF reply.status = "OK" THEN /\ r.key \in DOMAIN t
                                                  /\ reply.body = t[r.key]
                                             ELSE r.key \notin DOMAIN t
            /\ Route[r.key] = "scan" =>
                   /\ ToSet(reply.body) \subseteq S
                   /\ \A k \in S : \/ k \in ToSet(reply.body)
                                   \/ /\ Len(reply.body) = r.limit
                                      /\ \A i \in 1 .. Len(reply.body) : reply.body[i] < k
=============================================================================
