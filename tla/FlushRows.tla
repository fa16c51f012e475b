------------------------------ MODULE FlushRows ------------------------------
(***************************************************************************)
(* FLUSHALL and SCAN DEL row by row (xDataBase::Flushall, ProcessCmd_scan).*)
(* ExpireManager takes them as one step; here every row is deleted by a    *)
(* call of its own, while the HTTP backend writes, the expire thread       *)
(* removes keys that are due, calls fail and the process crashes.  The     *)
(* redis thread runs no other command meanwhile; before and after, its     *)
(* commands write a deadline call by call, as the expire thread deletes it.*)
(*                                                                         *)
(* The clock and sort_set are left out.  FLUSHALL does not clear sort_set, *)
(* so the expire thread may find any key due, at any time, that was ever   *)
(* given a deadline: its choice is left open.                              *)
(***************************************************************************)
EXTENDS Naturals, FiniteSets

CONSTANTS
    Keys,          \* keys, in the order of their rows
    Deadlines,     \* deadlines clients ask for
    MaxAsked,      \* bound: different deadlines of keys that clients ask for
    MaxFaults      \* bound: deletions that fail and crashes, together

FlushAssumption ==
    /\ Keys \subseteq Nat \ {0} /\ Deadlines \subseteq Nat \ {0}
    /\ MaxAsked \in Nat /\ MaxFaults \in Nat

VARIABLES
    rows,          \* rows of RocksDB
    rpc,           \* where the redis thread is: "idle", in a deletion, or in Zset,
    arg, rold,     \*   the key and the deadline of its Zset, and old_score
    todo,          \* rows its iterator, or its list, still has
    range,         \* history: rows the deletion is about, less those whose
                   \* Delete failed
    flushed,       \* history: keys of which it has deleted a row of a deadline
    fresh,         \* history: k rows written since it began
    answered,      \* history: range of the deletion just answered
    xpc, x, xold,  \* the expire thread: where it is, its key, old_score in Zdel
    asked,         \* keys with the deadlines asked for: sort_set holds some of them
    faults, crashes

redis == <<rpc, arg, rold>>
expire == <<xpc, x, xold>>
deletion == <<todo, range, flushed, answered>>
vars == <<rows, redis, deletion, fresh, expire, asked, faults, crashes>>

Nothing == 0

\* A row: its kind, its key, and a deadline.  The deadline is part of the key
\* under which RocksDB has a z row, and the value of an s row.
Kinds == {"k", "s", "z"}
Rows == Kinds \X Keys \X (Deadlines \cup {Nothing})

ValueRow(k) == <<"k", k, Nothing>>

SameRow(r, q) == r[1] = q[1] /\ r[2] = q[2] /\ (r[1] = "z" => r[3] = q[3])
Without(R, r) == {q \in R : ~SameRow(q, r)}
With(R, r) == Without(R, r) \cup {r}

TypeOK ==
    /\ rows \subseteq Rows /\ todo \subseteq Rows /\ range \subseteq Rows /\ answered \subseteq Rows
    /\ flushed \subseteq Keys /\ fresh \subseteq Keys /\ asked \subseteq Keys \X Deadlines
    /\ rpc \in {"idle", "flushall", "scandel", "zget", "del_z", "put_z", "put_s"}
    /\ rpc \in {"zget", "del_z", "put_z", "put_s"} => arg \in Keys \X Deadlines
    /\ rpc = "del_z" => rold \in Deadlines
    /\ xpc \in {"idle", "zget", "del_z", "del_s"}
    /\ xpc # "idle" => x \in Keys
    /\ xpc = "del_z" => xold \in Deadlines
    /\ faults \in Nat /\ crashes \in Nat /\ faults + crashes <= MaxFaults
-----------------------------------------------------------------------------
(* Faulty variants of the operations.                                      *)

\* Flushall that does not get to the rows of deadlines.
FlushallRowsValues == {r \in rows : r[1] = "k"}

\* An iterator that shows the rows of deadlines before those of the values.
KindOrderDeadlinesFirst(kind) == CASE kind = "z" -> 1 [] kind = "s" -> 2 [] kind = "k" -> 3
-----------------------------------------------------------------------------
(* The redis thread: SET, SET EX and EXPIRE.                               *)

Set(k) ==
    /\ rpc = "idle"
    /\ rows' = With(rows, ValueRow(k))
    /\ fresh' = fresh \cup {k}
    /\ answered' = {}
    /\ UNCHANGED <<redis, todo, range, flushed, expire, asked, faults, crashes>>

Asks(k, d) ==
    /\ <<k, d>> \in asked \/ Cardinality(asked) < MaxAsked
    /\ asked' = asked \cup {<<k, d>>}

\* Set, then SetTTL and Zset.
SetEx(k, d) ==
    /\ rpc = "idle"
    /\ rows' = With(rows, ValueRow(k))
    /\ fresh' = fresh \cup {k}
    /\ rpc' = "zget" /\ arg' = <<k, d>>
    /\ Asks(k, d)
    /\ answered' = {}
    /\ UNCHANGED <<rold, todo, range, flushed, expire, faults, crashes>>

\* Get, then Zset and SetTTL.
Expire(k, d) ==
    /\ rpc = "idle" /\ ValueRow(k) \in rows
    /\ rpc' = "zget" /\ arg' = <<k, d>>
    /\ Asks(k, d)
    /\ answered' = {}
    /\ UNCHANGED <<rows, rold, todo, range, flushed, fresh, expire, faults, crashes>>

\* The deadlines in the s row of a key: one, or none.
ScoreOf(k) == {d \in Deadlines : <<"s", k, d>> \in rows}

\* The command is answered and its variables are gone.
RedisEnds == rpc' = "idle" /\ arg' = Nothing /\ rold' = Nothing

\* Zset: with the same deadline stored it refuses; it deletes the z row of
\* another one; then it puts the z row and the s row.
Zget ==
    /\ rpc = "zget"
    /\ \/ ScoreOf(arg[1]) = {} /\ rpc' = "put_z" /\ UNCHANGED <<arg, rold>>
       \/ arg[2] \in ScoreOf(arg[1]) /\ RedisEnds
       \/ \E d \in ScoreOf(arg[1]) \ {arg[2]} : rpc' = "del_z" /\ rold' = d /\ UNCHANGED arg
    /\ UNCHANGED <<rows, deletion, fresh, expire, asked, faults, crashes>>

DelZ ==
    /\ rpc = "del_z" /\ rpc' = "put_z"
    /\ rows' = Without(rows, <<"z", arg[1], rold>>)
    /\ UNCHANGED <<arg, rold, deletion, fresh, expire, asked, faults, crashes>>

PutZ ==
    /\ rpc = "put_z" /\ rpc' = "put_s"
    /\ rows' = With(rows, <<"z", arg[1], arg[2]>>)
    /\ UNCHANGED <<arg, rold, deletion, fresh, expire, asked, faults, crashes>>

PutS ==
    /\ rpc = "put_s" /\ RedisEnds
    /\ rows' = With(rows, <<"s", arg[1], arg[2]>>)
    /\ UNCHANGED <<deletion, fresh, expire, asked, faults, crashes>>
-----------------------------------------------------------------------------
(* The redis thread: FLUSHALL and SCAN DEL.                                *)

Deleting == rpc \in {"flushall", "scandel"}

\* What the iterator of Flushall shows: a snapshot of all rows.
FlushallRows == rows

\* ScanKey lists the k rows of a range before the first one is deleted.
Scanned(lo, hi) == {ValueRow(k) : k \in {k \in Keys : lo <= k /\ k < hi}}

\* The order of the encoded rows: by the flag of their kind, then by deadline
\* and key for z rows, by key for the others.
KindOrder(kind) == CASE kind = "k" -> 1 [] kind = "s" -> 2 [] kind = "z" -> 3

Before(r, q) ==
    \/ KindOrder(r[1]) < KindOrder(q[1])
    \/ /\ r[1] = q[1]
       /\ IF r[1] = "z" THEN r[3] < q[3] \/ (r[3] = q[3] /\ r[2] < q[2]) ELSE r[2] < q[2]

Begin(c, R, S) ==
    /\ rpc = "idle" /\ rpc' = c
    /\ todo' = R
    /\ range' = S
    /\ flushed' = {} /\ fresh' = {} /\ answered' = {}
    /\ UNCHANGED <<rows, arg, rold, expire, asked, faults, crashes>>

Flushall == Begin("flushall", FlushallRows, Rows)

ScanDel == \E lo, hi \in Keys :
    Begin("scandel", rows \cap Scanned(lo, hi), Scanned(lo, hi))

\* One Delete; an error is logged by Flushall and ignored by SCAN DEL.
DeleteNext(fails) ==
    /\ Deleting
    /\ fails => faults + crashes < MaxFaults
    /\ \E r \in todo :
        /\ \A q \in todo \ {r} : Before(r, q)
        /\ todo' = todo \ {r}
        /\ rows' = IF fails THEN rows ELSE Without(rows, r)
        /\ range' = IF fails THEN Without(range, r) ELSE range
        /\ flushed' = IF fails \/ r[1] = "k" THEN flushed ELSE flushed \cup {r[2]}
        /\ fresh' = IF fails \/ r[1] # "k" THEN fresh ELSE fresh \ {r[2]}
    /\ faults' = IF fails THEN faults + 1 ELSE faults
    /\ UNCHANGED <<redis, answered, expire, asked, crashes>>

\* OK, or the number of keys found.
Answer ==
    /\ Deleting /\ todo = {}
    /\ rpc' = "idle" /\ answered' = range
    /\ UNCHANGED <<rows, arg, rold, todo, range, flushed, fresh, expire, asked, faults, crashes>>
-----------------------------------------------------------------------------
(* The other threads.                                                      *)

BackendPut(k) ==
    /\ rows' = With(rows, ValueRow(k))
    /\ fresh' = fresh \cup {k}
    /\ UNCHANGED <<redis, deletion, expire, asked, faults, crashes>>

BackendDelete(k) ==
    /\ rows' = Without(rows, ValueRow(k))
    /\ fresh' = fresh \ {k}
    /\ UNCHANGED <<redis, deletion, expire, asked, faults, crashes>>

\* ExpireLoop with a key of sort_set that is due: Del, then Zdel, which reads
\* the s row and deletes the z row and the s row.
XDel(k) ==
    /\ xpc = "idle" /\ \E d \in Deadlines : <<k, d>> \in asked
    /\ rows' = Without(rows, ValueRow(k))
    /\ fresh' = fresh \ {k}
    /\ xpc' = "zget" /\ x' = k
    /\ UNCHANGED <<redis, deletion, xold, asked, faults, crashes>>

\* ExpireLoop ends.
ExpireEnds == xpc' = "idle" /\ x' = Nothing /\ xold' = Nothing

XZget ==
    /\ xpc = "zget"
    /\ \/ ScoreOf(x) = {} /\ ExpireEnds
       \/ \E d \in ScoreOf(x) : xpc' = "del_z" /\ xold' = d /\ UNCHANGED x
    /\ UNCHANGED <<rows, redis, deletion, fresh, asked, faults, crashes>>

XDelZ ==
    /\ xpc = "del_z" /\ xpc' = "del_s"
    /\ rows' = Without(rows, <<"z", x, xold>>)
    /\ UNCHANGED <<redis, deletion, fresh, x, xold, asked, faults, crashes>>

XDelS ==
    /\ xpc = "del_s" /\ ExpireEnds
    /\ rows' = Without(rows, <<"s", x, Nothing>>)
    /\ UNCHANGED <<redis, deletion, fresh, asked, faults, crashes>>

\* The guard starts a new worker.
Crash ==
    /\ faults + crashes < MaxFaults
    /\ crashes' = crashes + 1
    /\ RedisEnds /\ ExpireEnds
    /\ todo' = {} /\ answered' = {}
    /\ UNCHANGED <<rows, range, flushed, fresh, asked, faults>>

Init ==
    /\ rows = {} /\ todo = {} /\ range = {} /\ flushed = {} /\ fresh = {}
    /\ rpc = "idle" /\ arg = Nothing /\ rold = Nothing
    /\ xpc = "idle" /\ x = Nothing /\ xold = Nothing
    /\ answered = {} /\ asked = {}
    /\ faults = 0 /\ crashes = 0

Next ==
    \/ \E k \in Keys : Set(k) \/ BackendPut(k) \/ BackendDelete(k) \/ XDel(k)
    \/ \E k \in Keys, d \in Deadlines : SetEx(k, d) \/ Expire(k, d)
    \/ Zget \/ DelZ \/ PutZ \/ PutS
    \/ Flushall \/ ScanDel \/ Answer
    \/ \E fails \in BOOLEAN : DeleteNext(fails)
    \/ XZget \/ XDelZ \/ XDelS
    \/ Crash

Spec == Init /\ [][Next]_vars
-----------------------------------------------------------------------------
(* Properties.                                                             *)

(***************************************************************************)
(* When the command is answered, what is left of its rows was written by   *)
(* the backend after it began: no value and no deadline of before survives *)
(* but one whose own Delete failed, in whatever order the threads wrote    *)
(* and deleted around the iterator.                                        *)
(***************************************************************************)
FlushedGone ==
    \A r \in rows \cap answered : r[1] = "k" /\ r[2] \in fresh

(***************************************************************************)
(* FLUSHALL takes a value before its deadline: wherever it is on its way,  *)
(* and wherever a crash has stopped it, a key of which it has deleted a    *)
(* row of a deadline has no value of before, unless that value's Delete    *)
(* failed.  A crash leaves no value that would now stay for ever.          *)
(***************************************************************************)
ValueGoesFirst ==
    \A k \in flushed : ValueRow(k) \in rows \cap range => k \in fresh
=============================================================================
