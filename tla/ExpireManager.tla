--------------------------- MODULE ExpireManager ---------------------------
(***************************************************************************)
(* The time-out service with its handlers run one after the other: the     *)
(* Redis commands that change a key or its deadline (xRedisServer.cpp),    *)
(* the rows they keep in RocksDB (xDataBase.cpp) and the passes of the     *)
(* expire thread (xExpireManager.cpp).                                     *)
(*                                                                         *)
(* RocksDB holds three kinds of rows: k|key, the value; s|expire|key, the  *)
(* key's deadline; z|expire|deadline|key, the index by deadline.  The      *)
(* expire thread does not read them at each pass.  It keeps in sort_set a  *)
(* cache of at most BATCH_SIZE deadlines, reloads it only when it is       *)
(* empty, and in first_timeout the time before which it need not look at   *)
(* the cache at all.  The properties say when these two may be relied on.  *)
(*                                                                         *)
(* ExpireThreads breaks the same handlers into the steps of their threads. *)
(***************************************************************************)
EXTENDS SortedSetOps

CONSTANTS
    TTLs,          \* the time-outs clients ask for, in seconds
    MsPerSec,      \* milliseconds in a second
    BatchSize,     \* BATCH_SIZE
    Never,         \* INT64_MAX
    MaxTime        \* bound: the clock and the deadlines stop here

ASSUME TTLsAssumption      == TTLs \subseteq Int
ASSUME MsPerSecAssumption  == MsPerSec \in Nat \ {0}
ASSUME BatchSizeAssumption == BatchSize \in Nat \ {0}
ASSUME TimeAssumption      == Never \in Nat /\ MaxTime \in Nat /\ MaxTime < Never

VARIABLES
    now,           \* time_ms()
    kv,            \* the keys with a k row
    zset,          \* zset[k] is the deadline in k's s row, or NoScore
    zscore,        \* the z rows, as pairs <<deadline, key>>
    sort_set,      \* ExpireManager::sort_set
    first_timeout, \* ExpireManager::first_timeout
    timed_out      \* history: the keys whose last value ExpireLoop removed

vars == <<now, kv, zset, zscore, sort_set, first_timeout, timed_out>>

TypeOK ==
    /\ now \in Nat
    /\ kv \in SUBSET Keys
    /\ zset \in [Keys -> Int \cup {NoScore}]
    /\ zscore \in SUBSET (Int \X Keys)
    /\ sort_set \in [Keys -> Int \cup {NoScore}]
    /\ first_timeout \in Int
    /\ timed_out \in SUBSET Keys
-----------------------------------------------------------------------------
(* Faulty variants of the operations, each with the slip a change of this  *)
(* code could make.                                                        *)

\* Zset that forgets the z row of the deadline it replaces.
ZsetKeepsOld(k, e) ==
    /\ zset[k] # e
    /\ zscore' = zscore \cup {<<e, k>>}
    /\ zset' = [zset EXCEPT ![k] = e]

\* SetTTL that puts every deadline in the cache.
SetTTLAlwaysAdds(m, k, e) ==
    LET a == add(m, k, e)
    IN  IF size(a) > BatchSize THEN pop_back(a) ELSE {a}

\* SetTTL that does not trim the cache.
SetTTLNoTrim(m, k, e) ==
    IF AtMostMax(m, e) THEN {add(m, k, e)} ELSE {del(m, k)}

\* SetTTL that leaves a stale deadline in the cache when the new one is too
\* late for it.
SetTTLKeepsStale(m, k, e) ==
    LET a == add(m, k, e)
    IN  IF AtMostMax(m, e)
        THEN IF size(a) > BatchSize THEN pop_back(a) ELSE {a}
        ELSE {m}

\* SetTTL that does not lower first_timeout.
EarlierForgets(e) == first_timeout

\* ExpireLoop that does not pop the key it removed.
PassDueKeepsFront(m, k) ==
    /\ IsFront(m, k)
    /\ m[k] <= now
    /\ first_timeout' = m[k]
    /\ kv' = kv \ {k}
    /\ timed_out' = timed_out \cup (kv \cap {k})
    /\ zset' = [zset EXCEPT ![k] = NoScore]
    /\ zscore' = zscore \ {<<zset[k], k>>}
    /\ sort_set' = m
    /\ UNCHANGED now

-----------------------------------------------------------------------------
(* xDataBase: the rows of the expire set.                                  *)

\* Zset writes, and returns db_ok, only when the deadline changes.
Zset(k, e) ==
    /\ zset[k] # e
    /\ zscore' = (zscore \ {<<zset[k], k>>}) \cup {<<e, k>>}
    /\ zset' = [zset EXCEPT ![k] = e]

Zdel(k) ==
    /\ zset' = [zset EXCEPT ![k] = NoScore]
    /\ zscore' = IF zset[k] = NoScore THEN zscore ELSE zscore \ {<<zset[k], k>>}

\* The z rows between SCORE_MIN and SCORE_MAX.  Scores are compared as
\* big-endian bytes, so that a negative one lies beyond SCORE_MAX.
Loadable == {r \in zscore : 0 <= r[1] /\ r[1] < Never}

RowLess(r, q) == r[1] < q[1] \/ (r[1] = q[1] /\ r[2] < q[2])

\* LoadExpirationKeys reads the first BATCH_SIZE of them, or all of them.
IsBatch(B) ==
    /\ \A r \in B, q \in Loadable \ B : RowLess(r, q)
    /\ Cardinality(B) = BatchSize \/ (B = Loadable /\ Cardinality(B) < BatchSize)

\* The cache after the rows of B were added in order: the last one of a key
\* stays.
Filled(B) ==
    [k \in Keys |->
        LET scores == {s \in {r[1] : r \in B} : <<s, k>> \in B}
        IN  IF scores = {} THEN NoScore
                           ELSE CHOOSE s \in scores : \A q \in scores : q <= s]
-----------------------------------------------------------------------------
(* ExpireManager: the cache and the wake-up time.                          *)

\* What SetTTL(k, e) leaves in a cache m, and in first_timeout.
SetTTL(m, k, e) ==
    LET a == add(m, k, e)
    IN  IF AtMostMax(m, e)
        THEN IF size(a) > BatchSize THEN pop_back(a) ELSE {a}
        ELSE {del(m, k)}

Earlier(e) == IF e < first_timeout THEN e ELSE first_timeout

\* The cache a pass of ExpireLoop works on.
Cached ==
    IF empty(sort_set)
    THEN {Filled(B) : B \in {B \in SUBSET Loadable : IsBatch(B)}}
    ELSE {sort_set}

\* The three ends of a pass: there is nothing to expire, the first deadline
\* is not due, or its key is removed.
PassEmpty(m) ==
    /\ empty(m)
    /\ first_timeout' = Never
    /\ sort_set' = m
    /\ UNCHANGED <<now, kv, zset, zscore, timed_out>>

PassEarly(m, k) ==
    /\ IsFront(m, k)
    /\ m[k] > now
    /\ first_timeout' = m[k]
    /\ sort_set' = m
    /\ UNCHANGED <<now, kv, zset, zscore, timed_out>>

PassDue(m, k) ==
    /\ IsFront(m, k)
    /\ m[k] <= now
    /\ first_timeout' = m[k]
    /\ kv' = kv \ {k}
    /\ timed_out' = timed_out \cup (kv \cap {k})
    /\ Zdel(k)
    /\ sort_set' \in pop_front(m)
    /\ UNCHANGED now

\* Dispatch calls ExpireLoop when first_timeout is not in the future.
ExpireLoop ==
    /\ first_timeout <= now
    /\ \E m \in Cached :
        \/ PassEmpty(m)
        \/ \E k \in Keys : PassEarly(m, k) \/ PassDue(m, k)
-----------------------------------------------------------------------------
(* xRedisServer: the commands.  GET and TTL change nothing.                *)

Deadline(t) == now + t * MsPerSec

\* xDataBase::Set
Write(k) == kv' = kv \cup {k} /\ timed_out' = timed_out \ {k}

\* SET key value, and PUT or POST at the HTTP backend: the deadline stays.
Set(k) ==
    /\ Write(k)
    /\ UNCHANGED <<now, zset, zscore, sort_set, first_timeout>>

\* SET key value EX t: SetTTL before Zset, and again when Zset wrote.
SetEx(k, t) ==
    LET e == Deadline(t) IN
    /\ e <= MaxTime
    /\ Write(k)
    /\ Zset(k, e)
    /\ first_timeout' = Earlier(e)
    /\ \E m \in SetTTL(sort_set, k, e) : sort_set' \in SetTTL(m, k, e)
    /\ UNCHANGED now

\* The same command when the key has this very deadline: Zset refuses.
SetExSame(k, t) ==
    LET e == Deadline(t) IN
    /\ zset[k] = e
    /\ Write(k)
    /\ first_timeout' = Earlier(e)
    /\ sort_set' \in SetTTL(sort_set, k, e)
    /\ UNCHANGED <<now, zset, zscore>>

\* EXPIRE key t; it replies 0 and changes nothing without a value, or when
\* Zset refuses.
Expire(k, t) ==
    LET e == Deadline(t) IN
    /\ e <= MaxTime
    /\ k \in kv
    /\ Zset(k, e)
    /\ first_timeout' = Earlier(e)
    /\ sort_set' \in SetTTL(sort_set, k, e)
    /\ UNCHANGED <<now, kv, timed_out>>

\* DEL key, and DELETE at the HTTP backend: the deadline stays.
Del(k) ==
    /\ kv' = kv \ {k}
    /\ UNCHANGED <<now, zset, zscore, sort_set, first_timeout, timed_out>>

\* SCAN start end DEL: every key from start up to but excluding end.
ScanDel(start, end) ==
    /\ kv' = kv \ {k \in Keys : start <= k /\ k < end}
    /\ UNCHANGED <<now, zset, zscore, sort_set, first_timeout, timed_out>>

\* FLUSHALL deletes the rows, and leaves the expire manager as it is.
Flushall ==
    /\ kv' = {}
    /\ zset' = NoKeys
    /\ zscore' = {}
    /\ UNCHANGED <<now, sort_set, first_timeout, timed_out>>
-----------------------------------------------------------------------------
Tick ==
    /\ now < MaxTime
    /\ now' = now + 1
    /\ UNCHANGED <<kv, zset, zscore, sort_set, first_timeout, timed_out>>

\* The process stops and the guard starts it again on the same database.
Restart ==
    /\ sort_set' = NoKeys
    /\ first_timeout' = 0
    /\ UNCHANGED <<now, kv, zset, zscore, timed_out>>

Init ==
    /\ now = 0
    /\ kv = {}
    /\ zset = NoKeys
    /\ zscore = {}
    /\ timed_out = {}
    /\ sort_set = NoKeys
    /\ first_timeout = 0

NextNoFlush ==
    \/ Tick
    \/ Restart
    \/ ExpireLoop
    \/ \E k \in Keys : Set(k) \/ Del(k)
    \/ \E k \in Keys, t \in TTLs : SetEx(k, t) \/ SetExSame(k, t) \/ Expire(k, t)
    \/ \E start, end \in Keys : ScanDel(start, end)

Next == NextNoFlush \/ Flushall

\* The expire thread runs for ever; everything else may stop.
Fairness == WF_vars(ExpireLoop)

Spec == Init /\ [][Next]_vars /\ Fairness

SpecNoFlush == Init /\ [][NextNoFlush]_vars /\ Fairness
-----------------------------------------------------------------------------
(***************************************************************************)
(* The s rows and the z rows say the same: Zset and Zdel rewrite both, and *)
(* a z row they miss would be loaded again at every reload.                *)
(***************************************************************************)
IndexAgree == zscore = {<<zset[k], k>> : k \in Held(zset)}

(***************************************************************************)
(* The cache holds the earliest deadlines: one that is stored and not      *)
(* cached is not before any that is.  ExpireLoop looks at nothing but the  *)
(* cache until it is empty, so that SetTTL, its trimming to BATCH_SIZE and *)
(* its choice between add and del must keep this true.                     *)
(***************************************************************************)
CachePrefix ==
    \A r \in Loadable :
        \/ sort_set[r[2]] = r[1]
        \/ \A j \in Held(sort_set) : sort_set[j] <= r[1]

(***************************************************************************)
(* The cache never holds more than BATCH_SIZE deadlines, although SET adds *)
(* to it twice and LoadExpirationKeys fills it.                            *)
(***************************************************************************)
CacheBounded == size(sort_set) <= BatchSize

(***************************************************************************)
(* The expire thread never sleeps past a stored deadline: first_timeout,   *)
(* which SetTTL lowers and ExpireLoop raises, is at or before each of      *)
(* them, even when it stands at INT64_MAX.                                 *)
(***************************************************************************)
Wakeup == \A r \in Loadable : first_timeout <= r[1]

(***************************************************************************)
(* A key whose deadline has passed is removed, or given another deadline,  *)
(* whatever the clients do meanwhile and through restarts, provided that   *)
(* nobody asks for a deadline in the past (TTLs >= 0): Dispatch and        *)
(* ExpireLoop get to it.                                                   *)
(***************************************************************************)
Overdue(k) == zset[k] # NoScore /\ 0 <= zset[k] /\ zset[k] < now

TimeoutHappens == \A k \in Keys : Overdue(k) ~> ~Overdue(k)

Timeout == INSTANCE KeyTimeout WITH deadline <- zset

(***************************************************************************)
(* The service is KeyTimeout: a key is removed only by a client or because *)
(* its current deadline has passed, the earliest first.                    *)
(***************************************************************************)
ImplementsKeyTimeout == Timeout!Spec
=============================================================================
