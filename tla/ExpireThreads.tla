--------------------------- MODULE ExpireThreads ---------------------------
(***************************************************************************)
(* The time-out service as its threads run it.  The Redis thread (one      *)
(* event loop: xRedisServer.cpp) and the expire thread (Dispatch in        *)
(* xExpireManager.cpp) share sort_set and first_timeout without a lock,    *)
(* and both rewrite a key's s and z rows in several RocksDB calls; the     *)
(* HTTP backend's threads put and delete values meanwhile.  A step is one  *)
(* RocksDB call, one call of SortedSet or one access to first_timeout.     *)
(* The process may crash between any two steps and is started again by its *)
(* guard; what RocksDB acknowledged survives.                              *)
(*                                                                         *)
(* A call of SortedSet is one step here although nothing makes it atomic:  *)
(* what two overlapping calls do to the trees is not modelled, only that   *)
(* the process may then crash.                                             *)
(***************************************************************************)
EXTENDS SortedSetOps

CONSTANTS
    TTLs,          \* the time-outs clients ask for, in seconds
    MsPerSec,      \* milliseconds in a second
    BatchSize,     \* BATCH_SIZE
    Never,         \* INT64_MAX
    MaxTime,       \* bound: the clock and the deadlines stop here
    MaxCrashes,    \* bound: how often the process crashes
    MaxAsked       \* bound: how many different deadlines clients ask for

ASSUME TTLsAssumption      == TTLs \subseteq Int
ASSUME MsPerSecAssumption  == MsPerSec \in Nat \ {0}
ASSUME BatchSizeAssumption == BatchSize \in Nat \ {0}
ASSUME TimeAssumption      == Never \in Nat /\ MaxTime \in Nat /\ MaxTime < Never
ASSUME BoundsAssumption    == MaxCrashes \in Nat /\ MaxAsked \in Nat

Score == Int \cup {NoScore}

\* Where the threads are.  A label names the next step.
RedisLabels == {"idle", "put", "get", "ft_test", "ft_store", "empty", "max",
                "add", "size", "pop_back", "forget", "zget", "del_z", "put_z", "put_s"}

ExpireLabels == {"wait", "empty", "iter", "load", "never", "front", "store", "due",
                 "del", "zget", "del_z", "del_s", "pop"}

VARIABLES
    now,           \* time_ms()
    kv,            \* kv[k] is the timestamp in k's k row, or NoScore without one
    zset,          \* zset[k] is the deadline in k's s row, or NoScore
    zscore,        \* the z rows, as pairs <<deadline, key>>
    sort_set,      \* ExpireManager::sort_set
    first_timeout, \* ExpireManager::first_timeout
    rpc,           \* the Redis thread: where it is,
    cmd,           \*   the command it serves, with its deadline,
    rold,          \*   and old_score in Zset
    xpc,           \* the expire thread: where it is,
    xrows,         \*   the rows its iterator has still to return,
    xfront,        \*   score and key in ExpireLoop,
    xold,          \*   and old_score in Zdel
    crashes,       \* how often the process has crashed
    asked          \* history: every <<deadline, key>> a client asked for

rows   == <<zset, zscore>>
cache  == <<sort_set, first_timeout>>
redis  == <<rpc, cmd, rold>>
expire == <<xpc, xrows, xfront, xold>>
vars   == <<now, kv, rows, cache, redis, expire, crashes, asked>>

\* A command: zdone says that its Zset has written the rows.
Command == [op : {"setex", "expire"}, key : Keys, exp : Int, zdone : BOOLEAN]

TypeOK ==
    /\ now \in Nat
    /\ kv \in [Keys -> Score]
    /\ zset \in [Keys -> Score]
    /\ zscore \in SUBSET (Int \X Keys)
    /\ sort_set \in [Keys -> Score]
    /\ first_timeout \in Int
    /\ rpc \in RedisLabels
    /\ rpc # "idle" => cmd \in Command
    /\ rpc = "del_z" => rold \in Int
    /\ xpc \in ExpireLabels
    /\ xrows \in SUBSET (Int \X Keys)
    /\ xpc \in {"store", "due", "del", "zget", "del_z", "del_s"} => xfront \in Int \X Keys
    /\ xpc = "del_z" => xold \in Int
    /\ crashes \in Nat
    /\ asked \in SUBSET (Int \X Keys)

\* The rows LoadExpirationKeys may read, and their order.
Loadable == {r \in zscore : 0 <= r[1] /\ r[1] < Never}

RowLess(r, q) == r[1] < q[1] \/ (r[1] = q[1] /\ r[2] < q[2])

Init ==
    /\ now = 0
    /\ kv = NoKeys
    /\ zset = NoKeys
    /\ zscore = {}
    /\ sort_set = NoKeys
    /\ first_timeout = 0
    /\ rpc = "idle"
    /\ cmd = NoScore
    /\ rold = NoScore
    /\ xpc = "wait"
    /\ xrows = {}
    /\ xfront = NoScore
    /\ xold = NoScore
    /\ crashes = 0
    /\ asked = {}
-----------------------------------------------------------------------------
(* Faulty variants of the steps, each with the slip a change of this code  *)
(* could make.                                                             *)

\* Zset that takes the answer "not found" for an old deadline.
RZgetIgnoresNull ==
    /\ rpc = "zget"
    /\ rpc' = "del_z"
    /\ rold' = zset[cmd.key]
    /\ UNCHANGED <<now, kv, rows, cache, cmd, expire, crashes, asked>>

\* ExpireLoop that does not compare the deadline with the clock.
XDueUnchecked ==
    /\ xpc = "due"
    /\ xpc' = "del"
    /\ UNCHANGED <<now, kv, rows, cache, redis, xrows, xfront, xold, crashes, asked>>
-----------------------------------------------------------------------------
(* The Redis thread: SET key value EX t and EXPIRE key t.                  *)

RStart(op, k, t) ==
    LET e == now + t * MsPerSec IN
    /\ rpc = "idle"
    /\ e <= MaxTime
    /\ <<e, k>> \in asked \/ Cardinality(asked) < MaxAsked
    /\ cmd' = [op |-> op, key |-> k, exp |-> e, zdone |-> FALSE]
    /\ rpc' = IF op = "setex" THEN "put" ELSE "get"
    /\ asked' = asked \cup {<<e, k>>}
    /\ UNCHANGED <<now, kv, rows, cache, rold, expire, crashes>>

\* The command is answered and its variables are gone.
Reply == rpc' = "idle" /\ cmd' = NoScore

RPut ==
    /\ rpc = "put"
    /\ kv' = [kv EXCEPT ![cmd.key] = now]
    /\ rpc' = "ft_test"
    /\ UNCHANGED <<now, rows, cache, cmd, rold, expire, crashes, asked>>

RGet ==
    /\ rpc = "get"
    /\ IF kv[cmd.key] # NoScore THEN rpc' = "zget" /\ UNCHANGED cmd ELSE Reply
    /\ UNCHANGED <<now, kv, rows, cache, rold, expire, crashes, asked>>

\* SetTTL is called once by EXPIRE, and before and after Zset by SET.
AfterSetTTL ==
    IF cmd.op = "setex" /\ ~cmd.zdone THEN rpc' = "zget" /\ UNCHANGED cmd ELSE Reply

RFtTest ==
    /\ rpc = "ft_test"
    /\ rpc' = IF cmd.exp < first_timeout THEN "ft_store" ELSE "empty"
    /\ UNCHANGED <<now, kv, rows, cache, cmd, rold, expire, crashes, asked>>

RFtStore ==
    /\ rpc = "ft_store"
    /\ first_timeout' = cmd.exp
    /\ rpc' = "empty"
    /\ UNCHANGED <<now, kv, rows, sort_set, cmd, rold, expire, crashes, asked>>

REmpty ==
    /\ rpc = "empty"
    /\ rpc' = IF empty(sort_set) THEN "forget" ELSE "max"
    /\ UNCHANGED <<now, kv, rows, cache, cmd, rold, expire, crashes, asked>>

\* max_score() is 0 when the set has become empty since.
RMax ==
    /\ rpc = "max"
    /\ rpc' = IF AtMostMax(sort_set, cmd.exp) \/ (empty(sort_set) /\ cmd.exp <= 0)
              THEN "add" ELSE "forget"
    /\ UNCHANGED <<now, kv, rows, cache, cmd, rold, expire, crashes, asked>>

RAdd ==
    /\ rpc = "add"
    /\ sort_set' = add(sort_set, cmd.key, cmd.exp)
    /\ rpc' = "size"
    /\ UNCHANGED <<now, kv, rows, first_timeout, cmd, rold, expire, crashes, asked>>

RSize ==
    /\ rpc = "size"
    /\ IF size(sort_set) > BatchSize THEN rpc' = "pop_back" /\ UNCHANGED cmd ELSE AfterSetTTL
    /\ UNCHANGED <<now, kv, rows, cache, rold, expire, crashes, asked>>

RPopBack ==
    /\ rpc = "pop_back"
    /\ sort_set' \in pop_back(sort_set)
    /\ AfterSetTTL
    /\ UNCHANGED <<now, kv, rows, first_timeout, rold, expire, crashes, asked>>

RForget ==
    /\ rpc = "forget"
    /\ sort_set' = del(sort_set, cmd.key)
    /\ AfterSetTTL
    /\ UNCHANGED <<now, kv, rows, first_timeout, rold, expire, crashes, asked>>

\* Zset: read the s row, delete the old z row, put the new z row and s row.
RZget ==
    /\ rpc = "zget"
    /\ CASE zset[cmd.key] = cmd.exp -> Reply /\ UNCHANGED rold
         [] zset[cmd.key] = NoScore -> rpc' = "put_z" /\ UNCHANGED <<cmd, rold>>
         [] OTHER -> rpc' = "del_z" /\ rold' = zset[cmd.key] /\ UNCHANGED cmd
    /\ UNCHANGED <<now, kv, rows, cache, expire, crashes, asked>>

RDelZ ==
    /\ rpc = "del_z"
    /\ zscore' = zscore \ {<<rold, cmd.key>>}
    /\ rold' = NoScore
    /\ rpc' = "put_z"
    /\ UNCHANGED <<now, kv, zset, cache, cmd, expire, crashes, asked>>

RPutZ ==
    /\ rpc = "put_z"
    /\ zscore' = zscore \cup {<<cmd.exp, cmd.key>>}
    /\ rpc' = "put_s"
    /\ UNCHANGED <<now, kv, zset, cache, cmd, rold, expire, crashes, asked>>

RPutS ==
    /\ rpc = "put_s"
    /\ zset' = [zset EXCEPT ![cmd.key] = cmd.exp]
    /\ cmd' = [cmd EXCEPT !.zdone = TRUE]
    /\ rpc' = "ft_test"
    /\ UNCHANGED <<now, kv, zscore, cache, rold, expire, crashes, asked>>

RedisStep ==
    \/ RPut \/ RGet \/ RFtTest \/ RFtStore \/ REmpty \/ RMax \/ RAdd \/ RSize
    \/ RPopBack \/ RForget \/ RZget \/ RDelZ \/ RPutZ \/ RPutS
-----------------------------------------------------------------------------
(* The expire thread: Dispatch and ExpireLoop.                             *)

XWait ==
    /\ xpc = "wait"
    /\ first_timeout <= now
    /\ xpc' = "empty"
    /\ UNCHANGED <<now, kv, rows, cache, redis, xrows, xfront, xold, crashes, asked>>

XEmpty ==
    /\ xpc = "empty"
    /\ xpc' = IF empty(sort_set) THEN "iter" ELSE "front"
    /\ UNCHANGED <<now, kv, rows, cache, redis, xrows, xfront, xold, crashes, asked>>

\* NewIterator: a snapshot, of which the first BATCH_SIZE rows are used.
XIter ==
    /\ xpc = "iter"
    /\ xrows' = {r \in Loadable : Cardinality({q \in Loadable : RowLess(q, r)}) < BatchSize}
    /\ xpc' = "load"
    /\ UNCHANGED <<now, kv, rows, cache, redis, xfront, xold, crashes, asked>>

XLoad ==
    /\ xpc = "load"
    /\ \E r \in xrows :
        /\ \A q \in xrows \ {r} : RowLess(r, q)
        /\ sort_set' = add(sort_set, r[2], r[1])
        /\ xrows' = xrows \ {r}
    /\ UNCHANGED <<now, kv, rows, first_timeout, redis, xpc, xfront, xold, crashes, asked>>

XLoaded ==
    /\ xpc = "load"
    /\ xrows = {}
    /\ xpc' = IF empty(sort_set) THEN "never" ELSE "front"
    /\ UNCHANGED <<now, kv, rows, cache, redis, xrows, xfront, xold, crashes, asked>>

XNever ==
    /\ xpc = "never"
    /\ first_timeout' = Never
    /\ xpc' = "wait"
    /\ UNCHANGED <<now, kv, rows, sort_set, redis, xrows, xfront, xold, crashes, asked>>

XFront ==
    /\ xpc = "front"
    /\ \E k \in Keys :
        /\ IsFront(sort_set, k)
        /\ xfront' = <<sort_set[k], k>>
    /\ xpc' = "store"
    /\ UNCHANGED <<now, kv, rows, cache, redis, xrows, xold, crashes, asked>>

\* front() finds nothing: SetTTL has emptied the set since.
XFrontGone ==
    /\ xpc = "front"
    /\ empty(sort_set)
    /\ xpc' = "wait"
    /\ UNCHANGED <<now, kv, rows, cache, redis, xrows, xfront, xold, crashes, asked>>

XStore ==
    /\ xpc = "store"
    /\ first_timeout' = xfront[1]
    /\ xpc' = "due"
    /\ UNCHANGED <<now, kv, rows, sort_set, redis, xrows, xfront, xold, crashes, asked>>

XDue ==
    /\ xpc = "due"
    /\ IF xfront[1] <= now
       THEN xpc' = "del" /\ UNCHANGED xfront
       ELSE xpc' = "wait" /\ xfront' = NoScore
    /\ UNCHANGED <<now, kv, rows, cache, redis, xrows, xold, crashes, asked>>

XDel ==
    /\ xpc = "del"
    /\ kv' = [kv EXCEPT ![xfront[2]] = NoScore]
    /\ xpc' = "zget"
    /\ UNCHANGED <<now, rows, cache, redis, xrows, xfront, xold, crashes, asked>>

\* Zdel: without an s row it deletes nothing.
XZget ==
    /\ xpc = "zget"
    /\ xold' = zset[xfront[2]]
    /\ xpc' = IF xold' = NoScore THEN "pop" ELSE "del_z"
    /\ UNCHANGED <<now, kv, rows, cache, redis, xrows, xfront, crashes, asked>>

XDelZ ==
    /\ xpc = "del_z"
    /\ zscore' = zscore \ {<<xold, xfront[2]>>}
    /\ xold' = NoScore
    /\ xpc' = "del_s"
    /\ UNCHANGED <<now, kv, zset, cache, redis, xrows, xfront, crashes, asked>>

XDelS ==
    /\ xpc = "del_s"
    /\ zset' = [zset EXCEPT ![xfront[2]] = NoScore]
    /\ xpc' = "pop"
    /\ UNCHANGED <<now, kv, zscore, cache, redis, xrows, xfront, xold, crashes, asked>>

\* pop_front() takes whatever is first by now.
XPop ==
    /\ xpc = "pop"
    /\ sort_set' \in pop_front(sort_set)
    /\ xfront' = NoScore
    /\ xpc' = "wait"
    /\ UNCHANGED <<now, kv, rows, first_timeout, redis, xrows, xold, crashes, asked>>

ExpireStep ==
    \/ XWait \/ XEmpty \/ XIter \/ XLoad \/ XLoaded \/ XNever \/ XFront \/ XFrontGone
    \/ XStore \/ XDue \/ XDel \/ XZget \/ XDelZ \/ XDelS \/ XPop
-----------------------------------------------------------------------------
(* The HTTP backend, the clock and crashes.                                *)

\* PUT and DELETE; SET without EX and DEL do the same from the Redis thread.
BackendPut(k) ==
    /\ kv' = [kv EXCEPT ![k] = now]
    /\ UNCHANGED <<now, rows, cache, redis, expire, crashes, asked>>

BackendDelete(k) ==
    /\ kv' = [kv EXCEPT ![k] = NoScore]
    /\ UNCHANGED <<now, rows, cache, redis, expire, crashes, asked>>

Tick ==
    /\ now < MaxTime
    /\ now' = now + 1
    /\ UNCHANGED <<kv, rows, cache, redis, expire, crashes, asked>>

Crash ==
    /\ crashes < MaxCrashes
    /\ crashes' = crashes + 1
    /\ sort_set' = NoKeys
    /\ first_timeout' = 0
    /\ rpc' = "idle" /\ cmd' = NoScore /\ rold' = NoScore
    /\ xpc' = "wait" /\ xrows' = {} /\ xfront' = NoScore /\ xold' = NoScore
    /\ UNCHANGED <<now, kv, rows, asked>>

Next ==
    \/ \E op \in {"setex", "expire"}, k \in Keys, t \in TTLs : RStart(op, k, t)
    \/ RedisStep
    \/ ExpireStep
    \/ \E k \in Keys : BackendPut(k) \/ BackendDelete(k)
    \/ Tick
    \/ Crash

\* Both threads run for ever and the clock goes on; no client has to act.
Fairness == WF_vars(RedisStep) /\ WF_vars(ExpireStep) /\ WF_vars(Tick)

Spec == Init /\ [][Next]_vars /\ Fairness
-----------------------------------------------------------------------------
(***************************************************************************)
(* The expire thread removes a key only at or after a deadline some client *)
(* asked for for that key, however the threads interleave and wherever the *)
(* process crashes: a deadline reaches ExpireLoop by way of SetTTL, Zset,  *)
(* LoadExpirationKeys and front, and none of them invents or mixes one.    *)
(***************************************************************************)
ExpiryJustified ==
    xpc = "del" => xfront \in asked /\ xfront[1] <= now

(***************************************************************************)
(* A value whose stored deadline has passed is removed, or its key is      *)
(* given another deadline.  This is what the README's "data timeout        *)
(* mechanism" promises.                                                    *)
(***************************************************************************)
Overdue(k) == kv[k] # NoScore /\ zset[k] # NoScore /\ 0 <= zset[k] /\ zset[k] < now

TimeoutHappens == \A k \in Keys : Overdue(k) ~> ~Overdue(k)
=============================================================================
