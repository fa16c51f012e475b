-------------------------- MODULE MCExpireThreads --------------------------
(***************************************************************************)
(* ExpireThreads with a history of the values that clients have written    *)
(* for good: a PUT over HTTP, with no time-out, of a key that has no value *)
(* and no deadline and on which nothing else is under way.                 *)
(***************************************************************************)
EXTENDS ExpireThreads

VARIABLE plain     \* history: keys whose value was written for good

\* No value, no deadline that TTL would tell or that is in the cache, no command
\* on k under way, and the expire thread sleeps.
Quiet(k) ==
    /\ kv[k] = NoScore /\ zset[k] = NoScore /\ sort_set[k] = NoScore
    /\ rpc # "idle" => cmd.key # k
    /\ xpc = "wait"

MCInit == Init /\ plain = {}

MCNext ==
    \/ \E op \in {"setex", "expire"}, k \in Keys, t \in TTLs :
        RStart(op, k, t) /\ plain' = plain \ {k}
    \/ \E k \in Keys :
        \/ BackendPut(k) /\ plain' = IF Quiet(k) THEN plain \cup {k} ELSE plain
        \/ BackendDelete(k) /\ plain' = plain \ {k}
    \/ (RedisStep \/ ExpireStep \/ Tick \/ Crash) /\ UNCHANGED plain

MCSpec == MCInit /\ [][MCNext]_<<vars, plain>>

(***************************************************************************)
(* A value written for good, and for whose key no client has asked for a   *)
(* deadline since, is not removed by the expire thread: such data is       *)
(* permanent.                                                              *)
(***************************************************************************)
PermanentStays == xpc = "del" => xfront[2] \notin plain
=============================================================================
