----------------------------- MODULE KeyTimeout -----------------------------
(***************************************************************************)
(* What the time-out service promises its clients: every key has at most   *)
(* one deadline, the last one a client asked for, and is removed only      *)
(* because a client removed it or because that deadline has passed, the    *)
(* earliest deadline first.  There is no cache, no index and no wake-up    *)
(* time here; ExpireManager implements this specification with them.       *)
(***************************************************************************)
EXTENDS SortedSetOps

CONSTANTS
    TTLs,          \* the time-outs clients ask for, in seconds
    MsPerSec,      \* milliseconds in a second
    Never          \* INT64_MAX, the end of the deadlines that can fire

VARIABLES
    now,           \* the clock, in milliseconds
    kv,            \* the keys that have a value
    timed_out,     \* the keys whose last value the service removed
    deadline       \* deadline[k] is the time k is due, or NoScore

vars == <<now, kv, timed_out, deadline>>

\* A deadline before the epoch or at INT64_MAX takes no part in the order.
Ordered(k) == deadline[k] # NoScore /\ 0 <= deadline[k] /\ deadline[k] < Never

Init ==
    /\ now \in Nat
    /\ kv = {}
    /\ timed_out = {}
    /\ deadline = NoKeys

Tick == now' = now + 1 /\ UNCHANGED <<kv, timed_out, deadline>>

\* A client writes k's value.
Write(k) == kv' = kv \cup {k} /\ timed_out' = timed_out \ {k}

Set(k) == Write(k) /\ UNCHANGED <<now, deadline>>

SetEx(k, t) ==
    /\ Write(k)
    /\ deadline' = [deadline EXCEPT ![k] = now + t * MsPerSec]
    /\ UNCHANGED now

Expire(k, t) ==
    /\ k \in kv
    /\ deadline' = [deadline EXCEPT ![k] = now + t * MsPerSec]
    /\ UNCHANGED <<now, kv, timed_out>>

\* A client removes the values of the keys in S.
Remove(S) == kv' = kv \ S /\ UNCHANGED <<now, timed_out, deadline>>

Flushall == kv' = {} /\ deadline' = NoKeys /\ UNCHANGED <<now, timed_out>>

\* The service removes a key whose deadline has passed.
Fire(k) ==
    /\ deadline[k] # NoScore
    /\ deadline[k] <= now
    /\ \A j \in Keys : Ordered(j) => deadline[k] <= deadline[j]
    /\ kv' = kv \ {k}
    /\ timed_out' = timed_out \cup (kv \cap {k})
    /\ deadline' = [deadline EXCEPT ![k] = NoScore]
    /\ UNCHANGED now

Next ==
    \/ Tick
    \/ \E k \in Keys : Set(k) \/ Fire(k)
    \/ \E k \in Keys, t \in TTLs : SetEx(k, t) \/ Expire(k, t)
    \/ \E S \in SUBSET Keys : Remove(S)
    \/ Flushall

Spec == Init /\ [][Next]_vars
=============================================================================
