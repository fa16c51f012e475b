----------------------------- MODULE SortedMap -----------------------------
(***************************************************************************)
(* Abstract specification of SortedSet: one map from keys to scores.  io   *)
(* is the interface, the last call with its arguments and what it returned *)
(* to the caller.                                                          *)
(***************************************************************************)
EXTENDS SortedSetOps, Sequences

CONSTANT Scores     \* the int64 scores in use

VARIABLES
    score,          \* score[k] is k's score or NoScore
    io              \* the last call

vars == <<score, io>>

Init == score = NoKeys /\ io = <<>>

\* What a bool-like int result is.
Flag(b) == IF b THEN 1 ELSE 0

Add(k, s) ==
    /\ score' = add(score, k, s)
    /\ io' = <<"add", k, s, Flag(score[k] = NoScore)>>

Del(k) ==
    /\ score' = del(score, k)
    /\ io' = <<"del", k, Flag(score[k] # NoScore)>>

\* front() and back() hand out the key and the score, if there is one.
Front ==
    /\ \/ empty(score) /\ io' = <<"front", 0>>
       \/ \E k \in Keys : IsFront(score, k) /\ io' = <<"front", 1, k, score[k]>>
    /\ UNCHANGED score

Back ==
    /\ \/ empty(score) /\ io' = <<"back", 0>>
       \/ \E k \in Keys : IsBack(score, k) /\ io' = <<"back", 1, k, score[k]>>
    /\ UNCHANGED score

PopFront ==
    /\ score' \in pop_front(score)
    /\ io' = <<"pop_front", Flag(~empty(score))>>

PopBack ==
    /\ score' \in pop_back(score)
    /\ io' = <<"pop_back", Flag(~empty(score))>>

Size == io' = <<"size", size(score)>> /\ UNCHANGED score

Next ==
    \/ \E k \in Keys, s \in Scores : Add(k, s)
    \/ \E k \in Keys : Del(k)
    \/ Front \/ Back \/ PopFront \/ PopBack \/ Size

Spec == Init /\ [][Next]_vars
=============================================================================
