--------------------------- MODULE SortedSetOps ---------------------------
(***************************************************************************)
(* What class SortedSet (common/sorted_set.h) promises its users: a finite *)
(* map from keys to scores that can be read and popped at either end of    *)
(* the order of its items, first by score and then by key.  The map is a   *)
(* total function on Keys; NoScore marks a key that is not in the set.     *)
(*                                                                         *)
(* Keys are numbers that stand for strings in lexicographic order, which   *)
(* is all that Item::operator< asks of them.                               *)
(***************************************************************************)
EXTENDS Integers, FiniteSets

CONSTANTS
    Keys,      \* the keys clients use, as numbers in lexicographic order
    NoScore    \* "key not present"

ASSUME KeysAssumption    == Keys \subseteq Nat /\ IsFiniteSet(Keys)
ASSUME NoScoreAssumption == NoScore \notin Int

NoKeys == [k \in Keys |-> NoScore]

Held(m) == {k \in Keys : m[k] # NoScore}

size(m) == Cardinality(Held(m))

empty(m) == Held(m) = {}

\* Item::operator<
Before(m, a, b) == m[a] < m[b] \/ (m[a] = m[b] /\ a < b)

\* The key front() and back() report: the first and the last held key.
IsFront(m, k) == k \in Held(m) /\ \A b \in Held(m) \ {k} : Before(m, k, b)

IsBack(m, k) == k \in Held(m) /\ \A b \in Held(m) \ {k} : Before(m, b, k)

\* !empty() && s <= max_score(): some held score is at least s.
AtMostMax(m, s) == \E k \in Held(m) : s <= m[k]

add(m, k, s) == [m EXCEPT ![k] = s]

del(m, k) == [m EXCEPT ![k] = NoScore]

\* The maps pop_front() and pop_back() can leave; one each when m is a map
\* of integer scores.
pop_front(m) ==
    IF empty(m) THEN {m} ELSE {del(m, k) : k \in {j \in Keys : IsFront(m, j)}}

pop_back(m) ==
    IF empty(m) THEN {m} ELSE {del(m, k) : k \in {j \in Keys : IsBack(m, j)}}
=============================================================================
