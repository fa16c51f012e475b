----------------------------- MODULE SortedSet -----------------------------
(***************************************************************************)
(* class SortedSet as it is built (common/sorted_set.cpp): an ordered      *)
(* std::set of items and a std::map "existed" from each key to the         *)
(* iterator of its item.  An iterator is represented by the item it points *)
(* to.  Every operation has to change both containers alike; SortedMap is  *)
(* what they then implement together.                                      *)
(***************************************************************************)
EXTENDS SortedSetOps, Sequences

CONSTANTS
    Scores,    \* the int64 scores in use
    NoItem     \* "existed has no entry for this key"

ASSUME ScoresAssumption == Scores \subseteq Int

Item == [key : Keys, score : Scores]

ASSUME NoItemAssumption == NoItem \notin Item

VARIABLES
    existed,       \* std::map<std::string, std::set<Item>::iterator>
    sorted_set,    \* std::set<Item>
    io             \* the last call, with its arguments and its result

vars == <<existed, sorted_set, io>>

TypeOK ==
    /\ existed \in [Keys -> Item \cup {NoItem}]
    /\ sorted_set \in SUBSET Item

\* Item::operator<
ItemLess(a, b) ==
    a.score < b.score \/ (a.score = b.score /\ a.key < b.key)

First(i) == i \in sorted_set /\ \A j \in sorted_set \ {i} : ItemLess(i, j)

Last(i) == i \in sorted_set /\ \A j \in sorted_set \ {i} : ItemLess(j, i)

\* Erase the item an iterator points to, and its key's entry.
Drop(i) ==
    /\ existed' = [existed EXCEPT ![i.key] = NoItem]
    /\ sorted_set' = sorted_set \ {i}
-----------------------------------------------------------------------------
(* Faulty variants of the operations, each with the slip a change of this  *)
(* code could make.                                                        *)

\* add() that leaves the old item of a known key in the ordered set.
AddUpdatedKeepsOld(k, s) ==
    /\ existed[k] # NoItem
    /\ existed[k].score # s
    /\ sorted_set' = sorted_set \cup {[key |-> k, score |-> s]}
    /\ existed' = [existed EXCEPT ![k] = [key |-> k, score |-> s]]
    /\ io' = <<"add", k, s, 0>>

\* pop_back() that takes the first item.
PopBackTakesFirst ==
    \E i \in sorted_set :
        /\ First(i)
        /\ Drop(i)
        /\ io' = <<"pop_back", 1>>
-----------------------------------------------------------------------------
Init ==
    /\ existed = [k \in Keys |-> NoItem]
    /\ sorted_set = {}
    /\ io = <<>>

\* add() of an unknown key, of a known key with another score, and the early
\* return for the score it already has.
AddNew(k, s) ==
    LET item == [key |-> k, score |-> s] IN
    /\ existed[k] = NoItem
    /\ sorted_set' = sorted_set \cup {item}
    /\ existed' = [existed EXCEPT ![k] = item]
    /\ io' = <<"add", k, s, 1>>

AddUpdated(k, s) ==
    LET item == [key |-> k, score |-> s] IN
    /\ existed[k] # NoItem
    /\ existed[k].score # s
    /\ sorted_set' = (sorted_set \ {existed[k]}) \cup {item}
    /\ existed' = [existed EXCEPT ![k] = item]
    /\ io' = <<"add", k, s, 0>>

AddSame(k, s) ==
    /\ existed[k] # NoItem
    /\ existed[k].score = s
    /\ io' = <<"add", k, s, 0>>
    /\ UNCHANGED <<existed, sorted_set>>

Del(k) ==
    \/ /\ existed[k] = NoItem
       /\ io' = <<"del", k, 0>>
       /\ UNCHANGED <<existed, sorted_set>>
    \/ /\ existed[k] # NoItem
       /\ sorted_set' = sorted_set \ {existed[k]}
       /\ existed' = [existed EXCEPT ![k] = NoItem]
       /\ io' = <<"del", k, 1>>

Front ==
    \E i \in sorted_set :
        /\ First(i)
        /\ io' = <<"front", 1, i.key, i.score>>
        /\ UNCHANGED <<existed, sorted_set>>

Back ==
    \E i \in sorted_set :
        /\ Last(i)
        /\ io' = <<"back", 1, i.key, i.score>>
        /\ UNCHANGED <<existed, sorted_set>>

PopFront ==
    \E i \in sorted_set :
        /\ First(i)
        /\ Drop(i)
        /\ io' = <<"pop_front", 1>>

PopBack ==
    \E i \in sorted_set :
        /\ Last(i)
        /\ Drop(i)
        /\ io' = <<"pop_back", 1>>

\* The same four calls when there is nothing in the set.
OnEmpty(call) ==
    /\ sorted_set = {}
    /\ io' = <<call, 0>>
    /\ UNCHANGED <<existed, sorted_set>>

Size ==
    /\ io' = <<"size", Cardinality(sorted_set)>>
    /\ UNCHANGED <<existed, sorted_set>>

Next ==
    \/ \E k \in Keys, s \in Scores : AddNew(k, s) \/ AddUpdated(k, s) \/ AddSame(k, s)
    \/ \E k \in Keys : Del(k)
    \/ Front \/ Back \/ PopFront \/ PopBack \/ Size
    \/ \E call \in {"front", "back", "pop_front", "pop_back"} : OnEmpty(call)

Spec == Init /\ [][Next]_vars
-----------------------------------------------------------------------------
(***************************************************************************)
(* The two containers mirror each other: existed[k] is an item of          *)
(* sorted_set with key k, and sorted_set has no other items.  add, del and *)
(* the pops each update both containers in turn; a missed erase leaves a   *)
(* second item for a key, or an iterator to a freed node.                  *)
(***************************************************************************)
Mirror ==
    /\ \A k \in Keys : existed[k] # NoItem =>
           existed[k] \in sorted_set /\ existed[k].key = k
    /\ \A i \in sorted_set : existed[i.key] = i

MapOf == [k \in Keys |-> IF existed[k] = NoItem THEN NoScore
                                                ELSE existed[k].score]

Map == INSTANCE SortedMap WITH score <- MapOf

(***************************************************************************)
(* SortedSet behaves as the map of SortedMap: add() replaces a key's       *)
(* score, front() and back() report and the pops remove exactly the key    *)
(* whose (score, key) is least or greatest, size() is the number of keys,  *)
(* and each result is the right one, whatever calls came before.           *)
(***************************************************************************)
ImplementsMap == Map!Spec
=============================================================================
