-------------------------- MODULE ContainerProofs --------------------------
(***************************************************************************)
(* Proofs about the containers of MCStorage.                               *)
(*                                                                         *)
(* SortedSet, for any finite set of keys and any scores: the two           *)
(* containers mirror each other, and together they are a SortedMap.        *)
(*                                                                         *)
(* IniFile, for any names, files and calls: no value is ever hidden by     *)
(* another one, and what WriteFile writes ReadFile reads back.             *)
(*                                                                         *)
(* EtagCache, for any number of shards, capacity, threads and tags: no     *)
(* iterator of a map dangles, and every shard is an LRU cache.             *)
(***************************************************************************)
EXTENDS MCStorage, FiniteSetTheorems, FunctionTheorems, SequenceTheorems,
        WellFoundedInduction, TLAPS
-----------------------------------------------------------------------------
(* Induction and recursion up to a number.                                 *)

(***************************************************************************)
(* A set of numbers that is not empty has a least one.                     *)
(***************************************************************************)
LEMMA NatMin ==
  ASSUME NEW T \in SUBSET Nat, T # {}
  PROVE  \E n \in T : \A m \in T : n <= m
<1>1. IsWellFoundedOn(OpToRel(<, Nat), Nat)
  BY NatLessThanWellFounded
<1>2. PICK n \in T : \A m \in T : <<m, n>> \notin OpToRel(<, Nat)
  BY <1>1, WFMin
<1>3. \A m \in T : ~(m < n)
  BY <1>2 DEF OpToRel
<1> QED
  BY <1>3

(***************************************************************************)
(* Induction up to n, for a set: its least number that is missing has a    *)
(* predecessor that is not.                                                *)
(***************************************************************************)
LEMMA InductionTo ==
  ASSUME NEW n \in Nat, NEW S, 0 \in S, \A i \in 1 .. n : i - 1 \in S => i \in S
  PROVE  \A i \in 0 .. n : i \in S
<1> DEFINE T == {i \in 0 .. n : i \notin S}
<1>1. SUFFICES ASSUME T # {} PROVE FALSE
  BY <1>1
<1>2. PICK i \in T : \A m \in T : i <= m
  <2>1. T \in SUBSET Nat
    OBVIOUS
  <2> QED
    BY <1>1, <2>1, NatMin
<1>3. i \in 1 .. n /\ i - 1 \in 0 .. n /\ i - 1 \notin T
  BY <1>2
<1> QED
  BY <1>2, <1>3

\* g begins with a and goes on, up to n, by the steps F.
Iterates(g, n, D, a, F) ==
  g \in [0 .. n -> D] /\ g[0] = a /\ \A i \in 1 .. n : g[i] = F[i][g[i - 1]]

(***************************************************************************)
(* There is a function with a given start and given steps: what a          *)
(* recursive definition over 0 .. n needs.                                 *)
(***************************************************************************)
LEMMA IterationExists ==
  ASSUME NEW n \in Nat, NEW D, NEW a \in D, NEW F \in [1 .. n -> [D -> D]]
  PROVE  \E g : Iterates(g, n, D, a, F)
<1> DEFINE S == {i \in 0 .. n : \E g : Iterates(g, i, D, a, F)}
<1>1. 0 \in S
  <2> DEFINE g == [j \in 0 .. 0 |-> a]
  <2>1. Iterates(g, 0, D, a, F)
    BY DEF Iterates
  <2> HIDE DEF g
  <2> QED
    BY <2>1
<1>2. ASSUME NEW i \in 1 .. n, i - 1 \in S PROVE i \in S
  <2>1. PICK g : Iterates(g, i - 1, D, a, F)
    BY <1>2
  <2> DEFINE h == [j \in 0 .. i |-> IF j = i THEN F[i][g[i - 1]] ELSE g[j]]
  <2>2. i - 1 \in 0 .. i - 1 /\ g[i - 1] \in D
    BY <2>1 DEF Iterates
  <2>3. h \in [0 .. i -> D]
    BY <2>1, <2>2 DEF Iterates
  <2>4. h[0] = a
    BY <2>1 DEF Iterates
  <2>5. ASSUME NEW j \in 1 .. i PROVE h[j] = F[j][h[j - 1]]
    <3>1. j - 1 \in 0 .. i - 1 /\ h[j - 1] = g[j - 1]
      OBVIOUS
    <3>2. CASE j = i
      BY <3>1, <3>2
    <3>3. CASE j # i
      <4>1. j \in 1 .. i - 1 /\ h[j] = g[j]
        BY <3>3
      <4> QED
        BY <2>1, <3>1, <4>1 DEF Iterates
    <3> QED
      BY <3>2, <3>3
  <2> HIDE DEF h
  <2>6. Iterates(h, i, D, a, F)
    BY <2>3, <2>4, <2>5 DEF Iterates
  <2> QED
    BY <2>6
<1> HIDE DEF S
<1>3. \A i \in 0 .. n : i \in S
  BY <1>1, <1>2, InductionTo
<1>4. n \in S
  BY <1>3
<1> QED
  BY <1>4 DEF S
-----------------------------------------------------------------------------
(* SortedSet.                                                              *)

Inv == TypeOK /\ Mirror

(***************************************************************************)
(* The containers keep their types and mirror each other initially and     *)
(* after every call.                                                       *)
(***************************************************************************)
LEMMA InitInv == Init => Inv
BY DEF Init, Inv, TypeOK, Mirror

(***************************************************************************)
(* Erasing an item together with its key's entry keeps the mirror.         *)
(***************************************************************************)
LEMMA DropInv ==
  ASSUME Inv, NEW i \in sorted_set, Drop(i)
  PROVE  Inv'
<1>1. i \in Item /\ i.key \in Keys /\ existed[i.key] = i
  BY DEF Inv, TypeOK, Mirror, Item
<1>2. /\ existed' \in [Keys -> Item \cup {NoItem}]
      /\ existed'[i.key] = NoItem
      /\ \A k \in Keys \ {i.key} : existed'[k] = existed[k]
  BY <1>1 DEF Drop, Inv, TypeOK
<1>3. \A j \in sorted_set' : j \in sorted_set /\ j # i /\ j.key \in Keys /\ j.key # i.key
  BY <1>1 DEF Drop, Inv, TypeOK, Mirror, Item
<1>4. TypeOK'
  BY <1>2 DEF Drop, Inv, TypeOK
<1>5. Mirror'
  <2>1. ASSUME NEW k \in Keys, existed'[k] # NoItem
        PROVE  existed'[k] \in sorted_set' /\ existed'[k].key = k
    BY <1>1, <1>2, <2>1 DEF Drop, Inv, Mirror
  <2>2. \A j \in sorted_set' : existed'[j.key] = j
    BY <1>2, <1>3 DEF Inv, Mirror
  <2> QED
    BY <2>1, <2>2 DEF Mirror
<1> QED
  BY <1>4, <1>5 DEF Inv

(***************************************************************************)
(* add() that writes: the key's old item, if any, makes way for the new.   *)
(***************************************************************************)
LEMMA AddInv ==
  ASSUME Inv, NEW k \in Keys, NEW s \in Scores, AddNew(k, s) \/ AddUpdated(k, s)
  PROVE  /\ Inv'
         /\ existed' = [existed EXCEPT ![k] = [key |-> k, score |-> s]]
<1> DEFINE item == [key |-> k, score |-> s]
<1>1. item \in Item /\ item.key = k
  BY DEF Item
<1>2. existed' = [existed EXCEPT ![k] = item]
  BY DEF AddNew, AddUpdated
<1>3. sorted_set' = (sorted_set \ {existed[k]}) \cup {item}
  <2>1. CASE AddNew(k, s)
    BY <2>1, NoItemAssumption DEF AddNew, Inv, TypeOK
  <2>2. CASE AddUpdated(k, s)
    BY <2>2 DEF AddUpdated
  <2> QED
    BY <2>1, <2>2
<1> HIDE DEF item
<1>4. /\ existed' \in [Keys -> Item \cup {NoItem}]
      /\ existed'[k] = item
      /\ \A j \in Keys \ {k} : existed'[j] = existed[j]
  BY <1>1, <1>2 DEF Inv, TypeOK
<1>5. \A i \in sorted_set' : i = item \/ (i \in sorted_set /\ i.key \in Keys \ {k})
  BY <1>3 DEF Inv, TypeOK, Mirror, Item
<1>6. TypeOK'
  BY <1>1, <1>3, <1>4 DEF Inv, TypeOK
<1>7. Mirror'
  <2>1. ASSUME NEW j \in Keys, existed'[j] # NoItem
        PROVE  existed'[j] \in sorted_set' /\ existed'[j].key = j
    <3>1. CASE j = k
      BY <1>1, <1>3, <1>4, <3>1
    <3>2. CASE j # k
      <4>1. existed'[j] = existed[j] /\ existed[j] \in sorted_set /\ existed[j].key = j
        BY <1>4, <2>1, <3>2 DEF Inv, Mirror
      <4>2. existed[k] \in sorted_set => existed[k].key = k
        BY NoItemAssumption DEF Inv, TypeOK, Mirror
      <4>3. existed[j] # existed[k]
        BY <3>2, <4>1, <4>2
      <4> QED
        BY <1>3, <4>1, <4>3
    <3> QED
      BY <3>1, <3>2
  <2>2. \A i \in sorted_set' : existed'[i.key] = i
    BY <1>1, <1>4, <1>5 DEF Inv, Mirror
  <2> QED
    BY <2>1, <2>2 DEF Mirror
<1> QED
  BY <1>2, <1>6, <1>7 DEF Inv, item

(***************************************************************************)
(* del() of a known key erases the item its iterator points to.            *)
(***************************************************************************)
LEMMA DelIsDrop ==
  ASSUME Inv, NEW k \in Keys, existed[k] # NoItem, Del(k)
  PROVE  existed[k] \in sorted_set /\ existed[k].key = k /\ Drop(existed[k])
BY DEF Inv, Mirror, Del, Drop

(***************************************************************************)
(* Every call keeps the mirror.                                            *)
(***************************************************************************)
LEMMA NextInv == Inv /\ [Next]_vars => Inv'
<1> SUFFICES ASSUME Inv, [Next]_vars PROVE Inv'
  OBVIOUS
<1>0. ASSUME UNCHANGED <<existed, sorted_set>> PROVE Inv'
  BY <1>0 DEF Inv, TypeOK, Mirror
<1>1. ASSUME NEW k \in Keys, NEW s \in Scores,
             AddNew(k, s) \/ AddUpdated(k, s) \/ AddSame(k, s)
      PROVE  Inv'
  BY <1>0, <1>1, AddInv DEF AddSame
<1>2. ASSUME NEW k \in Keys, Del(k) PROVE Inv'
  <2>1. CASE existed[k] = NoItem
    BY <1>0, <1>2, <2>1 DEF Del
  <2>2. CASE existed[k] # NoItem
    BY <1>2, <2>2, DelIsDrop, DropInv
  <2> QED
    BY <2>1, <2>2
<1>3. CASE Front \/ Back \/ Size \/ \E c \in {"front", "back", "pop_front", "pop_back"} : OnEmpty(c)
  BY <1>0, <1>3 DEF Front, Back, Size, OnEmpty
<1>4. CASE PopFront \/ PopBack
  BY <1>4, DropInv DEF PopFront, PopBack
<1>5. CASE UNCHANGED vars
  BY <1>0, <1>5 DEF vars
<1> QED
  BY <1>1, <1>2, <1>3, <1>4, <1>5 DEF Next

(***************************************************************************)
(* The containers keep their types.                                        *)
(***************************************************************************)
THEOREM TypeCorrect == Spec => []TypeOK
<1>1. Inv => TypeOK
  BY DEF Inv
<1> QED
  BY <1>1, InitInv, NextInv, PTL DEF Spec

(***************************************************************************)
(* existed and sorted_set mirror each other after any calls of add, del    *)
(* and the pops.                                                           *)
(***************************************************************************)
THEOREM ContainersMirror == Spec => []Mirror
<1>1. Inv => Mirror
  BY DEF Inv
<1> QED
  BY <1>1, InitInv, NextInv, PTL DEF Spec
-----------------------------------------------------------------------------
(***************************************************************************)
(* The map the containers stand for, key by key.                           *)
(***************************************************************************)
LEMMA MapFacts ==
  ASSUME Inv
  PROVE  /\ MapOf \in [Keys -> Int \cup {NoScore}]
         /\ \A k \in Keys : IF existed[k] = NoItem THEN MapOf[k] = NoScore
                            ELSE MapOf[k] = existed[k].score /\ MapOf[k] \in Int
         /\ \A k \in Keys : k \in Held(MapOf) <=> existed[k] # NoItem
         /\ \A i \in sorted_set : i.key \in Held(MapOf) /\ MapOf[i.key] = i.score
         /\ \A k \in Held(MapOf) : existed[k] \in sorted_set /\ existed[k].key = k
<1>1. \A k \in Keys : existed[k] # NoItem => existed[k] \in Item /\ existed[k].score \in Int
  BY ScoresAssumption DEF Inv, TypeOK, Item
<1>2. \A k \in Keys : IF existed[k] = NoItem THEN MapOf[k] = NoScore
                      ELSE MapOf[k] = existed[k].score /\ MapOf[k] \in Int
  BY <1>1 DEF MapOf
<1>3. \A k \in Keys : k \in Held(MapOf) <=> existed[k] # NoItem
  BY <1>2, NoScoreAssumption DEF Held
<1>4. \A i \in sorted_set : i.key \in Keys /\ existed[i.key] = i /\ i # NoItem
  BY NoItemAssumption DEF Inv, TypeOK, Mirror, Item
<1>5. MapOf \in [Keys -> Int \cup {NoScore}]
  BY <1>1 DEF MapOf
<1>6. \A k \in Held(MapOf) : existed[k] \in sorted_set /\ existed[k].key = k
  BY <1>3 DEF Inv, Mirror, Held
<1> QED
  BY <1>2, <1>3, <1>4, <1>5, <1>6

(***************************************************************************)
(* The first and the last item belong to the first and the last key.       *)
(***************************************************************************)
LEMMA EndsAgree ==
  ASSUME Inv, NEW i \in sorted_set
  PROVE  /\ First(i) => IsFront(MapOf, i.key)
         /\ Last(i) => IsBack(MapOf, i.key)
<1>1. i.key \in Held(MapOf) /\ MapOf[i.key] = i.score
  BY MapFacts
<1>2. ASSUME NEW b \in Held(MapOf) \ {i.key}
      PROVE  /\ existed[b] \in sorted_set \ {i}
             /\ existed[b].key = b
             /\ existed[b].score = MapOf[b]
  BY MapFacts
<1>3. First(i) => IsFront(MapOf, i.key)
  BY <1>1, <1>2 DEF First, IsFront, ItemLess, Before
<1>4. Last(i) => IsBack(MapOf, i.key)
  BY <1>1, <1>2 DEF Last, IsBack, ItemLess, Before
<1> QED
  BY <1>3, <1>4

(***************************************************************************)
(* size() counts the keys.                                                 *)
(***************************************************************************)
LEMMA SizeAgrees == ASSUME Inv PROVE Cardinality(sorted_set) = size(MapOf)
<1> DEFINE F == [k \in Held(MapOf) |-> existed[k]]
<1>1. F \in [Held(MapOf) -> sorted_set]
  BY MapFacts
<1>2. \A a, b \in Held(MapOf) : F[a] = F[b] => a = b
  BY MapFacts
<1>3. ASSUME NEW i \in sorted_set PROVE \E k \in Held(MapOf) : F[k] = i
  <2>1. i.key \in Held(MapOf) /\ existed[i.key] = i
    BY MapFacts DEF Inv, Mirror
  <2> QED
    BY <2>1
<1> HIDE DEF F
<1>4. ExistsBijection(Held(MapOf), sorted_set)
  <2>1. F \in Bijection(Held(MapOf), sorted_set)
    BY <1>1, <1>2, <1>3, Fun_IsBij
  <2> QED
    BY <2>1, Fun_ExistsBij
<1>5. IsFiniteSet(Held(MapOf))
  BY KeysAssumption, FS_Subset DEF Held
<1> QED
  BY <1>4, <1>5, FS_Bijection DEF size

(***************************************************************************)
(* Dropping an item is forgetting its key.                                 *)
(***************************************************************************)
LEMMA DropIsDel ==
  ASSUME Inv, NEW i \in sorted_set, Drop(i)
  PROVE  MapOf' = del(MapOf, i.key)
<1>1. i.key \in Keys
  BY DEF Inv, TypeOK, Item
<1>2. existed'[i.key] = NoItem /\ \A k \in Keys \ {i.key} : existed'[k] = existed[k]
  BY <1>1 DEF Drop, Inv, TypeOK
<1> QED
  BY <1>1, <1>2 DEF MapOf, del

(***************************************************************************)
(* Every call is the same call of SortedMap, with the same result.         *)
(***************************************************************************)
LEMMA StepRefines == Inv /\ [Next]_vars => [Map!Next]_(Map!vars)
<1> SUFFICES ASSUME Inv, [Next]_vars PROVE Map!Next \/ UNCHANGED Map!vars
  OBVIOUS
<1>0. ASSUME UNCHANGED <<existed, sorted_set>> PROVE MapOf' = MapOf
  BY <1>0 DEF MapOf
<1>1. ASSUME NEW k \in Keys, NEW s \in Scores,
             AddNew(k, s) \/ AddUpdated(k, s) \/ AddSame(k, s)
      PROVE  Map!Add(k, s)
  <2>1. MapOf' = [MapOf EXCEPT ![k] = s]
    <3>1. CASE AddNew(k, s) \/ AddUpdated(k, s)
      <4>1. existed' = [existed EXCEPT ![k] = [key |-> k, score |-> s]]
        BY <3>1, AddInv
      <4>2. /\ [key |-> k, score |-> s] # NoItem
            /\ [key |-> k, score |-> s].score = s
        BY NoItemAssumption DEF Item
      <4>3. /\ existed'[k] = [key |-> k, score |-> s]
            /\ \A j \in Keys \ {k} : existed'[j] = existed[j]
        BY <4>1 DEF Inv, TypeOK
      <4>4. /\ MapOf'[k] = s
            /\ \A j \in Keys \ {k} : MapOf'[j] = MapOf[j]
        BY <4>2, <4>3 DEF MapOf
      <4>5. MapOf' = [j \in Keys |-> MapOf'[j]] /\ MapOf = [j \in Keys |-> MapOf[j]]
        BY DEF MapOf
      <4> QED
        BY <4>4, <4>5
    <3>2. CASE AddSame(k, s)
      <4>1. MapOf' = MapOf /\ MapOf[k] = s
        BY <3>2, <1>0, MapFacts DEF AddSame
      <4> QED
        BY <4>1, MapFacts
    <3> QED
      BY <1>1, <3>1, <3>2
  <2>2. io' = <<"add", k, s, IF MapOf[k] = NoScore THEN 1 ELSE 0>>
    BY <1>1, MapFacts, NoScoreAssumption DEF AddNew, AddUpdated, AddSame
  <2> QED
    BY <2>1, <2>2 DEF Map!Add, Map!add, Map!Flag
<1>2. ASSUME NEW k \in Keys, Del(k) PROVE Map!Del(k)
  <2>1. CASE existed[k] = NoItem
    <3>1. MapOf' = MapOf /\ MapOf[k] = NoScore /\ io' = <<"del", k, 0>>
      BY <1>0, <1>2, <2>1, MapFacts DEF Del
    <3>2. MapOf = [MapOf EXCEPT ![k] = NoScore]
      BY <3>1, MapFacts
    <3> QED
      BY <3>1, <3>2 DEF Map!Del, Map!del, Map!Flag
  <2>2. CASE existed[k] # NoItem
    <3>1. MapOf' = del(MapOf, k) /\ MapOf[k] # NoScore /\ io' = <<"del", k, 1>>
      BY <1>2, <2>2, DelIsDrop, DropIsDel, MapFacts, NoScoreAssumption DEF Del
    <3> QED
      BY <3>1 DEF del, Map!Del, Map!del, Map!Flag
  <2> QED
    BY <2>1, <2>2
<1>3. CASE Front
  <2>1. PICK i \in sorted_set : /\ First(i) /\ io' = <<"front", 1, i.key, i.score>>
                                /\ UNCHANGED <<existed, sorted_set>>
    BY <1>3 DEF Front
  <2>2. i.key \in Keys /\ IsFront(MapOf, i.key) /\ MapOf[i.key] = i.score
    BY <2>1, EndsAgree, MapFacts DEF Held
  <2>3. Map!IsFront(MapOf, i.key)
    BY <2>2 DEF IsFront, Held, Before, Map!IsFront, Map!Held, Map!Before
  <2>4. Map!Front
    BY <1>0, <2>1, <2>2, <2>3 DEF Map!Front
  <2> QED
    BY <2>4 DEF Map!Next
<1>4. CASE Back
  <2>1. PICK i \in sorted_set : /\ Last(i) /\ io' = <<"back", 1, i.key, i.score>>
                                /\ UNCHANGED <<existed, sorted_set>>
    BY <1>4 DEF Back
  <2>2. i.key \in Keys /\ IsBack(MapOf, i.key) /\ MapOf[i.key] = i.score
    BY <2>1, EndsAgree, MapFacts DEF Held
  <2>3. Map!IsBack(MapOf, i.key)
    BY <2>2 DEF IsBack, Held, Before, Map!IsBack, Map!Held, Map!Before
  <2>4. Map!Back
    BY <1>0, <2>1, <2>2, <2>3 DEF Map!Back
  <2> QED
    BY <2>4 DEF Map!Next
<1>5. CASE PopFront
  <2>1. PICK i \in sorted_set : First(i) /\ Drop(i) /\ io' = <<"pop_front", 1>>
    BY <1>5 DEF PopFront
  <2>2. i.key \in Keys /\ IsFront(MapOf, i.key) /\ MapOf' = del(MapOf, i.key)
    BY <2>1, EndsAgree, DropIsDel, MapFacts DEF Held
  <2>3. ~ Map!empty(MapOf) /\ Map!IsFront(MapOf, i.key)
    BY <2>2 DEF IsFront, Held, Before, Map!empty, Map!IsFront, Map!Held, Map!Before
  <2>4. MapOf' \in Map!pop_front(MapOf)
    BY <2>2, <2>3 DEF del, Map!pop_front, Map!del
  <2> QED
    BY <2>1, <2>3, <2>4 DEF Map!Next, Map!PopFront, Map!Flag
<1>6. CASE PopBack
  <2>1. PICK i \in sorted_set : Last(i) /\ Drop(i) /\ io' = <<"pop_back", 1>>
    BY <1>6 DEF PopBack
  <2>2. i.key \in Keys /\ IsBack(MapOf, i.key) /\ MapOf' = del(MapOf, i.key)
    BY <2>1, EndsAgree, DropIsDel, MapFacts DEF Held
  <2>3. ~ Map!empty(MapOf) /\ Map!IsBack(MapOf, i.key)
    BY <2>2 DEF IsBack, Held, Before, Map!empty, Map!IsBack, Map!Held, Map!Before
  <2>4. MapOf' \in Map!pop_back(MapOf)
    BY <2>2, <2>3 DEF del, Map!pop_back, Map!del
  <2> QED
    BY <2>1, <2>3, <2>4 DEF Map!Next, Map!PopBack, Map!Flag
<1>7. CASE Size
  <2>1. io' = <<"size", size(MapOf)>> /\ MapOf' = MapOf
    BY <1>0, <1>7, SizeAgrees DEF Size
  <2>2. Map!Held(MapOf) = Held(MapOf)
    BY DEF Held, Map!Held
  <2>3. Map!size(MapOf) = size(MapOf)
    BY <2>2 DEF size, Map!size, Cardinality, Map!Cardinality
  <2> QED
    BY <2>1, <2>3 DEF Map!Next, Map!Size
<1>8. ASSUME NEW c \in {"front", "back", "pop_front", "pop_back"}, OnEmpty(c)
      PROVE  Map!Next
  <2>1. MapOf' = MapOf /\ io' = <<c, 0>>
    BY <1>0, <1>8 DEF OnEmpty
  <2>2. Map!empty(MapOf)
    BY <1>8, MapFacts DEF OnEmpty, Map!empty, Map!Held, Held
  <2>3. MapOf' \in Map!pop_front(MapOf) /\ MapOf' \in Map!pop_back(MapOf)
    BY <2>1, <2>2 DEF Map!pop_front, Map!pop_back
  <2>4. Map!Front \/ Map!Back \/ Map!PopFront \/ Map!PopBack
    BY <1>8, <2>1, <2>2, <2>3
    DEF Map!Front, Map!Back, Map!PopFront, Map!PopBack, Map!Flag
  <2> QED
    BY <2>4 DEF Map!Next
<1>9. CASE UNCHANGED vars
  BY <1>0, <1>9 DEF vars, Map!vars
<1> QED
  BY <1>1, <1>2, <1>3, <1>4, <1>5, <1>6, <1>7, <1>8, <1>9 DEF Next, Map!Next

(***************************************************************************)
(* SortedSet implements SortedMap: every sequence of calls gets the        *)
(* results the abstract map gives.                                         *)
(***************************************************************************)
THEOREM Refinement == Spec => ImplementsMap
<1>1. Init => Map!Init
  BY DEF Init, MapOf, Map!Init, Map!NoKeys
<1> QED
  BY <1>1, InitInv, NextInv, StepRefines, PTL DEF Spec, ImplementsMap, Map!Spec
-----------------------------------------------------------------------------
(* IniFile.                                                                *)

\* Two names that differ in case at most.
SameName(n, m) == CheckCase[n] = CheckCase[m]

IniName == Sections \cup ValueNames
IniText == Values \cup {""}
IniValue == [name : IniName, value : IniText]
IniSection == [name : IniName, values : Seq(IniValue), comments : Seq(IniText)]
IniObject == [sections : Seq(IniSection), comments : Seq(IniText)]

\* No two values have the same name.
ValuesOnce(v) == \A a, b \in DOMAIN v : SameName(v[a].name, v[b].name) => a = b

(***************************************************************************)
(* Of several sections with one name only the first has values, and no     *)
(* section has two values of one name.                                     *)
(***************************************************************************)
ShadowFree(s) ==
  /\ \A i, j \in DOMAIN s : i < j /\ SameName(s[i].name, s[j].name) => s[j].values = <<>>
  /\ \A i \in DOMAIN s : ValuesOnce(s[i].values)

Unshadowed == {o \in IniObject : ShadowFree(o.sections)}

\* FirstNamed finds the first of the elements with the name, if there is one.
LEMMA FirstNamedResult ==
  ASSUME NEW D, NEW s \in Seq(D), NEW n
  PROVE  \/ /\ Ini!FirstNamed(s, n) = 0
            /\ \A i \in DOMAIN s : ~SameName(s[i].name, n)
         \/ /\ Ini!FirstNamed(s, n) \in DOMAIN s
            /\ SameName(s[Ini!FirstNamed(s, n)].name, n)
            /\ \A i \in DOMAIN s : i < Ini!FirstNamed(s, n) => ~SameName(s[i].name, n)
<1> DEFINE S == {i \in DOMAIN s : CheckCase[s[i].name] = CheckCase[n]}
           k == Ini!FirstNamed(s, n)
<1>1. DOMAIN s = 1 .. Len(s) /\ Len(s) \in Nat
  OBVIOUS
<1>2. CASE S = {}
  BY <1>2 DEF Ini!FirstNamed, Ini!noID, SameName
<1>3. CASE S # {}
  <2>1. S \in SUBSET Nat
    BY <1>1
  <2>2. \E i \in S : \A j \in S : i <= j
    BY <1>3, <2>1, NatMin
  <2>3. k = CHOOSE i \in S : \A j \in S : i <= j
    BY <1>3 DEF Ini!FirstNamed
  <2>4. k \in S /\ \A j \in S : k <= j
    BY <2>2, <2>3
  <2> HIDE DEF k
  <2>5. ASSUME NEW i \in DOMAIN s, i < k PROVE ~SameName(s[i].name, n)
    <3>1. i \notin S
      BY <1>1, <2>1, <2>4, <2>5
    <3> QED
      BY <3>1 DEF SameName
  <2>6. k \in DOMAIN s /\ SameName(s[k].name, n)
    BY <2>4 DEF SameName
  <2> QED
    BY <2>5, <2>6 DEF k
<1> QED
  BY <1>2, <1>3

\* What FindKey and FindValue return on an object without shadows.
LEMMA UnshadowedLooks ==
  ASSUME ini \in Unshadowed
  PROVE  NothingShadowed
<1> DEFINE s == ini.sections
<1>1. ini \in IniObject /\ ShadowFree(s) /\ s \in Seq(IniSection)
  BY DEF Unshadowed, IniObject
<1> SUFFICES ASSUME NEW i \in DOMAIN s
             PROVE  /\ s[i].values # <<>> => Ini!FindKey(ini, s[i].name) = i
                    /\ \A j \in DOMAIN s[i].values :
                          Ini!FindValue(ini, i, s[i].values[j].name) = j
  BY DEF NothingShadowed, Ini!NothingShadowed
<1>2. DOMAIN s = 1 .. Len(s) /\ Len(s) \in Nat
  BY <1>1
<1>3. s[i] \in IniSection /\ s[i].values \in Seq(IniValue)
  <2>1. s[i] \in IniSection
    BY <1>1, <1>2
  <2> QED
    BY <2>1 DEF IniSection
<1>4. ASSUME s[i].values # <<>> PROVE Ini!FindKey(ini, s[i].name) = i
  <2> DEFINE k == Ini!FirstNamed(s, s[i].name)
  <2>1. SameName(s[i].name, s[i].name)
    BY DEF SameName
  <2>2. \/ k = 0 /\ \A j \in DOMAIN s : ~SameName(s[j].name, s[i].name)
        \/ /\ k \in DOMAIN s /\ SameName(s[k].name, s[i].name)
           /\ \A j \in DOMAIN s : j < k => ~SameName(s[j].name, s[i].name)
    BY <1>1, FirstNamedResult, Zenon
  <2>3. Ini!FindKey(ini, s[i].name) = k
    BY DEF Ini!FindKey
  <2> HIDE DEF k, s
  <2>4. k \in DOMAIN s /\ SameName(s[k].name, s[i].name) /\ ~(i < k)
    BY <2>1, <2>2
  <2>5. ~(k < i)
    BY <1>1, <1>4, <2>4 DEF ShadowFree
  <2> QED
    BY <1>2, <2>3, <2>4, <2>5
<1>5. ASSUME NEW j \in DOMAIN s[i].values PROVE Ini!FindValue(ini, i, s[i].values[j].name) = j
  <2> DEFINE v == s[i].values
             k == Ini!FirstNamed(v, v[j].name)
  <2>1. SameName(v[j].name, v[j].name)
    BY DEF SameName
  <2>2. \/ k = 0 /\ \A a \in DOMAIN v : ~SameName(v[a].name, v[j].name)
        \/ k \in DOMAIN v /\ SameName(v[k].name, v[j].name)
    BY <1>3, FirstNamedResult, Zenon
  <2>3. Ini!FindValue(ini, i, v[j].name) = k
    BY DEF Ini!FindValue
  <2>4. ValuesOnce(v)
    BY <1>1 DEF ShadowFree
  <2> HIDE DEF k, v
  <2>5. k \in DOMAIN v /\ SameName(v[k].name, v[j].name)
    BY <1>5, <2>1, <2>2 DEF v
  <2>6. k = j
    BY <1>5, <2>4, <2>5 DEF ValuesOnce, v
  <2> QED
    BY <2>3, <2>6 DEF v
<1> QED
  BY <1>4, <1>5

\* A list without one of its elements.
LEMMA IniRemoveAtResult ==
  ASSUME NEW D, NEW s \in Seq(D), NEW i \in DOMAIN s
  PROVE  /\ Ini!RemoveAt(s, i) \in Seq(D) /\ Len(Ini!RemoveAt(s, i)) = Len(s) - 1
         /\ Len(s) \in Nat /\ DOMAIN s = 1 .. Len(s)
         /\ \A j \in 1 .. Len(s) - 1 : Ini!RemoveAt(s, i)[j] = IF j < i THEN s[j] ELSE s[j + 1]
<1> DEFINE p == SubSeq(s, 1, i - 1)
           q == SubSeq(s, i + 1, Len(s))
<1>1. Len(s) \in Nat /\ DOMAIN s = 1 .. Len(s) /\ i \in 1 .. Len(s)
  OBVIOUS
<1>2. p \in Seq(D) /\ Len(p) = i - 1 /\ \A j \in 1 .. i - 1 : p[j] = s[j]
  BY <1>1
<1>3. q \in Seq(D) /\ Len(q) = Len(s) - i /\ \A j \in 1 .. Len(s) - i : q[j] = s[i + j]
  BY <1>1
<1>4. Ini!RemoveAt(s, i) = p \o q
  BY DEF Ini!RemoveAt
<1> HIDE DEF p, q
<1>5. /\ p \o q \in Seq(D) /\ Len(p \o q) = Len(p) + Len(q)
      /\ \A j \in 1 .. Len(p) : (p \o q)[j] = p[j]
      /\ \A j \in 1 .. Len(q) : (p \o q)[Len(p) + j] = q[j]
  <2>1. p \in Seq(D) /\ q \in Seq(D)
    BY <1>2, <1>3
  <2> QED
    BY <2>1
<1> DEFINE r == p \o q
<1> HIDE DEF r
<1>6. ASSUME NEW j \in 1 .. Len(s) - 1 PROVE r[j] = IF j < i THEN s[j] ELSE s[j + 1]
  <2>1. CASE j < i
    <3>1. j \in 1 .. i - 1
      BY <1>1, <2>1
    <3> QED
      BY <1>2, <1>5, <2>1, <3>1, Zenon DEF r
  <2>2. CASE ~(j < i)
    <3>1. j - (i - 1) \in 1 .. Len(s) - i /\ (i - 1) + (j - (i - 1)) = j /\ i + (j - (i - 1)) = j + 1
      BY <1>1, <2>2
    <3>2. r[j] = q[j - (i - 1)]
      <4>1. j - (i - 1) \in 1 .. Len(q) /\ Len(p) + (j - (i - 1)) = j
        BY <1>1, <1>2, <1>3, <3>1
      <4>2. r[Len(p) + (j - (i - 1))] = q[j - (i - 1)]
        BY <1>5, <4>1, Zenon DEF r
      <4> QED
        BY <4>1, <4>2
    <3>3. q[j - (i - 1)] = s[j + 1]
      BY <1>3, <3>1, Zenon
    <3> QED
      BY <2>2, <3>2, <3>3
  <2> QED
    BY <2>1, <2>2
<1>7. Len(r) = Len(s) - 1
  BY <1>1, <1>2, <1>3, <1>5 DEF r
<1> QED
  BY <1>1, <1>4, <1>5, <1>6, <1>7 DEF r

\* One section changes, and gets values only if it is the first of its name.
LEMMA ShadowFreeChanged ==
  ASSUME NEW s \in Seq(IniSection), ShadowFree(s), NEW i \in DOMAIN s, NEW k \in IniSection,
         k.name = s[i].name, ValuesOnce(k.values),
         k.values = <<>> \/ \A j \in DOMAIN s : j < i => ~SameName(s[j].name, k.name)
  PROVE  [s EXCEPT ![i] = k] \in Seq(IniSection) /\ ShadowFree([s EXCEPT ![i] = k])
<1> DEFINE t == [s EXCEPT ![i] = k]
<1>1. t \in Seq(IniSection) /\ DOMAIN t = DOMAIN s
  OBVIOUS
<1>2. \A j \in DOMAIN s : t[j] = IF j = i THEN k ELSE s[j]
  OBVIOUS
<1> HIDE DEF t
<1>3. \A j \in DOMAIN s : t[j].name = s[j].name
  BY <1>2
<1>4. ASSUME NEW a \in DOMAIN t, NEW b \in DOMAIN t, a < b, SameName(t[a].name, t[b].name)
      PROVE  t[b].values = <<>>
  <2>1. SameName(s[a].name, s[b].name)
    BY <1>1, <1>3, <1>4
  <2>2. CASE b # i
    BY <1>1, <1>2, <1>4, <2>1, <2>2 DEF ShadowFree
  <2>3. CASE b = i
    BY <1>1, <1>2, <1>4, <2>1, <2>3
  <2> QED
    BY <2>2, <2>3
<1>5. ASSUME NEW a \in DOMAIN t PROVE ValuesOnce(t[a].values)
  BY <1>1, <1>2 DEF ShadowFree
<1> QED
  BY <1>1, <1>4, <1>5 DEF ShadowFree, t

\* A new section has no values yet.
LEMMA ShadowFreeAppended ==
  ASSUME NEW s \in Seq(IniSection), ShadowFree(s), NEW k \in IniSection, k.values = <<>>
  PROVE  Append(s, k) \in Seq(IniSection) /\ ShadowFree(Append(s, k))
<1> DEFINE t == Append(s, k)
<1>1. t \in Seq(IniSection) /\ Len(t) = Len(s) + 1 /\ Len(s) \in Nat
  OBVIOUS
<1>2. \A j \in 1 .. Len(s) : t[j] = s[j]
  OBVIOUS
<1>3. t[Len(s) + 1] = k
  OBVIOUS
<1>4. DOMAIN t = 1 .. Len(s) + 1 /\ DOMAIN s = 1 .. Len(s)
  BY <1>1
<1> HIDE DEF t
<1>5. ASSUME NEW a \in DOMAIN t, NEW b \in DOMAIN t, a < b, SameName(t[a].name, t[b].name)
      PROVE  t[b].values = <<>>
  <2>1. CASE b = Len(s) + 1
    BY <1>3, <2>1
  <2>2. CASE b # Len(s) + 1
    <3>1. a \in DOMAIN s /\ b \in DOMAIN s
      BY <1>1, <1>4, <1>5, <2>2
    <3>2. t[a] = s[a] /\ t[b] = s[b]
      BY <1>2, <1>4, <3>1
    <3> QED
      BY <1>5, <3>1, <3>2 DEF ShadowFree
  <2> QED
    BY <2>1, <2>2
<1>6. ASSUME NEW a \in DOMAIN t PROVE ValuesOnce(t[a].values)
  <2>1. CASE a = Len(s) + 1
    BY <1>3, <2>1 DEF ValuesOnce
  <2>2. CASE a # Len(s) + 1
    <3>1. a \in DOMAIN s
      BY <1>1, <1>4, <2>2
    <3> QED
      BY <1>2, <1>4, <3>1 DEF ShadowFree
  <2> QED
    BY <2>1, <2>2
<1> QED
  BY <1>1, <1>5, <1>6 DEF ShadowFree, t

\* What is left when a section is removed keeps its order.
LEMMA ShadowFreeRemoved ==
  ASSUME NEW s \in Seq(IniSection), ShadowFree(s), NEW i \in DOMAIN s
  PROVE  Ini!RemoveAt(s, i) \in Seq(IniSection) /\ ShadowFree(Ini!RemoveAt(s, i))
<1> DEFINE t == Ini!RemoveAt(s, i)
           At(j) == IF j < i THEN j ELSE j + 1
<1>1. /\ t \in Seq(IniSection) /\ Len(t) = Len(s) - 1 /\ Len(s) \in Nat /\ DOMAIN s = 1 .. Len(s)
      /\ \A j \in 1 .. Len(s) - 1 : t[j] = IF j < i THEN s[j] ELSE s[j + 1]
  BY IniRemoveAtResult, Zenon
<1> HIDE DEF t
<1>2. DOMAIN t = 1 .. Len(s) - 1
  BY <1>1
<1>3. \A j \in DOMAIN t : At(j) \in DOMAIN s /\ t[j] = s[At(j)]
  BY <1>1, <1>2
<1>4. \A a, b \in DOMAIN t : a < b => At(a) < At(b)
  BY <1>1, <1>2
<1> HIDE DEF At
<1>5. ASSUME NEW a \in DOMAIN t, NEW b \in DOMAIN t, a < b, SameName(t[a].name, t[b].name)
      PROVE  t[b].values = <<>>
  BY <1>3, <1>4, <1>5 DEF ShadowFree
<1>6. ASSUME NEW a \in DOMAIN t PROVE ValuesOnce(t[a].values)
  BY <1>3 DEF ShadowFree
<1> QED
  BY <1>1, <1>5, <1>6 DEF ShadowFree, t

\* A value with a name that is not there yet.
LEMMA ValuesOnceAppended ==
  ASSUME NEW v \in Seq(IniValue), ValuesOnce(v), NEW e \in IniValue,
         \A a \in DOMAIN v : ~SameName(v[a].name, e.name)
  PROVE  Append(v, e) \in Seq(IniValue) /\ ValuesOnce(Append(v, e))
<1> DEFINE w == Append(v, e)
<1>1. w \in Seq(IniValue) /\ Len(w) = Len(v) + 1 /\ Len(v) \in Nat
  OBVIOUS
<1>2. \A j \in 1 .. Len(v) : w[j] = v[j]
  OBVIOUS
<1>3. w[Len(v) + 1] = e
  OBVIOUS
<1>4. DOMAIN w = 1 .. Len(v) + 1 /\ DOMAIN v = 1 .. Len(v)
  BY <1>1
<1> HIDE DEF w
<1>5. ASSUME NEW a \in DOMAIN w, NEW b \in DOMAIN w, SameName(w[a].name, w[b].name) PROVE a = b
  <2>1. ASSUME NEW c \in DOMAIN w PROVE c = Len(v) + 1 \/ c \in DOMAIN v
    BY <1>1, <1>4
  <2>2. CASE a \in DOMAIN v /\ b \in DOMAIN v
    <3>1. w[a] = v[a] /\ w[b] = v[b]
      BY <1>2, <1>4, <2>2
    <3> QED
      BY <1>5, <2>2, <3>1 DEF ValuesOnce
  <2>3. CASE a \in DOMAIN v /\ b = Len(v) + 1
    <3>1. w[a] = v[a] /\ w[b] = e
      BY <1>2, <1>3, <1>4, <2>3
    <3> QED
      BY <1>5, <2>3, <3>1
  <2>4. CASE a = Len(v) + 1 /\ b \in DOMAIN v
    <3>1. w[b] = v[b] /\ w[a] = e
      BY <1>2, <1>3, <1>4, <2>4
    <3> QED
      BY <1>5, <2>4, <3>1 DEF SameName
  <2> QED
    BY <2>1, <2>2, <2>3, <2>4
<1> QED
  BY <1>1, <1>5 DEF ValuesOnce, w

\* A value that changes keeps its name.
LEMMA ValuesOnceChanged ==
  ASSUME NEW v \in Seq(IniValue), ValuesOnce(v), NEW a \in DOMAIN v, NEW t \in IniText
  PROVE  [v EXCEPT ![a].value = t] \in Seq(IniValue) /\ ValuesOnce([v EXCEPT ![a].value = t])
<1> DEFINE w == [v EXCEPT ![a].value = t]
<1>1. v[a] \in IniValue
  OBVIOUS
<1>2. [v[a] EXCEPT !.value = t] \in IniValue /\ [v[a] EXCEPT !.value = t].name = v[a].name
  BY <1>1 DEF IniValue
<1>3. w \in Seq(IniValue) /\ DOMAIN w = DOMAIN v
  BY <1>2
<1>4. \A b \in DOMAIN v : w[b].name = v[b].name
  BY <1>2
<1> HIDE DEF w
<1>5. ValuesOnce(w)
  BY <1>3, <1>4 DEF ValuesOnce
<1> QED
  BY <1>3, <1>5 DEF w

\* The values that are left keep their names.
LEMMA ValuesOnceRemoved ==
  ASSUME NEW v \in Seq(IniValue), ValuesOnce(v), NEW i \in DOMAIN v
  PROVE  Ini!RemoveAt(v, i) \in Seq(IniValue) /\ ValuesOnce(Ini!RemoveAt(v, i))
<1> DEFINE t == Ini!RemoveAt(v, i)
           At(j) == IF j < i THEN j ELSE j + 1
<1>1. /\ t \in Seq(IniValue) /\ Len(t) = Len(v) - 1 /\ Len(v) \in Nat /\ DOMAIN v = 1 .. Len(v)
      /\ \A j \in 1 .. Len(v) - 1 : t[j] = IF j < i THEN v[j] ELSE v[j + 1]
  BY IniRemoveAtResult, Zenon
<1> HIDE DEF t
<1>2. DOMAIN t = 1 .. Len(v) - 1
  BY <1>1
<1>3. \A j \in DOMAIN t : At(j) \in DOMAIN v /\ t[j] = v[At(j)]
  BY <1>1, <1>2
<1>4. \A a, b \in DOMAIN t : At(a) = At(b) => a = b
  BY <1>1, <1>2
<1> HIDE DEF At
<1>5. ASSUME NEW a \in DOMAIN t, NEW b \in DOMAIN t, SameName(t[a].name, t[b].name) PROVE a = b
  BY <1>3, <1>4, <1>5 DEF ValuesOnce
<1> QED
  BY <1>1, <1>5 DEF ValuesOnce, t

\* The lines of a file have names and texts.
LEMMA IniTypes ==
  ASSUME Ini!CallsAssumption
  PROVE  /\ "" \in IniName /\ "" \in IniText /\ Sections \subseteq IniName
         /\ ValueNames \subseteq IniName /\ Values \subseteq IniText
         /\ UserFiles \subseteq Seq(Ini!FileLine)
         /\ \A l \in Ini!FileLine : l.name \in IniName /\ l.text \in IniText
BY DEF Ini!CallsAssumption, IniName, IniText, Ini!FileLine

\* The fields of an object without shadows, and the object made of them.
LEMMA UnshadowedFields ==
  ASSUME NEW o \in Unshadowed
  PROVE  /\ o.sections \in Seq(IniSection) /\ ShadowFree(o.sections) /\ o.comments \in Seq(IniText)
         /\ o = [sections |-> o.sections, comments |-> o.comments]
         /\ DOMAIN o.sections = 1 .. Len(o.sections) /\ Len(o.sections) \in Nat
<1>1. o \in [sections : Seq(IniSection), comments : Seq(IniText)] /\ ShadowFree(o.sections)
  BY DEF Unshadowed, IniObject
<1> QED
  BY <1>1

\* A field of an object is assigned to.
LEMMA ObjectExcept ==
  ASSUME NEW o \in Unshadowed, NEW s, NEW c
  PROVE  /\ [o EXCEPT !.sections = s] = [sections |-> s, comments |-> o.comments]
         /\ [o EXCEPT !.comments = c] = [sections |-> o.sections, comments |-> c]
BY DEF Unshadowed, IniObject

\* An object made of sections without shadows.
LEMMA UnshadowedMade ==
  ASSUME NEW s \in Seq(IniSection), ShadowFree(s), NEW c \in Seq(IniText)
  PROVE  [sections |-> s, comments |-> c] \in Unshadowed
BY DEF Unshadowed, IniObject

\* The fields of a section.
LEMMA SectionFields ==
  ASSUME NEW s \in Seq(IniSection), NEW i \in DOMAIN s
  PROVE  /\ s[i] \in IniSection /\ s[i].name \in IniName /\ s[i].values \in Seq(IniValue)
         /\ s[i].comments \in Seq(IniText)
<1>1. s[i] \in IniSection
  OBVIOUS
<1> QED
  BY <1>1 DEF IniSection

\* AddKeyName on an object without shadows.
LEMMA AddKeyNameResult ==
  ASSUME NEW o \in Unshadowed, NEW n \in IniName
  PROVE  /\ Ini!AddKeyName(o, n) \in Unshadowed
         /\ Ini!AddKeyName(o, n).sections = Append(o.sections, Ini!Section(n))
         /\ Ini!AddKeyName(o, n).comments = o.comments
<1> DEFINE s == Append(o.sections, Ini!Section(n))
<1>1. Ini!Section(n) \in IniSection /\ Ini!Section(n).values = <<>>
  BY DEF Ini!Section, IniSection
<1>2. s \in Seq(IniSection) /\ ShadowFree(s)
  BY <1>1, UnshadowedFields, ShadowFreeAppended
<1>3. Ini!AddKeyName(o, n) = [sections |-> s, comments |-> o.comments]
  <2>1. o = [sections |-> o.sections, comments |-> o.comments]
    BY UnshadowedFields
  <2> QED
    BY <2>1 DEF Ini!AddKeyName
<1> HIDE DEF s
<1>4. Ini!AddKeyName(o, n) \in Unshadowed
  BY <1>2, <1>3, UnshadowedFields, UnshadowedMade
<1> QED
  BY <1>3, <1>4 DEF s

\* FindKey finds the first section of the name.
LEMMA FindKeyResult ==
  ASSUME NEW o \in Unshadowed, NEW n
  PROVE  \/ /\ Ini!FindKey(o, n) = 0
            /\ \A i \in DOMAIN o.sections : ~SameName(o.sections[i].name, n)
         \/ /\ Ini!FindKey(o, n) \in DOMAIN o.sections
            /\ SameName(o.sections[Ini!FindKey(o, n)].name, n)
            /\ \A i \in DOMAIN o.sections :
                  i < Ini!FindKey(o, n) => ~SameName(o.sections[i].name, n)
<1>1. o.sections \in Seq(IniSection)
  BY UnshadowedFields
<1> QED
  BY <1>1, FirstNamedResult, Zenon DEF Ini!FindKey

\* A change of one section, which keeps its name and gets values only if it is the first.
LEMMA SectionReplaced ==
  ASSUME NEW o \in Unshadowed, NEW i \in DOMAIN o.sections, NEW k \in IniSection,
         k.name = o.sections[i].name, ValuesOnce(k.values),
         k.values = <<>> \/ \A j \in DOMAIN o.sections : j < i => ~SameName(o.sections[j].name, k.name)
  PROVE  [sections |-> [o.sections EXCEPT ![i] = k], comments |-> o.comments] \in Unshadowed
<1> DEFINE s == o.sections
           t == [s EXCEPT ![i] = k]
<1>1. s \in Seq(IniSection) /\ ShadowFree(s) /\ o.comments \in Seq(IniText)
  BY UnshadowedFields
<1>2. t \in Seq(IniSection) /\ ShadowFree(t)
  BY <1>1, ShadowFreeChanged
<1> HIDE DEF t
<1>3. [sections |-> t, comments |-> o.comments] \in Unshadowed
  BY <1>1, <1>2, UnshadowedMade
<1> QED
  BY <1>3 DEF t

\* The section with other values, and with other comments.
WithValues(k, v) == [name |-> k.name, values |-> v, comments |-> k.comments]
WithComments(k, c) == [name |-> k.name, values |-> k.values, comments |-> c]

\* A section whose values or comments are assigned to.
LEMMA SectionExcept ==
  ASSUME NEW k \in IniSection, NEW v, NEW c
  PROVE  /\ [k EXCEPT !.values = v] = WithValues(k, v)
         /\ [k EXCEPT !.comments = c] = WithComments(k, c)
BY DEF IniSection, WithValues, WithComments

\* The values SetValue leaves in the section it finds.
ValuesSet(v, n, t) ==
  IF Ini!FirstNamed(v, n) = 0 THEN Append(v, [name |-> n, value |-> t])
  ELSE [v EXCEPT ![Ini!FirstNamed(v, n)].value = t]

\* They have no name twice.
LEMMA ValuesSetOnce ==
  ASSUME NEW v \in Seq(IniValue), ValuesOnce(v), NEW n \in IniName, NEW t \in IniText
  PROVE  ValuesSet(v, n, t) \in Seq(IniValue) /\ ValuesOnce(ValuesSet(v, n, t))
<1> DEFINE a == Ini!FirstNamed(v, n)
           e == [name |-> n, value |-> t]
<1>1. \/ a = 0 /\ \A i \in DOMAIN v : ~SameName(v[i].name, n)
      \/ a \in DOMAIN v
  BY FirstNamedResult, Zenon
<1>2. e \in IniValue /\ e.name = n
  BY DEF IniValue
<1>3. ValuesSet(v, n, t) = IF a = 0 THEN Append(v, e) ELSE [v EXCEPT ![a].value = t]
  BY DEF ValuesSet
<1> HIDE DEF a, e
<1>4. CASE a = 0 /\ \A i \in DOMAIN v : ~SameName(v[i].name, n)
  BY <1>2, <1>3, <1>4, ValuesOnceAppended
<1>5. CASE a \in DOMAIN v
  <2>1. a # 0
    BY <1>5
  <2>2. [v EXCEPT ![a].value = t] \in Seq(IniValue) /\ ValuesOnce([v EXCEPT ![a].value = t])
    BY <1>5, ValuesOnceChanged, Zenon
  <2>3. ValuesSet(v, n, t) = [v EXCEPT ![a].value = t]
    BY <1>3, <2>1
  <2> QED
    BY <2>2, <2>3, Zenon
<1> QED
  BY <1>1, <1>4, <1>5

\* The object with a value of section i set.
ValueSetIn(o, i, m, t) ==
  LET k == WithValues(o.sections[i], ValuesSet(o.sections[i].values, m, t))
  IN  [sections |-> [o.sections EXCEPT ![i] = k], comments |-> o.comments]

\* SetValue of a name whose section is there.
LEMMA SetValueFound ==
  ASSUME NEW o \in Unshadowed, NEW n, NEW m \in IniName, NEW t \in IniText, Ini!FindKey(o, n) # 0
  PROVE  /\ Ini!SetValue(o, n, m, t) = ValueSetIn(o, Ini!FindKey(o, n), m, t)
         /\ Ini!SetValue(o, n, m, t) \in Unshadowed
<1> DEFINE i == Ini!FindKey(o, n)
           s == o.sections
           v == ValuesSet(s[i].values, m, t)
           k == WithValues(s[i], v)
<1>1. /\ i \in DOMAIN s /\ SameName(s[i].name, n)
      /\ \A j \in DOMAIN s : j < i => ~SameName(s[j].name, n)
  BY FindKeyResult
<1>2. s \in Seq(IniSection) /\ ShadowFree(s) /\ o = [sections |-> s, comments |-> o.comments]
  BY UnshadowedFields
<1>3. /\ s[i].name \in IniName /\ s[i].values \in Seq(IniValue) /\ s[i].comments \in Seq(IniText)
      /\ s[i] \in IniSection
  BY <1>1, <1>2, SectionFields
<1>4. ValuesOnce(s[i].values)
  BY <1>1, <1>2 DEF ShadowFree
<1>5. Ini!SetValue(o, n, m, t) = [sections |-> [s EXCEPT ![i] = k], comments |-> o.comments]
  <2> DEFINE a == Ini!FirstNamed(s[i].values, m)
             e == [name |-> m, value |-> t]
  <2>1. Ini!SetValue(o, n, m, t) =
          IF a = 0 THEN [o EXCEPT !.sections[i].values = Append(@, e)]
          ELSE [o EXCEPT !.sections[i].values[a].value = t]
    BY DEF Ini!SetValue, Ini!FindValue, Ini!noID
  <2>2. v = IF a = 0 THEN Append(s[i].values, e) ELSE [s[i].values EXCEPT ![a].value = t]
    BY DEF ValuesSet
  <2> HIDE DEF a, e, i
  <2>3. CASE a = 0
    <3>1. k = [s[i] EXCEPT !.values = Append(@, e)]
      BY <1>3, <2>2, <2>3, SectionExcept
    <3> HIDE DEF k, v
    <3>2. [o EXCEPT !.sections[i].values = Append(@, e)] = [o EXCEPT !.sections[i] = k]
      BY <3>1
    <3> QED
      BY <1>2, <2>1, <2>3, <3>2
  <2>4. CASE a # 0
    <3> DEFINE z == s[i]
    <3>1. k = [z EXCEPT !.values = v]
      BY <1>3, SectionExcept
    <3>2. v = [z.values EXCEPT ![a].value = t]
      BY <2>2, <2>4
    <3>3. [z EXCEPT !.values[a].value = t] = [z EXCEPT !.values = [z.values EXCEPT ![a].value = t]]
      OBVIOUS
    <3>4. k = [s[i] EXCEPT !.values[a].value = t]
      BY <3>1, <3>2, <3>3
    <3> HIDE DEF k, v
    <3>5. [o EXCEPT !.sections[i].values[a].value = t] = [o EXCEPT !.sections[i] = k]
      BY <3>4
    <3> QED
      BY <1>2, <2>1, <2>4, <3>5
  <2> QED
    BY <2>3, <2>4
<1>6. [sections |-> [s EXCEPT ![i] = k], comments |-> o.comments] \in Unshadowed
  <2>1. v \in Seq(IniValue) /\ ValuesOnce(v)
    BY <1>3, <1>4, ValuesSetOnce
  <2>2. k \in IniSection /\ k.name = s[i].name /\ k.values = v
    BY <1>3, <2>1 DEF WithValues, IniSection
  <2>3. \A j \in DOMAIN s : j < i => ~SameName(s[j].name, s[i].name)
    BY <1>1 DEF SameName
  <2> HIDE DEF k, i, v
  <2> QED
    BY <1>1, <2>1, <2>2, <2>3, SectionReplaced
<1> QED
  BY <1>5, <1>6 DEF ValueSetIn

\* SetValue that makes the section first.
LEMMA SetValueMade ==
  ASSUME NEW o \in Unshadowed, NEW n \in IniName, NEW m, NEW t, Ini!FindKey(o, n) = 0
  PROVE  /\ Ini!FindKey(Ini!AddKeyName(o, n), n) # 0
         /\ Ini!SetValue(o, n, m, t) = Ini!SetValue(Ini!AddKeyName(o, n), n, m, t)
<1> DEFINE y == Ini!AddKeyName(o, n)
           s == o.sections
<1>1. y \in Unshadowed /\ y.sections = Append(s, Ini!Section(n))
  BY AddKeyNameResult
<1>2. s \in Seq(IniSection) /\ Len(s) \in Nat
  BY UnshadowedFields
<1> HIDE DEF y
<1>3. Len(s) + 1 \in DOMAIN y.sections /\ y.sections[Len(s) + 1].name = n
  BY <1>1, <1>2 DEF Ini!Section
<1>4. Ini!FindKey(y, n) # 0
  BY <1>1, <1>3, FindKeyResult DEF SameName
<1>5. Ini!SetValue(o, n, m, t) = Ini!SetValue(y, n, m, t)
  BY <1>4 DEF Ini!SetValue, Ini!noID, y
<1> QED
  BY <1>4, <1>5 DEF y

\* SetValue on an object without shadows.
LEMMA SetValueUnshadowed ==
  ASSUME NEW o \in Unshadowed, NEW n \in IniName, NEW m \in IniName, NEW t \in IniText
  PROVE  Ini!SetValue(o, n, m, t) \in Unshadowed
<1>1. CASE Ini!FindKey(o, n) # 0
  BY <1>1, SetValueFound, Zenon
<1>2. CASE Ini!FindKey(o, n) = 0
  <2> DEFINE y == Ini!AddKeyName(o, n)
  <2>1. y \in Unshadowed
    BY AddKeyNameResult
  <2>2. Ini!FindKey(y, n) # 0 /\ Ini!SetValue(o, n, m, t) = Ini!SetValue(y, n, m, t)
    BY <1>2, SetValueMade
  <2> HIDE DEF y
  <2>3. Ini!SetValue(y, n, m, t) \in Unshadowed
    BY <2>1, <2>2, SetValueFound, Zenon
  <2> QED
    BY <2>2, <2>3
<1> QED
  BY <1>1, <1>2

\* A section that has values is the first of its name.
LEMMA FirstOrEmpty ==
  ASSUME NEW o \in Unshadowed, NEW i \in DOMAIN o.sections
  PROVE  \/ o.sections[i].values = <<>>
         \/ \A j \in DOMAIN o.sections : j < i => ~SameName(o.sections[j].name, o.sections[i].name)
BY UnshadowedFields DEF ShadowFree

\* The comments of a section change.
LEMMA CommentsReplaced ==
  ASSUME NEW o \in Unshadowed, NEW i \in DOMAIN o.sections, NEW c \in Seq(IniText)
  PROVE  /\ [o EXCEPT !.sections[i].comments = c] \in Unshadowed
         /\ [o EXCEPT !.sections[i].comments = c]
              = [sections |-> [o.sections EXCEPT ![i] = WithComments(o.sections[i], c)],
                 comments |-> o.comments]
<1> DEFINE s == o.sections
           k == WithComments(s[i], c)
<1>1. s \in Seq(IniSection) /\ ShadowFree(s) /\ o = [sections |-> s, comments |-> o.comments]
  BY UnshadowedFields
<1>2. s[i].name \in IniName /\ s[i].values \in Seq(IniValue) /\ s[i] \in IniSection
  BY <1>1, SectionFields
<1>3. k \in IniSection /\ k.name = s[i].name /\ k.values = s[i].values
  BY <1>2 DEF WithComments, IniSection
<1>4. ValuesOnce(k.values)
  BY <1>1, <1>3 DEF ShadowFree
<1>5. k = [s[i] EXCEPT !.comments = c]
  BY <1>2, SectionExcept
<1> HIDE DEF k
<1>6. k.values = <<>> \/ \A j \in DOMAIN s : j < i => ~SameName(s[j].name, k.name)
  BY <1>3, FirstOrEmpty
<1>7. [o EXCEPT !.sections[i].comments = c] = [sections |-> [s EXCEPT ![i] = k], comments |-> o.comments]
  <2>1. [o EXCEPT !.sections[i].comments = c] = [o EXCEPT !.sections = [s EXCEPT ![i] = k]]
    BY <1>5
  <2> QED
    BY <2>1, ObjectExcept
<1>8. [sections |-> [s EXCEPT ![i] = k], comments |-> o.comments] \in Unshadowed
  BY <1>3, <1>4, <1>6, SectionReplaced
<1> QED
  BY <1>7, <1>8 DEF k

\* The values of the first section of a name change.
LEMMA ValuesReplaced ==
  ASSUME NEW o \in Unshadowed, NEW i \in DOMAIN o.sections, o.sections[i].values # <<>>,
         NEW v \in Seq(IniValue), ValuesOnce(v)
  PROVE  [o EXCEPT !.sections[i].values = v] \in Unshadowed
<1> DEFINE s == o.sections
           k == WithValues(s[i], v)
<1>1. s \in Seq(IniSection) /\ ShadowFree(s) /\ o = [sections |-> s, comments |-> o.comments]
  BY UnshadowedFields
<1>2. s[i].name \in IniName /\ s[i].comments \in Seq(IniText) /\ s[i] \in IniSection
  BY <1>1, SectionFields
<1>3. k \in IniSection /\ k.name = s[i].name /\ k.values = v
  BY <1>2 DEF WithValues, IniSection
<1>5. k = [s[i] EXCEPT !.values = v]
  BY <1>2, SectionExcept
<1> HIDE DEF k
<1>6. \A j \in DOMAIN s : j < i => ~SameName(s[j].name, k.name)
  BY <1>3, FirstOrEmpty
<1>7. [o EXCEPT !.sections[i].values = v] = [sections |-> [s EXCEPT ![i] = k], comments |-> o.comments]
  <2>1. [o EXCEPT !.sections[i].values = v] = [o EXCEPT !.sections = [s EXCEPT ![i] = k]]
    BY <1>5
  <2> QED
    BY <2>1, ObjectExcept
<1>8. [sections |-> [s EXCEPT ![i] = k], comments |-> o.comments] \in Unshadowed
  BY <1>3, <1>6, SectionReplaced
<1> QED
  BY <1>7, <1>8

\* HeaderComment and KeyComment.
LEMMA CommentUnshadowed ==
  ASSUME NEW o \in Unshadowed, NEW n, NEW c \in IniText
  PROVE  Ini!HeaderComment(o, c) \in Unshadowed /\ Ini!KeyComment(o, n, c) \in Unshadowed
<1>1. o.sections \in Seq(IniSection) /\ ShadowFree(o.sections) /\ o.comments \in Seq(IniText)
      /\ o = [sections |-> o.sections, comments |-> o.comments]
  BY UnshadowedFields
<1>2. Ini!HeaderComment(o, c) \in Unshadowed
  <2>1. Ini!HeaderComment(o, c) = [sections |-> o.sections, comments |-> Append(o.comments, c)]
    BY ObjectExcept DEF Ini!HeaderComment
  <2>2. Append(o.comments, c) \in Seq(IniText)
    BY <1>1
  <2> QED
    BY <1>1, <2>1, <2>2, UnshadowedMade
<1>3. Ini!KeyComment(o, n, c) \in Unshadowed
  <2> DEFINE i == Ini!FindKey(o, n)
             d == Append(o.sections[i].comments, c)
  <2>1. CASE i = 0
    BY <2>1 DEF Ini!KeyComment, Ini!noID
  <2>2. CASE i # 0
    <3>1. i \in DOMAIN o.sections
      BY <2>2, FindKeyResult
    <3>2. Ini!KeyComment(o, n, c) = [o EXCEPT !.sections[i].comments = d]
      BY <2>2 DEF Ini!KeyComment, Ini!noID
    <3>3. d \in Seq(IniText)
      BY <1>1, <3>1, SectionFields
    <3> HIDE DEF i, d
    <3>4. [o EXCEPT !.sections[i].comments = d] \in Unshadowed
      BY <3>1, <3>3, CommentsReplaced, Zenon
    <3> QED
      BY <3>2, <3>4
  <2> QED
    BY <2>1, <2>2
<1> QED
  BY <1>2, <1>3

\* What ReadFile has in hand between two lines.
Reading == [ini : Unshadowed, keyname : IniName, failed : BOOLEAN]

\* Whatever the next line is, ReadFile leaves nothing shadowed.
LEMMA ReadLineUnshadowed ==
  ASSUME Ini!CallsAssumption, NEW st \in Reading, NEW l \in Ini!FileLine
  PROVE  Ini!ReadLine(st, l) \in Reading
<1>1. /\ st.ini \in Unshadowed /\ st.keyname \in IniName /\ st.failed \in BOOLEAN
      /\ st = [ini |-> st.ini, keyname |-> st.keyname, failed |-> st.failed]
  BY DEF Reading
<1>2. l.name \in IniName /\ l.text \in IniText
  BY IniTypes
<1>3. CASE st.failed \/ l.kind = "blank"
  BY <1>3 DEF Ini!ReadLine
<1>4. CASE ~st.failed /\ l.kind = "binary"
  BY <1>1, <1>4 DEF Ini!ReadLine, Reading
<1>5. CASE ~st.failed /\ l.kind = "section"
  <2>1. Ini!ReadLine(st, l) =
          [ini |-> Ini!AddKeyName(st.ini, l.name), keyname |-> l.name, failed |-> st.failed]
    BY <1>1, <1>5 DEF Ini!ReadLine
  <2>2. Ini!AddKeyName(st.ini, l.name) \in Unshadowed
    BY <1>1, <1>2, AddKeyNameResult
  <2> QED
    BY <1>1, <1>2, <2>1, <2>2 DEF Reading
<1>6. CASE ~st.failed /\ l.kind = "value"
  <2>1. Ini!ReadLine(st, l) =
          [ini |-> Ini!SetValue(st.ini, st.keyname, l.name, l.text), keyname |-> st.keyname,
           failed |-> st.failed]
    BY <1>1, <1>6 DEF Ini!ReadLine
  <2>2. Ini!SetValue(st.ini, st.keyname, l.name, l.text) \in Unshadowed
    BY <1>1, <1>2, SetValueUnshadowed
  <2> QED
    BY <1>1, <2>1, <2>2 DEF Reading
<1>7. CASE ~st.failed /\ l.kind = "comment"
  <2> DEFINE o == IF st.ini.sections = <<>> THEN Ini!HeaderComment(st.ini, l.text)
                  ELSE Ini!KeyComment(st.ini, st.keyname, l.text)
  <2>1. Ini!ReadLine(st, l) = [ini |-> o, keyname |-> st.keyname, failed |-> st.failed]
    BY <1>1, <1>7 DEF Ini!ReadLine
  <2>2. o \in Unshadowed
    BY <1>1, <1>2, CommentUnshadowed
  <2> HIDE DEF o
  <2> QED
    BY <1>1, <2>1, <2>2 DEF Reading
<1>8. l.kind \in {"section", "value", "comment", "blank", "binary"}
  BY DEF Ini!FileLine
<1> QED
  BY <1>1, <1>3, <1>4, <1>5, <1>6, <1>7, <1>8

\* ReadFile line by line: the states between the lines.
LEMMA ReadLinesResult ==
  ASSUME Ini!CallsAssumption, NEW st \in Reading, NEW l \in Seq(Ini!FileLine)
  PROVE  \E g : /\ g \in [0 .. Len(l) -> Reading] /\ g[0] = st
                /\ \A i \in 1 .. Len(l) : g[i] = Ini!ReadLine(g[i - 1], l[i])
                /\ Ini!ReadLines(st, l) = g[Len(l)]
<1> DEFINE n == Len(l)
           F == [i \in 1 .. n |-> [r \in Reading |-> Ini!ReadLine(r, l[i])]]
           G(g) == [i \in 0 .. n |-> IF i = 0 THEN st ELSE Ini!ReadLine(g[i - 1], l[i])]
           f == CHOOSE g : g = G(g)
<1>1. n \in Nat /\ \A i \in 1 .. n : l[i] \in Ini!FileLine
  OBVIOUS
<1>2. \A i \in 1 .. n : \A r \in Reading : Ini!ReadLine(r, l[i]) \in Reading
  BY <1>1, ReadLineUnshadowed
<1>3. F \in [1 .. n -> [Reading -> Reading]]
  BY <1>2
<1>4. \A i \in 1 .. n : \A r \in Reading : F[i][r] = Ini!ReadLine(r, l[i])
  OBVIOUS
<1>5. Ini!ReadLines(st, l) = f[n]
  BY DEF Ini!ReadLines
<1> HIDE DEF n, F
<1>6. PICK g : Iterates(g, n, Reading, st, F)
  BY <1>1, <1>3, IterationExists
<1>7. g \in [0 .. n -> Reading] /\ g[0] = st /\ \A i \in 1 .. n : g[i] = F[i][g[i - 1]]
  BY <1>6 DEF Iterates
<1>8. ASSUME NEW i \in 0 .. n PROVE g[i] = IF i = 0 THEN st ELSE Ini!ReadLine(g[i - 1], l[i])
  <2>1. CASE i = 0
    BY <1>7, <2>1
  <2>2. CASE i # 0
    <3>1. i \in 1 .. n /\ i - 1 \in 0 .. n
      BY <1>1, <2>2
    <3>2. g[i] = F[i][g[i - 1]] /\ g[i - 1] \in Reading
      BY <1>7, <3>1
    <3> QED
      BY <1>4, <2>2, <3>1, <3>2
  <2> QED
    BY <2>1, <2>2
<1>9. g = G(g)
  BY <1>7, <1>8
<1> HIDE DEF G
<1>10. f = G(f)
  BY <1>9
<1>11. f \in [0 .. n -> Reading] /\ f[0] = st /\ \A i \in 1 .. n : f[i] = Ini!ReadLine(f[i - 1], l[i])
  <2> HIDE DEF f
  <2>1. DOMAIN f = 0 .. n /\ f = [i \in 0 .. n |-> f[i]]
    BY <1>10 DEF G
  <2>2. \A i \in 0 .. n : f[i] = IF i = 0 THEN st ELSE Ini!ReadLine(f[i - 1], l[i])
    BY <1>10 DEF G
  <2> DEFINE S == {i \in 0 .. n : f[i] \in Reading}
  <2>3. 0 \in S
    BY <1>1, <2>2
  <2>4. ASSUME NEW i \in 1 .. n, i - 1 \in S PROVE i \in S
    <3>1. i \in 0 .. n /\ i # 0
      BY <1>1
    <3>2. f[i] = Ini!ReadLine(f[i - 1], l[i]) /\ f[i - 1] \in Reading
      BY <2>2, <2>4, <3>1
    <3> QED
      BY <1>2, <3>1, <3>2
  <2>5. \A i \in 0 .. n : i \in S
    <3> HIDE DEF S
    <3> QED
      BY <1>1, <2>3, <2>4, InductionTo
  <2>6. f \in [0 .. n -> Reading]
    BY <2>1, <2>5
  <2>7. 0 \in 0 .. n /\ \A i \in 1 .. n : i \in 0 .. n /\ i # 0
    BY <1>1
  <2> QED
    BY <2>2, <2>6, <2>7
<1> QED
  BY <1>5, <1>11 DEF n

\* The lines of a section are lines of a file.
LEMMA SectionLinesType ==
  ASSUME Ini!CallsAssumption, NEW k \in IniSection
  PROVE  Ini!SectionLines(k) \in Seq(Ini!FileLine)
<1> DEFINE c == [i \in DOMAIN k.comments |-> Ini!CommentLine(k.comments[i])]
           v == [i \in DOMAIN k.values |-> Ini!ValueLine(k.values[i].name, k.values[i].value)]
<1>1. k.name \in IniName /\ k.values \in Seq(IniValue) /\ k.comments \in Seq(IniText)
  BY DEF IniSection
<1>2. Ini!SectionLine(k.name) \in Ini!FileLine /\ Ini!BlankLine \in Ini!FileLine
  BY <1>1, IniTypes DEF Ini!SectionLine, Ini!BlankLine, Ini!FileLine, IniName, IniText
<1>3. \A t \in IniText : Ini!CommentLine(t) \in Ini!FileLine
  BY IniTypes DEF Ini!CommentLine, Ini!FileLine, IniName, IniText
<1>4. \A e \in IniValue : Ini!ValueLine(e.name, e.value) \in Ini!FileLine
  BY DEF Ini!ValueLine, Ini!FileLine, IniName, IniText, IniValue
<1>5. c \in Seq(Ini!FileLine)
  <2>1. Len(k.comments) \in Nat /\ DOMAIN k.comments = 1 .. Len(k.comments)
    BY <1>1
  <2>2. \A i \in DOMAIN k.comments : k.comments[i] \in IniText
    BY <1>1
  <2>3. c \in [1 .. Len(k.comments) -> Ini!FileLine]
    BY <1>3, <2>1, <2>2
  <2> QED
    BY <2>1, <2>3
<1>6. v \in Seq(Ini!FileLine)
  <2>1. Len(k.values) \in Nat /\ DOMAIN k.values = 1 .. Len(k.values)
    BY <1>1
  <2>2. \A i \in DOMAIN k.values : k.values[i] \in IniValue
    BY <1>1
  <2>3. v \in [1 .. Len(k.values) -> Ini!FileLine]
    BY <1>4, <2>1, <2>2
  <2> QED
    BY <2>1, <2>3
<1>7. Ini!SectionLines(k) = <<Ini!SectionLine(k.name)>> \o c \o v \o <<Ini!BlankLine>>
  BY DEF Ini!SectionLines
<1> HIDE DEF c, v
<1> QED
  BY <1>2, <1>5, <1>6, <1>7

\* The lines before the first section.
LEMMA HeaderLinesType ==
  ASSUME Ini!CallsAssumption, NEW o \in Unshadowed
  PROVE  Ini!HeaderLines(o) \in Seq(Ini!FileLine)
<1> DEFINE c == [i \in DOMAIN o.comments |-> Ini!CommentLine(o.comments[i])]
           b == IF o.comments = <<>> THEN <<>> ELSE <<Ini!BlankLine>>
<1>1. o.comments \in Seq(IniText)
  BY UnshadowedFields
<1>2. Ini!BlankLine \in Ini!FileLine
  BY IniTypes DEF Ini!BlankLine, Ini!FileLine, IniName, IniText
<1>3. \A t \in IniText : Ini!CommentLine(t) \in Ini!FileLine
  BY IniTypes DEF Ini!CommentLine, Ini!FileLine, IniName, IniText
<1>4. c \in Seq(Ini!FileLine)
  <2>1. Len(o.comments) \in Nat /\ DOMAIN o.comments = 1 .. Len(o.comments)
    BY <1>1
  <2>2. \A i \in DOMAIN o.comments : o.comments[i] \in IniText
    BY <1>1
  <2>3. c \in [1 .. Len(o.comments) -> Ini!FileLine]
    BY <1>3, <2>1, <2>2
  <2> QED
    BY <2>1, <2>3
<1>5. b \in Seq(Ini!FileLine)
  BY <1>2
<1>6. Ini!HeaderLines(o) = c \o b
  BY DEF Ini!HeaderLines
<1> HIDE DEF c, b
<1> QED
  BY <1>4, <1>5, <1>6

\* WriteFile section by section: the lines written before each of them.
LEMMA LinesResult ==
  ASSUME Ini!CallsAssumption, NEW o \in Unshadowed
  PROVE  \E g : /\ g \in [0 .. Len(o.sections) -> Seq(Ini!FileLine)] /\ g[0] = Ini!HeaderLines(o)
                /\ \A i \in 1 .. Len(o.sections) :
                      g[i] = g[i - 1] \o Ini!SectionLines(o.sections[i])
                /\ Ini!Lines(o) = g[Len(o.sections)]
<1> DEFINE n == Len(o.sections)
           D == Seq(Ini!FileLine)
           p(i) == Ini!SectionLines(o.sections[i])
           st == Ini!HeaderLines(o)
           F == [i \in 1 .. n |-> [r \in D |-> r \o p(i)]]
           G(g) == [i \in 0 .. n |-> IF i = 0 THEN st ELSE g[i - 1] \o p(i)]
           f == CHOOSE g : g = G(g)
<1>0. o.sections \in Seq(IniSection) /\ n \in Nat
  BY UnshadowedFields
<1>1. \A i \in 1 .. n : p(i) \in D
  <2>1. \A i \in 1 .. n : o.sections[i] \in IniSection
    BY <1>0
  <2> QED
    BY <2>1, SectionLinesType
<1>2. ASSUME NEW i \in 1 .. n, NEW r \in D PROVE r \o p(i) \in D
  <2>1. p(i) \in D
    BY <1>1
  <2> HIDE DEF p
  <2> QED
    BY <2>1
<1>3. F \in [1 .. n -> [D -> D]]
  BY <1>2
<1>4. \A i \in 1 .. n : \A r \in D : F[i][r] = r \o p(i)
  OBVIOUS
<1>5. Ini!Lines(o) = f[n]
  BY DEF Ini!Lines
<1>6. st \in D
  BY HeaderLinesType
<1> HIDE DEF n, F, D, p, st
<1>7. PICK g : Iterates(g, n, D, st, F)
  BY <1>0, <1>3, <1>6, IterationExists
<1>8. g \in [0 .. n -> D] /\ g[0] = st /\ \A i \in 1 .. n : g[i] = F[i][g[i - 1]]
  BY <1>7 DEF Iterates
<1>9. ASSUME NEW i \in 0 .. n PROVE g[i] = IF i = 0 THEN st ELSE g[i - 1] \o p(i)
  <2>1. CASE i = 0
    BY <1>8, <2>1
  <2>2. CASE i # 0
    <3>1. i \in 1 .. n /\ i - 1 \in 0 .. n
      BY <1>0, <2>2
    <3>2. g[i] = F[i][g[i - 1]] /\ g[i - 1] \in D
      BY <1>8, <3>1
    <3> QED
      BY <1>4, <2>2, <3>1, <3>2
  <2> QED
    BY <2>1, <2>2
<1>10. g = G(g)
  BY <1>8, <1>9
<1> HIDE DEF G
<1>11. f = G(f)
  BY <1>10
<1>12. f \in [0 .. n -> D] /\ f[0] = st /\ \A i \in 1 .. n : f[i] = f[i - 1] \o p(i)
  <2> HIDE DEF f
  <2>1. DOMAIN f = 0 .. n /\ f = [i \in 0 .. n |-> f[i]]
    BY <1>11 DEF G
  <2>2. \A i \in 0 .. n : f[i] = IF i = 0 THEN st ELSE f[i - 1] \o p(i)
    BY <1>11 DEF G
  <2> DEFINE S == {i \in 0 .. n : f[i] \in D}
  <2>3. 0 \in S
    BY <1>0, <1>6, <2>2
  <2>4. ASSUME NEW i \in 1 .. n, i - 1 \in S PROVE i \in S
    <3>1. i \in 0 .. n /\ i # 0
      BY <1>0
    <3>2. f[i] = f[i - 1] \o p(i) /\ f[i - 1] \in D
      BY <2>2, <2>4, <3>1
    <3> QED
      BY <1>2, <3>1, <3>2
  <2>5. \A i \in 0 .. n : i \in S
    <3> HIDE DEF S
    <3> QED
      BY <1>0, <2>3, <2>4, InductionTo
  <2>6. f \in [0 .. n -> D]
    BY <2>1, <2>5
  <2>7. 0 \in 0 .. n /\ \A i \in 1 .. n : i \in 0 .. n /\ i # 0
    BY <1>0
  <2> QED
    BY <2>2, <2>6, <2>7
<1> QED
  BY <1>5, <1>12 DEF n, D, p, st

\* What WriteFile writes is a file.
LEMMA LinesType ==
  ASSUME Ini!CallsAssumption, NEW o \in Unshadowed
  PROVE  Ini!Lines(o) \in Seq(Ini!FileLine)
<1>1. Len(o.sections) \in Nat
  BY UnshadowedFields
<1>2. PICK g : g \in [0 .. Len(o.sections) -> Seq(Ini!FileLine)] /\ Ini!Lines(o) = g[Len(o.sections)]
  BY LinesResult
<1>3. Len(o.sections) \in 0 .. Len(o.sections)
  BY <1>1
<1> QED
  BY <1>2, <1>3

\* ReadFile leaves nothing shadowed.
LEMMA ReadUnshadowed ==
  ASSUME Ini!CallsAssumption, NEW o \in Unshadowed, NEW l \in Seq(Ini!FileLine)
  PROVE  Ini!Read(o, l) \in Reading
<1> DEFINE st == [ini |-> o, keyname |-> "", failed |-> FALSE]
<1>1. st \in Reading
  BY IniTypes DEF Reading
<1>2. Ini!Read(o, l) = Ini!ReadLines(st, l)
  BY DEF Ini!Read
<1> HIDE DEF st
<1>3. PICK g : g \in [0 .. Len(l) -> Reading] /\ Ini!ReadLines(st, l) = g[Len(l)]
  BY <1>1, ReadLinesResult
<1>4. Len(l) \in 0 .. Len(l)
  OBVIOUS
<1> QED
  BY <1>2, <1>3, <1>4

\* The object has no shadows, and the file is one of lines.
IniInv == ini \in Unshadowed /\ file \in Seq(Ini!FileLine)

\* The calls that take something away leave nothing shadowed.
LEMMA DeletedUnshadowed ==
  ASSUME IniInv, NEW n,
         \/ \E m : Ini!DeleteValue(n, m)
         \/ Ini!DeleteKey(n)
         \/ Ini!DeleteKeyComments(n)
         \/ Ini!DeleteHeaderComment
  PROVE  ini' \in Unshadowed
<1> DEFINE s == ini.sections
           i == Ini!FindKey(ini, n)
<1>1. ini \in Unshadowed
  BY DEF IniInv
<1>2. s \in Seq(IniSection) /\ ShadowFree(s) /\ ini.comments \in Seq(IniText)
  BY <1>1, UnshadowedFields
<1>3. i # 0 => i \in DOMAIN s
  BY <1>1, FindKeyResult
<1>4. ASSUME NEW m, Ini!DeleteValue(n, m) PROVE ini' \in Unshadowed
  <2> DEFINE v == s[i].values
             a == Ini!FirstNamed(v, m)
             w == Ini!RemoveAt(v, a)
  <2>1. ini' = IF i = 0 \/ a = 0 THEN ini ELSE [ini EXCEPT !.sections[i].values = w]
    BY <1>4 DEF Ini!DeleteValue, Ini!FindValue, Ini!noID
  <2>2. CASE i = 0 \/ a = 0
    BY <1>1, <2>1, <2>2
  <2>3. CASE ~(i = 0 \/ a = 0)
    <3>1. i \in DOMAIN s /\ v \in Seq(IniValue) /\ ValuesOnce(v)
      BY <1>2, <1>3, <2>3, SectionFields DEF ShadowFree
    <3>2. a \in DOMAIN v
      BY <2>3, <3>1, FirstNamedResult
    <3>3. w \in Seq(IniValue) /\ ValuesOnce(w)
      BY <3>1, <3>2, ValuesOnceRemoved
    <3>4. v # <<>>
      BY <3>2
    <3> HIDE DEF w, i
    <3>5. [ini EXCEPT !.sections[i].values = w] \in Unshadowed
      BY <1>1, <3>1, <3>3, <3>4, ValuesReplaced
    <3> QED
      BY <2>1, <2>3, <3>5
  <2> QED
    BY <2>2, <2>3
<1>5. ASSUME Ini!DeleteKey(n) PROVE ini' \in Unshadowed
  <2>1. ini' = IF i = 0 THEN ini ELSE [ini EXCEPT !.sections = Ini!RemoveAt(s, i)]
    BY <1>5 DEF Ini!DeleteKey, Ini!noID
  <2>2. CASE i = 0
    BY <1>1, <2>1, <2>2
  <2>3. CASE i # 0
    <3> DEFINE t == Ini!RemoveAt(s, i)
    <3>1. t \in Seq(IniSection) /\ ShadowFree(t)
      BY <1>2, <1>3, <2>3, ShadowFreeRemoved
    <3> HIDE DEF t
    <3>2. [ini EXCEPT !.sections = t] = [sections |-> t, comments |-> ini.comments]
      BY <1>1, ObjectExcept
    <3> QED
      BY <1>2, <2>1, <2>3, <3>1, <3>2, UnshadowedMade DEF t
  <2> QED
    BY <2>2, <2>3
<1>6. ASSUME Ini!DeleteKeyComments(n) PROVE ini' \in Unshadowed
  <2>1. ini' = IF i = 0 THEN ini ELSE [ini EXCEPT !.sections[i].comments = <<>>]
    BY <1>6 DEF Ini!DeleteKeyComments, Ini!noID
  <2>2. CASE i = 0
    BY <1>1, <2>1, <2>2
  <2>3. CASE i # 0
    <3>1. <<>> \in Seq(IniText)
      OBVIOUS
    <3> HIDE DEF i
    <3>2. [ini EXCEPT !.sections[i].comments = <<>>] \in Unshadowed
      BY <1>1, <1>3, <2>3, <3>1, CommentsReplaced, Zenon
    <3> QED
      BY <2>1, <2>3, <3>2
  <2> QED
    BY <2>2, <2>3
<1>7. ASSUME Ini!DeleteHeaderComment PROVE ini' \in Unshadowed
  <2> DEFINE c == IF ini.comments = <<>> THEN ini.comments ELSE Tail(ini.comments)
  <2>1. ini' = [ini EXCEPT !.comments = c]
    BY <1>7 DEF Ini!DeleteHeaderComment
  <2>2. c \in Seq(IniText)
    BY <1>2
  <2> HIDE DEF c
  <2>3. [ini EXCEPT !.comments = c] = [sections |-> s, comments |-> c]
    BY <1>1, ObjectExcept
  <2> QED
    BY <1>2, <2>1, <2>2, <2>3, UnshadowedMade
<1> QED
  BY <1>4, <1>5, <1>6, <1>7

\* SetValue by the indices of a section and a value.
LEMMA SetValueIDUnshadowed ==
  ASSUME Ini!CallsAssumption, IniInv, NEW i, NEW a, NEW t \in Values, Ini!CallSetValueID(i, a, t)
  PROVE  ini' \in Unshadowed
<1> DEFINE s == ini.sections
           v == s[i].values
           w == [v EXCEPT ![a].value = t]
<1>1. ini \in Unshadowed
  BY DEF IniInv
<1>2. s \in Seq(IniSection) /\ ShadowFree(s)
  BY <1>1, UnshadowedFields
<1>3. ini' = IF i \in DOMAIN s /\ a \in DOMAIN v THEN [ini EXCEPT !.sections[i].values[a].value = t]
             ELSE ini
  BY DEF Ini!CallSetValueID
<1>4. CASE i \in DOMAIN s /\ a \in DOMAIN v
  <2>1. v \in Seq(IniValue) /\ ValuesOnce(v) /\ v # <<>>
    BY <1>2, <1>4, SectionFields DEF ShadowFree
  <2>2. t \in IniText
    BY IniTypes
  <2>3. w \in Seq(IniValue) /\ ValuesOnce(w)
    BY <1>4, <2>1, <2>2, ValuesOnceChanged
  <2>4. [ini EXCEPT !.sections[i].values[a].value = t] = [ini EXCEPT !.sections[i].values = w]
    OBVIOUS
  <2> HIDE DEF w
  <2>5. [ini EXCEPT !.sections[i].values = w] \in Unshadowed
    BY <1>1, <1>4, <2>1, <2>3, ValuesReplaced
  <2> QED
    BY <1>3, <1>4, <2>4, <2>5
<1>5. CASE ~(i \in DOMAIN s /\ a \in DOMAIN v)
  BY <1>1, <1>3, <1>5
<1> QED
  BY <1>4, <1>5

\* Every call leaves an object without shadows.
LEMMA NextIniInv ==
  ASSUME Ini!CallsAssumption, IniInv, [Ini!Next]_(Ini!vars)
  PROVE  IniInv'
<1>0. ini \in Unshadowed /\ file \in Seq(Ini!FileLine)
  BY DEF IniInv
<1>t. /\ Sections \subseteq IniName /\ ValueNames \subseteq IniName /\ Values \subseteq IniText
      /\ UserFiles \subseteq Seq(Ini!FileLine)
  BY IniTypes
<1>1. CASE Ini!ReadFile
  <2>1. Ini!Read(ini, file) \in Reading
    BY <1>0, ReadUnshadowed
  <2>2. ini' = Ini!Read(ini, file).ini /\ UNCHANGED file
    BY <1>1 DEF Ini!ReadFile
  <2> QED
    BY <1>0, <2>1, <2>2 DEF IniInv, Reading
<1>2. CASE Ini!WriteFile
  BY <1>0, <1>2, LinesType DEF Ini!WriteFile, IniInv
<1>3. CASE Ini!Edit
  BY <1>0, <1>3, <1>t DEF Ini!Edit, IniInv
<1>4. CASE Ini!Erase
  <2>1. <<>> \in Seq(IniSection) /\ ShadowFree(<<>>) /\ <<>> \in Seq(IniText)
    BY DEF ShadowFree
  <2>2. Ini!Empty \in Unshadowed
    BY <2>1, UnshadowedMade DEF Ini!Empty
  <2> QED
    BY <1>0, <1>4, <2>2 DEF Ini!Erase, IniInv
<1>5. CASE Ini!DeleteHeaderComment
  <2>1. ini' \in Unshadowed
    BY <1>5, DeletedUnshadowed
  <2> QED
    BY <1>0, <1>5, <2>1 DEF Ini!DeleteHeaderComment, IniInv
<1>6. ASSUME NEW c \in Values, Ini!CallHeaderComment(c) PROVE IniInv'
  BY <1>0, <1>6, <1>t, CommentUnshadowed DEF Ini!CallHeaderComment, IniInv
<1>7. ASSUME NEW s \in Sections, Ini!CallAddKeyName(s) PROVE IniInv'
  BY <1>0, <1>7, <1>t, AddKeyNameResult DEF Ini!CallAddKeyName, IniInv
<1>8. ASSUME NEW s \in Sections, Ini!DeleteKey(s) PROVE IniInv'
  <2>1. ini' \in Unshadowed
    BY <1>8, DeletedUnshadowed
  <2> QED
    BY <1>0, <1>8, <2>1 DEF Ini!DeleteKey, IniInv
<1>9. ASSUME NEW s \in Sections, Ini!DeleteKeyComments(s) PROVE IniInv'
  <2>1. ini' \in Unshadowed
    BY <1>9, DeletedUnshadowed
  <2> QED
    BY <1>0, <1>9, <2>1 DEF Ini!DeleteKeyComments, IniInv
<1>10. ASSUME NEW s \in Sections, NEW c \in Values, Ini!CallKeyComment(s, c) PROVE IniInv'
  BY <1>0, <1>10, <1>t, CommentUnshadowed DEF Ini!CallKeyComment, IniInv
<1>11. ASSUME NEW s \in Sections, NEW n \in ValueNames, Ini!DeleteValue(s, n) PROVE IniInv'
  <2>1. ini' \in Unshadowed
    BY <1>11, DeletedUnshadowed
  <2> QED
    BY <1>0, <1>11, <2>1 DEF Ini!DeleteValue, IniInv
<1>12. ASSUME NEW s \in Sections, NEW n \in ValueNames, NEW v \in Values, Ini!CallSetValueI(s, n, v)
       PROVE  IniInv'
  BY <1>0, <1>12, <1>t, SetValueUnshadowed DEF Ini!CallSetValueI, IniInv
<1>13. ASSUME NEW s \in Sections, NEW n \in ValueNames, NEW v \in Values, NEW create \in BOOLEAN,
              Ini!CallSetValue(s, n, v, create)
       PROVE  IniInv'
  <2>1. Ini!SetValue(ini, s, n, v) \in Unshadowed
    BY <1>0, <1>t, SetValueUnshadowed
  <2>2. (ini' = Ini!SetValue(ini, s, n, v) \/ ini' = ini) /\ file' = file
    BY <1>13 DEF Ini!CallSetValue
  <2> QED
    BY <1>0, <2>1, <2>2 DEF IniInv
<1>14. ASSUME NEW i, NEW a, NEW v \in Values, Ini!CallSetValueID(i, a, v) PROVE IniInv'
  <2>1. ini' \in Unshadowed
    BY <1>14, SetValueIDUnshadowed
  <2> QED
    BY <1>0, <1>14, <2>1 DEF Ini!CallSetValueID, IniInv
<1>15. CASE UNCHANGED Ini!vars
  BY <1>0, <1>15 DEF Ini!vars, IniInv
<1>16. CASE Ini!Call
  BY <1>1, <1>2, <1>3, <1>4, <1>5, <1>6, <1>7, <1>8, <1>9, <1>10, <1>11, <1>12, <1>13, <1>14, <1>16
     DEF Ini!Call
<1> QED
  BY <1>15, <1>16 DEF Ini!Next

\* A new object is empty.
LEMMA InitIniInv ==
  ASSUME Ini!CallsAssumption, Ini!Init
  PROVE  IniInv
<1>1. <<>> \in Seq(IniSection) /\ ShadowFree(<<>>) /\ <<>> \in Seq(IniText)
  BY DEF ShadowFree
<1>2. Ini!Empty \in Unshadowed
  BY <1>1, UnshadowedMade DEF Ini!Empty
<1> QED
  BY <1>2, IniTypes DEF Ini!Init, IniInv

(***************************************************************************)
(* For any names, values, user files and number of calls: no call of       *)
(* CIniFile, and no file it reads, leaves a value that another one hides.  *)
(***************************************************************************)
THEOREM IniNothingShadowed ==
  Ini!CallsAssumption => (Ini!Spec => []NothingShadowed)
<1> SUFFICES ASSUME Ini!CallsAssumption PROVE Ini!Spec => []NothingShadowed
  OBVIOUS
<1>1. Ini!Init => IniInv
  BY InitIniInv
<1>2. IniInv /\ [Ini!Next]_(Ini!vars) => IniInv'
  BY NextIniInv
<1>3. IniInv => NothingShadowed
  BY UnshadowedLooks DEF IniInv
<1> QED
  BY <1>1, <1>2, <1>3, PTL DEF Ini!Spec

-----------------------------------------------------------------------------
(* Reading what was written.                                               *)

\* The elements of a list with another list behind it.
LEMMA JoinedLines ==
  ASSUME NEW D, NEW a \in Seq(D), NEW b \in Seq(D)
  PROVE  /\ a \o b \in Seq(D) /\ Len(a \o b) = Len(a) + Len(b) /\ Len(a) \in Nat /\ Len(b) \in Nat
         /\ \A i \in 1 .. Len(a) : (a \o b)[i] = a[i]
         /\ \A i \in 1 .. Len(b) : (a \o b)[Len(a) + i] = b[i]
OBVIOUS

\* ReadFile goes on from the state that the lines before have left.
LEMMA ReadConcat ==
  ASSUME Ini!CallsAssumption, NEW st \in Reading, NEW a \in Seq(Ini!FileLine), NEW b \in Seq(Ini!FileLine)
  PROVE  /\ Ini!ReadLines(st, a) \in Reading
         /\ Ini!ReadLines(st, a \o b) = Ini!ReadLines(Ini!ReadLines(st, a), b)
<1> DEFINE l == a \o b
           n == Len(a)
           m == Len(b)
           mid == Ini!ReadLines(st, a)
<1>1. /\ l \in Seq(Ini!FileLine) /\ Len(l) = n + m /\ n \in Nat /\ m \in Nat
      /\ \A i \in 1 .. n : l[i] = a[i]
      /\ \A i \in 1 .. m : l[n + i] = b[i]
  BY JoinedLines
<1>2. PICK f : /\ f \in [0 .. n -> Reading] /\ f[0] = st
               /\ \A i \in 1 .. n : f[i] = Ini!ReadLine(f[i - 1], a[i])
               /\ mid = f[n]
  BY ReadLinesResult, Zenon
<1>3. mid \in Reading
  <2>1. n \in 0 .. n
    BY <1>1
  <2> QED
    BY <1>2, <2>1
<1> HIDE DEF mid, l
<1>4. PICK h : /\ h \in [0 .. m -> Reading] /\ h[0] = mid
               /\ \A i \in 1 .. m : h[i] = Ini!ReadLine(h[i - 1], b[i])
               /\ Ini!ReadLines(mid, b) = h[m]
  BY <1>3, ReadLinesResult, Zenon
<1>5. PICK g : /\ g \in [0 .. Len(l) -> Reading] /\ g[0] = st
               /\ \A i \in 1 .. Len(l) : g[i] = Ini!ReadLine(g[i - 1], l[i])
               /\ Ini!ReadLines(st, l) = g[Len(l)]
  BY <1>1, ReadLinesResult, Zenon
<1> HIDE DEF n, m
<1>6. \A i \in 0 .. n : g[i] = f[i]
  <2> DEFINE S == {i \in 0 .. n : g[i] = f[i]}
  <2>1. 0 \in S
    BY <1>1, <1>2, <1>5
  <2>2. ASSUME NEW i \in 1 .. n, i - 1 \in S PROVE i \in S
    <3>1. i \in 1 .. Len(l) /\ i \in 0 .. n
      BY <1>1
    <3>2. g[i] = Ini!ReadLine(g[i - 1], l[i]) /\ f[i] = Ini!ReadLine(f[i - 1], a[i]) /\ l[i] = a[i]
      BY <1>1, <1>2, <1>5, <3>1
    <3>3. g[i - 1] = f[i - 1]
      BY <2>2
    <3> QED
      BY <3>1, <3>2, <3>3
  <2> HIDE DEF S
  <2>3. \A i \in 0 .. n : i \in S
    BY <1>1, <2>1, <2>2, InductionTo
  <2> QED
    BY <2>3 DEF S
<1>7. \A i \in 0 .. m : g[n + i] = h[i]
  <2> DEFINE S == {i \in 0 .. m : g[n + i] = h[i]}
  <2>1. 0 \in S
    <3>1. n \in 0 .. n /\ n + 0 = n /\ 0 \in 0 .. m
      BY <1>1
    <3> QED
      BY <1>2, <1>4, <1>6, <3>1
  <2>2. ASSUME NEW i \in 1 .. m, i - 1 \in S PROVE i \in S
    <3>1. n + i \in 1 .. Len(l) /\ i \in 0 .. m /\ (n + i) - 1 = n + (i - 1)
      BY <1>1
    <3>2. g[n + i] = Ini!ReadLine(g[n + (i - 1)], l[n + i])
      BY <1>5, <3>1
    <3>3. h[i] = Ini!ReadLine(h[i - 1], b[i]) /\ l[n + i] = b[i]
      BY <1>1, <1>4
    <3>4. g[n + (i - 1)] = h[i - 1]
      BY <2>2
    <3> QED
      BY <3>1, <3>2, <3>3, <3>4
  <2> HIDE DEF S
  <2>3. \A i \in 0 .. m : i \in S
    BY <1>1, <2>1, <2>2, InductionTo
  <2> QED
    BY <2>3 DEF S
<1>8. m \in 0 .. m
  BY <1>1
<1>9. Ini!ReadLines(st, l) = Ini!ReadLines(mid, b)
  BY <1>1, <1>4, <1>5, <1>7, <1>8
<1> QED
  BY <1>3, <1>9 DEF mid, l

\* ReadFile on a single line.
LEMMA ReadOne ==
  ASSUME Ini!CallsAssumption, NEW st \in Reading, NEW l \in Ini!FileLine
  PROVE  <<l>> \in Seq(Ini!FileLine) /\ Ini!ReadLines(st, <<l>>) = Ini!ReadLine(st, l)
<1> DEFINE s == <<l>>
<1>1. s \in Seq(Ini!FileLine) /\ Len(s) = 1 /\ s[1] = l
  OBVIOUS
<1> HIDE DEF s
<1>2. PICK g : /\ g \in [0 .. Len(s) -> Reading] /\ g[0] = st
               /\ \A i \in 1 .. Len(s) : g[i] = Ini!ReadLine(g[i - 1], s[i])
               /\ Ini!ReadLines(st, s) = g[Len(s)]
  BY <1>1, ReadLinesResult, Zenon
<1>3. 1 \in 1 .. Len(s) /\ 1 - 1 = 0
  BY <1>1
<1> QED
  BY <1>1, <1>2, <1>3 DEF s

\* Two objects with the same names and values, up to section n.
SameSections(y, o, n) ==
  \A i \in 1 .. n : /\ y.sections[i].name = o.sections[i].name
                    /\ y.sections[i].values = o.sections[i].values

\* A comment, or nothing.
RemarkLine == {l \in Ini!FileLine : l.kind \in {"comment", "blank"}}

\* r has what st has, but for comments.
OnlyRemarked(r, st) ==
  /\ r.keyname = st.keyname /\ r.failed = st.failed
  /\ Len(r.ini.sections) = Len(st.ini.sections)
  /\ SameSections(r.ini, st.ini, Len(st.ini.sections))

\* A comment changes neither names nor values.
LEMMA RemarkRead ==
  ASSUME Ini!CallsAssumption, NEW st \in Reading, NEW l \in RemarkLine
  PROVE  OnlyRemarked(Ini!ReadLine(st, l), st)
<1> DEFINE y == st.ini
           s == y.sections
           i == Ini!FindKey(y, st.keyname)
           o == IF s = <<>> THEN Ini!HeaderComment(y, l.text)
                ELSE Ini!KeyComment(y, st.keyname, l.text)
<1>1. /\ y \in Unshadowed /\ st.failed \in BOOLEAN
      /\ st = [ini |-> st.ini, keyname |-> st.keyname, failed |-> st.failed]
  BY DEF Reading
<1>2. l \in Ini!FileLine /\ l.kind \in {"comment", "blank"} /\ l.text \in IniText
  BY IniTypes DEF RemarkLine
<1>3. OnlyRemarked(st, st)
  BY DEF OnlyRemarked, SameSections
<1>4. CASE st.failed \/ l.kind = "blank"
  BY <1>3, <1>4 DEF Ini!ReadLine
<1>5. CASE ~st.failed /\ l.kind = "comment"
  <2>1. Ini!ReadLine(st, l) = [ini |-> o, keyname |-> st.keyname, failed |-> st.failed]
    BY <1>1, <1>5 DEF Ini!ReadLine
  <2>2. Len(o.sections) = Len(s) /\ SameSections(o, y, Len(s))
    <3>1. CASE s = <<>>
      <4>1. o.sections = s
        BY <1>1, <3>1, ObjectExcept DEF Ini!HeaderComment
      <4> QED
        BY <4>1 DEF SameSections
    <3>2. CASE s # <<>> /\ i = 0
      <4>1. o = y
        BY <3>2 DEF Ini!KeyComment, Ini!noID
      <4> QED
        BY <4>1 DEF SameSections
    <3>3. CASE s # <<>> /\ i # 0
      <4> DEFINE d == Append(s[i].comments, l.text)
                 k == WithComments(s[i], d)
      <4>1. i \in DOMAIN s /\ s \in Seq(IniSection)
        BY <1>1, <3>3, FindKeyResult, UnshadowedFields
      <4>2. o = [y EXCEPT !.sections[i].comments = d]
        BY <3>3 DEF Ini!KeyComment, Ini!noID
      <4>3. d \in Seq(IniText)
        BY <1>2, <4>1, SectionFields
      <4>4. k.name = s[i].name /\ k.values = s[i].values
        BY DEF WithComments
      <4> HIDE DEF d, i
      <4>5. [y EXCEPT !.sections[i].comments = d]
              = [sections |-> [s EXCEPT ![i] = k], comments |-> y.comments]
        BY <1>1, <4>1, <4>3, CommentsReplaced, ZenonT(30)
      <4> HIDE DEF k, o
      <4>6. o.sections = [s EXCEPT ![i] = k]
        BY <4>2, <4>5
      <4>7. Len(o.sections) = Len(s) /\ \A j \in 1 .. Len(s) : o.sections[j] = IF j = i THEN k ELSE s[j]
        BY <4>1, <4>6
      <4> QED
        BY <4>4, <4>7 DEF SameSections
    <3> QED
      BY <3>1, <3>2, <3>3
  <2> HIDE DEF o
  <2> QED
    BY <2>1, <2>2 DEF OnlyRemarked
<1> QED
  BY <1>1, <1>2, <1>4, <1>5

\* Comments change neither names nor values.
LEMMA RemarksRead ==
  ASSUME Ini!CallsAssumption, NEW st \in Reading, NEW l \in Seq(RemarkLine)
  PROVE  /\ l \in Seq(Ini!FileLine) /\ Ini!ReadLines(st, l) \in Reading
         /\ OnlyRemarked(Ini!ReadLines(st, l), st)
<1>1. l \in Seq(Ini!FileLine) /\ Len(l) \in Nat /\ \A i \in 1 .. Len(l) : l[i] \in RemarkLine
  BY DEF RemarkLine
<1>2. PICK g : /\ g \in [0 .. Len(l) -> Reading] /\ g[0] = st
               /\ \A i \in 1 .. Len(l) : g[i] = Ini!ReadLine(g[i - 1], l[i])
               /\ Ini!ReadLines(st, l) = g[Len(l)]
  BY <1>1, ReadLinesResult, Zenon
<1> DEFINE S == {i \in 0 .. Len(l) : OnlyRemarked(g[i], st)}
<1>3. 0 \in S
  BY <1>1, <1>2 DEF OnlyRemarked, SameSections
<1>4. ASSUME NEW i \in 1 .. Len(l), i - 1 \in S PROVE i \in S
  <2>1. i - 1 \in 0 .. Len(l) /\ i \in 0 .. Len(l) /\ OnlyRemarked(g[i - 1], st)
    BY <1>1, <1>4
  <2>2. g[i - 1] \in Reading /\ g[i] = Ini!ReadLine(g[i - 1], l[i]) /\ l[i] \in RemarkLine
    BY <1>1, <1>2, <2>1
  <2>3. OnlyRemarked(g[i], g[i - 1])
    BY <2>2, RemarkRead
  <2>4. OnlyRemarked(g[i], st)
    BY <2>1, <2>3 DEF OnlyRemarked, SameSections
  <2> QED
    BY <2>1, <2>4
<1> HIDE DEF S
<1>5. \A i \in 0 .. Len(l) : i \in S
  BY <1>1, <1>3, <1>4, InductionTo
<1>6. Len(l) \in 0 .. Len(l)
  BY <1>1
<1>7. g[Len(l)] \in Reading /\ OnlyRemarked(g[Len(l)], st)
  BY <1>2, <1>5, <1>6 DEF S
<1> QED
  BY <1>1, <1>2, <1>7

\* st has the sections of o up to j, of the last of them the first a values.
CopiedTo(st, o, j, a) ==
  /\ st \in Reading /\ ~st.failed /\ Len(st.ini.sections) = j
  /\ st.keyname = o.sections[j].name
  /\ SameSections(st.ini, o, j - 1)
  /\ st.ini.sections[j].name = o.sections[j].name
  /\ st.ini.sections[j].values = SubSeq(o.sections[j].values, 1, a)

\* The next value of a section goes behind those that were read.
LEMMA ValueRead ==
  ASSUME Ini!CallsAssumption, NEW o \in Unshadowed, NEW j \in 1 .. Len(o.sections),
         NEW a \in 1 .. Len(o.sections[j].values), NEW st, CopiedTo(st, o, j, a - 1),
         NEW l, l = Ini!ValueLine(o.sections[j].values[a].name, o.sections[j].values[a].value)
  PROVE  CopiedTo(Ini!ReadLine(st, l), o, j, a)
<1> DEFINE y == st.ini
           s == o.sections
           q == y.sections
           n == s[j].name
           v == s[j].values
           u == SubSeq(v, 1, a - 1)
           e == v[a]
<1>1. /\ s \in Seq(IniSection) /\ ShadowFree(s) /\ DOMAIN s = 1 .. Len(s) /\ Len(s) \in Nat
      /\ j \in DOMAIN s
  BY UnshadowedFields
<1>2. /\ st \in Reading /\ ~st.failed /\ y \in Unshadowed /\ Len(q) = j /\ st.keyname = n
      /\ \A i \in 1 .. j - 1 : q[i].name = s[i].name /\ q[i].values = s[i].values
      /\ q[j].name = n /\ q[j].values = u
  BY DEF CopiedTo, SameSections, Reading
<1>3. q \in Seq(IniSection) /\ DOMAIN q = 1 .. j
  BY <1>2, UnshadowedFields
<1>4. v \in Seq(IniValue) /\ Len(v) \in Nat /\ e \in IniValue /\ ValuesOnce(v) /\ DOMAIN v = 1 .. Len(v)
  <2>1. v \in Seq(IniValue)
    BY <1>1, SectionFields
  <2>2. ValuesOnce(v)
    BY <1>1 DEF ShadowFree
  <2> HIDE DEF v
  <2>3. Len(v) \in Nat /\ e \in IniValue /\ DOMAIN v = 1 .. Len(v)
    BY <2>1 DEF v
  <2> QED
    BY <2>1, <2>2, <2>3
<1>5. e.name \in IniName /\ e.value \in IniText /\ e = [name |-> e.name, value |-> e.value]
  BY <1>4 DEF IniValue
<1>6. \A i \in 1 .. j - 1 : ~SameName(s[i].name, n)
  <2>1. v # <<>>
    BY <1>4
  <2>2. \A i \in 1 .. j - 1 : i \in DOMAIN s /\ i < j
    BY <1>1
  <2> QED
    BY <1>1, <2>1, <2>2 DEF ShadowFree
<1>7. Ini!FindKey(y, n) = j
  <2> DEFINE k == Ini!FindKey(y, n)
  <2>1. \/ k = 0 /\ \A i \in DOMAIN q : ~SameName(q[i].name, n)
        \/ k \in DOMAIN q /\ SameName(q[k].name, n)
    BY <1>2, FindKeyResult, Zenon
  <2>2. j \in DOMAIN q /\ SameName(q[j].name, n)
    BY <1>1, <1>2, <1>3 DEF SameName
  <2>3. \A i \in 1 .. j - 1 : ~SameName(q[i].name, n)
    BY <1>2, <1>6
  <2> HIDE DEF k, q, n
  <2>4. k \in 1 .. j /\ SameName(q[k].name, n)
    BY <1>3, <2>1, <2>2
  <2>5. k \notin 1 .. j - 1
    BY <2>3, <2>4
  <2>6. k = j
    BY <1>1, <2>4, <2>5
  <2> QED
    BY <2>6 DEF k
<1>8. u \in Seq(IniValue) /\ Len(u) = a - 1 /\ \A i \in 1 .. a - 1 : u[i] = v[i]
  <2> HIDE DEF v
  <2> QED
    BY <1>4 DEF v
<1>9. Ini!FirstNamed(u, e.name) = 0
  <2>1. ASSUME NEW i \in DOMAIN u, SameName(u[i].name, e.name) PROVE FALSE
    <3>1. i \in 1 .. a - 1 /\ i \in DOMAIN v /\ a \in DOMAIN v /\ i # a
      <4> HIDE DEF u, v
      <4>1. i \in 1 .. a - 1
        BY <1>8, <2>1
      <4> QED
        BY <1>4, <4>1 DEF v
    <3>2. u[i] = v[i]
      BY <1>8, <3>1
    <3> HIDE DEF u, v
    <3> QED
      BY <1>4, <2>1, <3>1, <3>2 DEF ValuesOnce
  <2> HIDE DEF u
  <2>2. \/ Ini!FirstNamed(u, e.name) = 0
        \/ /\ Ini!FirstNamed(u, e.name) \in DOMAIN u
           /\ SameName(u[Ini!FirstNamed(u, e.name)].name, e.name)
    BY <1>8, FirstNamedResult
  <2> QED
    BY <2>1, <2>2
<1>10. ValuesSet(u, e.name, e.value) = SubSeq(v, 1, a)
  <2>1. ValuesSet(u, e.name, e.value) = Append(u, e)
    BY <1>5, <1>9 DEF ValuesSet
  <2> HIDE DEF u, v
  <2>2. /\ Append(u, e) \in Seq(IniValue) /\ Len(Append(u, e)) = a
        /\ \A i \in 1 .. a - 1 : Append(u, e)[i] = u[i]
        /\ Append(u, e)[a] = e
    BY <1>4, <1>8
  <2>3. SubSeq(v, 1, a) \in Seq(IniValue) /\ Len(SubSeq(v, 1, a)) = a
        /\ \A i \in 1 .. a : SubSeq(v, 1, a)[i] = v[i]
    BY <1>4 DEF v
  <2> DEFINE p == Append(u, e)
             r == SubSeq(v, 1, a)
  <2> HIDE DEF p, r
  <2>4. ASSUME NEW i \in 1 .. a PROVE p[i] = r[i]
    <3>1. i \in 1 .. a - 1 \/ i = a
      BY <1>4 DEF v
    <3> QED
      BY <1>8, <2>2, <2>3, <3>1 DEF p, r
  <2>5. p = r
    BY <2>2, <2>3, <2>4, SeqEqual DEF p, r
  <2> QED
    BY <2>1, <2>5 DEF p, r
<1>11. l \in Ini!FileLine /\ l.kind = "value" /\ l.name = e.name /\ l.text = e.value
  BY <1>5 DEF Ini!ValueLine, Ini!FileLine, IniName, IniText
<1> DEFINE k == WithValues(q[j], SubSeq(v, 1, a))
           z == Ini!SetValue(y, n, e.name, e.value)
<1>12. Ini!ReadLine(st, l) = [ini |-> z, keyname |-> n, failed |-> st.failed]
  <2>1. st = [ini |-> st.ini, keyname |-> st.keyname, failed |-> st.failed]
    BY <1>2 DEF Reading
  <2>2. Ini!ReadLine(st, l) = [st EXCEPT !.ini = Ini!SetValue(@, st.keyname, l.name, l.text)]
    BY <1>2, <1>11 DEF Ini!ReadLine
  <2>3. [st EXCEPT !.ini = z] = [ini |-> z, keyname |-> st.keyname, failed |-> st.failed]
    <3> HIDE DEF z
    <3> QED
      BY <2>1
  <2> QED
    BY <1>2, <1>11, <2>2, <2>3
<1>13. z.sections = [q EXCEPT ![j] = k]
  <2> DEFINE i == Ini!FindKey(y, n)
             t == ValuesSet(q[i].values, e.name, e.value)
  <2>1. i # 0
    BY <1>7
  <2>2. Ini!SetValue(y, n, e.name, e.value) =
          [sections |-> [q EXCEPT ![i] = WithValues(q[i], t)], comments |-> y.comments]
    <3>1. Ini!SetValue(y, n, e.name, e.value) = ValueSetIn(y, i, e.name, e.value)
      <4> HIDE DEF y, n, e
      <4> QED
        BY <1>2, <1>5, <2>1, SetValueFound, Zenon
    <3> QED
      BY <3>1 DEF ValueSetIn
  <2>3. z.sections = [q EXCEPT ![i] = WithValues(q[i], t)]
    <3> HIDE DEF q, i, t
    <3> QED
      BY <2>2
  <2>4. t = SubSeq(v, 1, a)
    <3>1. t = ValuesSet(q[j].values, e.name, e.value)
      BY <1>7
    <3> QED
      BY <1>2, <1>10, <3>1, Zenon
  <2> HIDE DEF z, q, t, n, i, v
  <2>5. i = j
    BY <1>7 DEF i
  <2> QED
    BY <2>3, <2>4, <2>5
<1>14. Ini!ReadLine(st, l) \in Reading
  BY <1>2, <1>11, ReadLineUnshadowed
<1> HIDE DEF z
<1>15. k.name = n /\ k.values = SubSeq(v, 1, a)
  BY <1>2 DEF WithValues
<1> HIDE DEF k, q
<1>16. Len(z.sections) = j /\ z.sections[j] = k /\ \A i \in 1 .. j - 1 : z.sections[i] = q[i]
  BY <1>3, <1>13
<1> DEFINE r == Ini!ReadLine(st, l)
<1>17. r.ini = z /\ r.keyname = n /\ ~r.failed
  BY <1>2, <1>12
<1>18. SameSections(z, o, j - 1)
  BY <1>2, <1>16 DEF SameSections, q
<1> QED
  BY <1>14, <1>15, <1>16, <1>17, <1>18 DEF CopiedTo

\* The values of a section, one after another.
LEMMA ValuesRead ==
  ASSUME Ini!CallsAssumption, NEW o \in Unshadowed, NEW j \in 1 .. Len(o.sections),
         NEW st, CopiedTo(st, o, j, 0), NEW l \in Seq(Ini!FileLine),
         Len(l) = Len(o.sections[j].values),
         \A a \in 1 .. Len(l) :
            l[a] = Ini!ValueLine(o.sections[j].values[a].name, o.sections[j].values[a].value)
  PROVE  CopiedTo(Ini!ReadLines(st, l), o, j, Len(o.sections[j].values))
<1>1. st \in Reading /\ Len(l) \in Nat
  BY DEF CopiedTo
<1>2. PICK g : /\ g \in [0 .. Len(l) -> Reading] /\ g[0] = st
               /\ \A i \in 1 .. Len(l) : g[i] = Ini!ReadLine(g[i - 1], l[i])
               /\ Ini!ReadLines(st, l) = g[Len(l)]
  BY <1>1, ReadLinesResult, Zenon
<1> DEFINE S == {a \in 0 .. Len(l) : CopiedTo(g[a], o, j, a)}
<1>3. 0 \in S
  BY <1>1, <1>2
<1>4. ASSUME NEW a \in 1 .. Len(l), a - 1 \in S PROVE a \in S
  <2>1. CopiedTo(g[a - 1], o, j, a - 1) /\ a \in 0 .. Len(l)
    BY <1>4
  <2>2. g[a] = Ini!ReadLine(g[a - 1], l[a]) /\ a \in 1 .. Len(o.sections[j].values)
    BY <1>2
  <2>3. CopiedTo(Ini!ReadLine(g[a - 1], l[a]), o, j, a)
    BY <2>1, <2>2, ValueRead
  <2> QED
    BY <2>1, <2>2, <2>3
<1> HIDE DEF S
<1>5. \A a \in 0 .. Len(l) : a \in S
  BY <1>1, <1>3, <1>4, InductionTo
<1>6. Len(l) \in 0 .. Len(l)
  BY <1>1
<1>7. CopiedTo(g[Len(l)], o, j, Len(l))
  BY <1>5, <1>6 DEF S
<1> QED
  BY <1>2, <1>7

\* Comments between them do not matter.
LEMMA CopiedRemarked ==
  ASSUME NEW o, NEW j \in Nat \ {0}, NEW a, NEW st, CopiedTo(st, o, j, a),
         NEW r \in Reading, OnlyRemarked(r, st)
  PROVE  CopiedTo(r, o, j, a)
<1>1. /\ r.keyname = st.keyname /\ r.failed = st.failed /\ Len(r.ini.sections) = j
      /\ \A i \in 1 .. j : /\ r.ini.sections[i].name = st.ini.sections[i].name
                           /\ r.ini.sections[i].values = st.ini.sections[i].values
  BY DEF OnlyRemarked, CopiedTo, SameSections
<1>2. j \in 1 .. j /\ \A i \in 1 .. j - 1 : i \in 1 .. j
  OBVIOUS
<1>3. SameSections(r.ini, o, j - 1)
  BY <1>1, <1>2 DEF CopiedTo, SameSections
<1> QED
  BY <1>1, <1>2, <1>3 DEF CopiedTo

\* The line of a section makes the next one, which is empty.
LEMMA SectionLineRead ==
  ASSUME Ini!CallsAssumption, NEW o \in Unshadowed, NEW j \in 1 .. Len(o.sections),
         NEW st \in Reading, ~st.failed, Len(st.ini.sections) = j - 1,
         SameSections(st.ini, o, j - 1)
  PROVE  CopiedTo(Ini!ReadLine(st, Ini!SectionLine(o.sections[j].name)), o, j, 0)
<1> DEFINE n == o.sections[j].name
           v == o.sections[j].values
           l == Ini!SectionLine(n)
           r == Ini!ReadLine(st, l)
           q == st.ini.sections
           z == Ini!AddKeyName(st.ini, n)
<1>1. o.sections \in Seq(IniSection) /\ j \in DOMAIN o.sections
  BY UnshadowedFields
<1>2. n \in IniName /\ v \in Seq(IniValue)
  BY <1>1, SectionFields
<1>3. st.ini \in Unshadowed /\ st = [ini |-> st.ini, keyname |-> st.keyname, failed |-> st.failed]
  BY DEF Reading
<1>4. l \in Ini!FileLine /\ l.kind = "section" /\ l.name = n
  BY <1>2, IniTypes DEF Ini!SectionLine, Ini!FileLine, IniName, IniText
<1>5. r \in Reading
  BY <1>4, ReadLineUnshadowed
<1>6. r = [ini |-> z, keyname |-> n, failed |-> st.failed]
  <2> HIDE DEF l, n
  <2>1. r = [st EXCEPT !.ini = Ini!AddKeyName(@, l.name), !.keyname = l.name]
    BY <1>4 DEF Ini!ReadLine
  <2> QED
    BY <1>3, <1>4, <2>1
<1>7. z.sections = Append(q, Ini!Section(n))
  BY <1>2, <1>3, AddKeyNameResult
<1>8. q \in Seq(IniSection) /\ Len(q) = j - 1 /\ j \in Nat
  BY <1>3, UnshadowedFields
<1>9. Ini!Section(n).name = n /\ Ini!Section(n).values = <<>>
  BY DEF Ini!Section
<1> HIDE DEF l, r, q, z, n
<1>10. /\ Len(z.sections) = j /\ z.sections[j] = Ini!Section(n)
       /\ \A i \in 1 .. j - 1 : z.sections[i] = q[i]
  BY <1>7, <1>8
<1>11. SameSections(z, o, j - 1)
  BY <1>10 DEF SameSections, q
<1>12. SubSeq(v, 1, 0) = <<>>
  <2> HIDE DEF v
  <2> QED
    BY <1>2
<1>13. CopiedTo(r, o, j, 0)
  BY <1>5, <1>6, <1>9, <1>10, <1>11, <1>12 DEF CopiedTo, n
<1> QED
  BY <1>13 DEF r, l, n

\* st has the sections of o up to j.
Copied(st, o, j) ==
  st \in Reading /\ ~st.failed /\ Len(st.ini.sections) = j /\ SameSections(st.ini, o, j)

\* Reading the lines of the next section gives that section.
LEMMA SectionRead ==
  ASSUME Ini!CallsAssumption, NEW o \in Unshadowed, NEW j \in 1 .. Len(o.sections),
         NEW st, Copied(st, o, j - 1)
  PROVE  Copied(Ini!ReadLines(st, Ini!SectionLines(o.sections[j])), o, j)
<1> DEFINE k == o.sections[j]
           h == Ini!SectionLine(k.name)
           c == [i \in DOMAIN k.comments |-> Ini!CommentLine(k.comments[i])]
           v == [i \in DOMAIN k.values |-> Ini!ValueLine(k.values[i].name, k.values[i].value)]
           b == <<Ini!BlankLine>>
<1>1. o.sections \in Seq(IniSection) /\ j \in DOMAIN o.sections /\ j \in Nat \ {0}
  BY UnshadowedFields
<1>2. k.name \in IniName /\ k.values \in Seq(IniValue) /\ k.comments \in Seq(IniText)
  BY <1>1, SectionFields
<1>3. h \in Ini!FileLine /\ Ini!BlankLine \in RemarkLine
  BY <1>2, IniTypes DEF Ini!SectionLine, Ini!BlankLine, Ini!FileLine, RemarkLine, IniName, IniText
<1>4. c \in Seq(RemarkLine)
  <2>1. Len(k.comments) \in Nat /\ DOMAIN k.comments = 1 .. Len(k.comments)
    BY <1>2
  <2>2. \A i \in DOMAIN k.comments : k.comments[i] \in IniText
    BY <1>2
  <2>3. \A t \in IniText : Ini!CommentLine(t) \in RemarkLine
    BY IniTypes DEF Ini!CommentLine, RemarkLine, Ini!FileLine, IniName, IniText
  <2>4. c \in [1 .. Len(k.comments) -> RemarkLine]
    BY <2>1, <2>2, <2>3
  <2> QED
    BY <2>1, <2>4
<1>5. /\ v \in Seq(Ini!FileLine) /\ Len(v) = Len(k.values)
      /\ \A a \in 1 .. Len(v) : v[a] = Ini!ValueLine(k.values[a].name, k.values[a].value)
  <2>1. Len(k.values) \in Nat /\ DOMAIN k.values = 1 .. Len(k.values)
    BY <1>2
  <2>2. \A i \in DOMAIN k.values : k.values[i] \in IniValue
    BY <1>2
  <2>3. \A e \in IniValue : Ini!ValueLine(e.name, e.value) \in Ini!FileLine
    BY DEF Ini!ValueLine, Ini!FileLine, IniName, IniText, IniValue
  <2>4. v \in [1 .. Len(k.values) -> Ini!FileLine]
    BY <2>1, <2>2, <2>3
  <2>5. Len(v) = Len(k.values) /\ v \in Seq(Ini!FileLine)
    BY <2>1, <2>4
  <2> QED
    BY <2>1, <2>5
<1>6. b \in Seq(RemarkLine)
  BY <1>3
<1>7. Ini!SectionLines(k) = <<h>> \o c \o v \o b
  BY DEF Ini!SectionLines
<1> HIDE DEF h, c, v, b
<1> DEFINE r1 == Ini!ReadLines(st, <<h>>)
           r2 == Ini!ReadLines(r1, c)
           r3 == Ini!ReadLines(r2, v)
           r4 == Ini!ReadLines(r3, b)
<1>8. st \in Reading
  BY DEF Copied
<1>9. <<h>> \in Seq(Ini!FileLine) /\ r1 = Ini!ReadLine(st, h)
  BY <1>3, <1>8, ReadOne
<1>10. CopiedTo(r1, o, j, 0)
  BY <1>9, SectionLineRead DEF Copied, h
<1> HIDE DEF r1
<1>11. c \in Seq(Ini!FileLine) /\ r2 \in Reading /\ OnlyRemarked(r2, r1)
  BY <1>4, <1>10, RemarksRead DEF CopiedTo
<1> HIDE DEF r2
<1>12. CopiedTo(r2, o, j, 0)
  BY <1>1, <1>10, <1>11, CopiedRemarked
<1>13. CopiedTo(r3, o, j, Len(k.values))
  BY <1>5, <1>12, ValuesRead
<1> HIDE DEF r3
<1>14. b \in Seq(Ini!FileLine) /\ r4 \in Reading /\ OnlyRemarked(r4, r3)
  BY <1>6, <1>13, RemarksRead DEF CopiedTo
<1> HIDE DEF r4
<1>15. CopiedTo(r4, o, j, Len(k.values))
  BY <1>1, <1>13, <1>14, CopiedRemarked
<1>16. Ini!ReadLines(st, <<h>> \o c \o v \o b) = r4
  <2> DEFINE p == <<h>> \o c
             s == p \o v
  <2>1. p \in Seq(Ini!FileLine) /\ s \in Seq(Ini!FileLine)
    BY <1>5, <1>9, <1>11
  <2>2. Ini!ReadLines(st, p) = r2
    BY <1>8, <1>9, <1>11, ReadConcat DEF r1, r2
  <2> HIDE DEF p
  <2>3. Ini!ReadLines(st, s) = r3
    BY <1>5, <1>8, <2>1, <2>2, ReadConcat DEF r3
  <2> HIDE DEF s
  <2>4. Ini!ReadLines(st, s \o b) = r4
    BY <1>8, <1>14, <2>1, <2>3, ReadConcat DEF r4
  <2> QED
    BY <2>4 DEF s, p
<1>17. SubSeq(k.values, 1, Len(k.values)) = k.values
  <2> DEFINE w == k.values
  <2>1. w \in Seq(IniValue)
    BY <1>2
  <2> HIDE DEF w
  <2>2. SubSeq(w, 1, Len(w)) = w
    BY <2>1
  <2> QED
    BY <2>2 DEF w
<1>18. Copied(r4, o, j)
  <2>1. \A i \in 1 .. j : i = j \/ i \in 1 .. j - 1
    BY <1>1
  <2>2. SameSections(r4.ini, o, j)
    BY <1>15, <1>17, <2>1 DEF CopiedTo, SameSections
  <2> QED
    BY <1>15, <2>2 DEF Copied, CopiedTo
<1> QED
  BY <1>7, <1>16, <1>18

\* Before the first section there are only comments.
LEMMA HeaderRead ==
  ASSUME Ini!CallsAssumption, NEW o \in Unshadowed
  PROVE  LET st == [ini |-> Ini!Empty, keyname |-> "", failed |-> FALSE]
         IN  st \in Reading /\ Copied(Ini!ReadLines(st, Ini!HeaderLines(o)), o, 0)
<1> DEFINE st == [ini |-> Ini!Empty, keyname |-> "", failed |-> FALSE]
           c == [i \in DOMAIN o.comments |-> Ini!CommentLine(o.comments[i])]
           b == IF o.comments = <<>> THEN <<>> ELSE <<Ini!BlankLine>>
           l == Ini!HeaderLines(o)
           r == Ini!ReadLines(st, l)
<1>1. st \in Reading /\ Ini!Empty.sections = <<>>
  <2>1. <<>> \in Seq(IniSection) /\ ShadowFree(<<>>) /\ <<>> \in Seq(IniText)
    BY DEF ShadowFree
  <2>2. Ini!Empty \in Unshadowed
    BY <2>1, UnshadowedMade DEF Ini!Empty
  <2>3. Ini!Empty.sections = <<>>
    BY DEF Ini!Empty
  <2> QED
    BY <2>2, <2>3, IniTypes DEF Reading
<1>2. o.comments \in Seq(IniText)
  BY UnshadowedFields
<1>3. Ini!BlankLine \in RemarkLine
  BY IniTypes DEF Ini!BlankLine, RemarkLine, Ini!FileLine, IniName, IniText
<1>4. c \in Seq(RemarkLine)
  <2>1. Len(o.comments) \in Nat /\ DOMAIN o.comments = 1 .. Len(o.comments)
    BY <1>2
  <2>2. \A i \in DOMAIN o.comments : o.comments[i] \in IniText
    BY <1>2
  <2>3. \A t \in IniText : Ini!CommentLine(t) \in RemarkLine
    BY IniTypes DEF Ini!CommentLine, RemarkLine, Ini!FileLine, IniName, IniText
  <2>4. c \in [1 .. Len(o.comments) -> RemarkLine]
    BY <2>1, <2>2, <2>3
  <2> QED
    BY <2>1, <2>4
<1>5. b \in Seq(RemarkLine)
  BY <1>3
<1>6. l = c \o b
  BY DEF Ini!HeaderLines
<1> HIDE DEF c, b, l
<1>7. l \in Seq(RemarkLine)
  BY <1>4, <1>5, <1>6
<1>8. st.ini = Ini!Empty /\ ~st.failed
  OBVIOUS
<1> HIDE DEF st
<1>9. r \in Reading /\ OnlyRemarked(r, st)
  BY <1>1, <1>7, RemarksRead
<1> HIDE DEF r
<1>10. Len(st.ini.sections) = 0
  BY <1>1, <1>8
<1>11. Copied(r, o, 0)
  BY <1>8, <1>9, <1>10 DEF Copied, OnlyRemarked, SameSections
<1> QED
  BY <1>1, <1>11 DEF st, r, l

\* Reading all of the lines gives all of the sections.
LEMMA WrittenRead ==
  ASSUME Ini!CallsAssumption, NEW o \in Unshadowed
  PROVE  Copied(Ini!Read(Ini!Empty, Ini!Lines(o)), o, Len(o.sections))
<1> DEFINE st == [ini |-> Ini!Empty, keyname |-> "", failed |-> FALSE]
           n == Len(o.sections)
<1>1. st \in Reading /\ Copied(Ini!ReadLines(st, Ini!HeaderLines(o)), o, 0)
  BY HeaderRead, Zenon
<1>2. Ini!Read(Ini!Empty, Ini!Lines(o)) = Ini!ReadLines(st, Ini!Lines(o))
  BY DEF Ini!Read
<1> HIDE DEF st
<1>3. PICK g : /\ g \in [0 .. n -> Seq(Ini!FileLine)] /\ g[0] = Ini!HeaderLines(o)
               /\ \A i \in 1 .. n : g[i] = g[i - 1] \o Ini!SectionLines(o.sections[i])
               /\ Ini!Lines(o) = g[n]
  BY LinesResult, Zenon
<1>4. n \in Nat /\ o.sections \in Seq(IniSection)
  BY UnshadowedFields
<1>5. \A i \in 1 .. n : Ini!SectionLines(o.sections[i]) \in Seq(Ini!FileLine)
  <2>1. \A i \in 1 .. n : o.sections[i] \in IniSection
    BY <1>4
  <2> QED
    BY <2>1, SectionLinesType
<1> DEFINE S == {i \in 0 .. n : Copied(Ini!ReadLines(st, g[i]), o, i)}
<1>6. 0 \in S
  BY <1>1, <1>3, <1>4
<1>7. ASSUME NEW i \in 1 .. n, i - 1 \in S PROVE i \in S
  <2> DEFINE l == Ini!SectionLines(o.sections[i])
             r == Ini!ReadLines(st, g[i - 1])
  <2>1. i - 1 \in 0 .. n /\ i \in 0 .. n /\ Copied(r, o, i - 1)
    BY <1>4, <1>7
  <2>2. g[i - 1] \in Seq(Ini!FileLine) /\ l \in Seq(Ini!FileLine) /\ g[i] = g[i - 1] \o l
    BY <1>3, <1>5, <2>1
  <2>3. Ini!ReadLines(st, g[i]) = Ini!ReadLines(r, l)
    BY <1>1, <2>2, ReadConcat
  <2>4. Copied(Ini!ReadLines(r, l), o, i)
    BY <2>1, SectionRead
  <2> QED
    BY <2>1, <2>3, <2>4
<1> HIDE DEF S
<1>8. \A i \in 0 .. n : i \in S
  BY <1>4, <1>6, <1>7, InductionTo
<1>9. n \in 0 .. n
  BY <1>4
<1>10. Copied(Ini!ReadLines(st, g[n]), o, n)
  BY <1>8, <1>9 DEF S
<1> QED
  BY <1>2, <1>3, <1>10

\* The lookups depend on names and values only.
LEMMA SameLooks ==
  ASSUME NEW o \in Unshadowed, NEW y \in Unshadowed, Len(y.sections) = Len(o.sections),
         SameSections(y, o, Len(o.sections))
  PROVE  Ini!Looked(y) = Ini!Looked(o)
<1> DEFINE s == o.sections
           q == y.sections
<1>1. DOMAIN s = 1 .. Len(s) /\ DOMAIN q = 1 .. Len(s)
  BY UnshadowedFields
<1>2. \A i \in 1 .. Len(s) : q[i].name = s[i].name /\ q[i].values = s[i].values
  BY DEF SameSections
<1> HIDE DEF s, q
<1>3. ASSUME NEW n \in Sections, NEW m \in ValueNames
      PROVE  Ini!GetValue(y, n, m, "") = Ini!GetValue(o, n, m, "")
  <2> DEFINE i == Ini!FindKey(o, n)
  <2>1. {j \in DOMAIN q : CheckCase[q[j].name] = CheckCase[n]} = {j \in DOMAIN s : CheckCase[s[j].name] = CheckCase[n]}
    BY <1>1, <1>2
  <2>2. Ini!FindKey(y, n) = i
    <3> DEFINE S == {j \in DOMAIN s : CheckCase[s[j].name] = CheckCase[n]}
               T == {j \in DOMAIN q : CheckCase[q[j].name] = CheckCase[n]}
               F(U) == IF U = {} THEN 0 ELSE CHOOSE j \in U : \A k \in U : j <= k
    <3>1. i = F(S)
      BY DEF Ini!FindKey, Ini!FirstNamed, Ini!noID, s
    <3>2. Ini!FindKey(y, n) = F(T)
      BY DEF Ini!FindKey, Ini!FirstNamed, Ini!noID, q
    <3>3. S = T
      BY <2>1
    <3> HIDE DEF F, S, T
    <3> QED
      BY <3>1, <3>2, <3>3
  <2>3. i = 0 \/ i \in DOMAIN s
    BY FindKeyResult DEF s
  <2> HIDE DEF i
  <2>4. CASE i = 0
    BY <2>2, <2>4 DEF Ini!GetValue, Ini!noID, i
  <2>5. CASE i \in DOMAIN s
    <3>1. q[i].values = s[i].values
      BY <1>1, <1>2, <2>5
    <3> QED
      BY <2>2, <3>1 DEF Ini!GetValue, Ini!FindValue, i, s, q
  <2> QED
    BY <2>3, <2>4, <2>5
<1> QED
  BY <1>3 DEF Ini!Looked

(***************************************************************************)
(* For any names, values, user files and number of calls: after any calls  *)
(* of CIniFile, what WriteFile writes is read by ReadFile to its end and   *)
(* gives every value back.                                                 *)
(***************************************************************************)
THEOREM IniRoundTrip ==
  Ini!CallsAssumption => (Ini!Spec => []RoundTrip)
<1> SUFFICES ASSUME Ini!CallsAssumption PROVE Ini!Spec => []RoundTrip
  OBVIOUS
<1>1. Ini!Init => IniInv
  BY InitIniInv
<1>2. IniInv /\ [Ini!Next]_(Ini!vars) => IniInv'
  BY NextIniInv
<1>3. IniInv => RoundTrip
  <2> SUFFICES ASSUME IniInv PROVE RoundTrip
    OBVIOUS
  <2> DEFINE st == Ini!Read(Ini!Empty, Ini!Lines(ini))
  <2>1. ini \in Unshadowed
    BY DEF IniInv
  <2>2. Copied(st, ini, Len(ini.sections))
    BY <2>1, WrittenRead
  <2> HIDE DEF st
  <2>3. st.ini \in Unshadowed /\ ~st.failed
    BY <2>2 DEF Copied, Reading
  <2>4. Ini!Looked(st.ini) = Ini!Looked(ini)
    BY <2>1, <2>2, <2>3, SameLooks DEF Copied
  <2> QED
    BY <2>3, <2>4 DEF RoundTrip, Ini!RoundTrip, st
<1> QED
  BY <1>1, <1>2, <1>3, PTL DEF Ini!Spec
-----------------------------------------------------------------------------
(* EtagCache.                                                              *)

(***************************************************************************)
(* The containers hold nodes, and a thread inside GetKey holds a tag.      *)
(***************************************************************************)
CacheTyped ==
  /\ value \in [Nodes -> Nat]
  /\ etaglist \in [Etags!Shards -> Seq(Nodes)]
  /\ etagmap \in [Etags!Shards -> [Etags!Tags -> Nodes \cup {NoNode}]]

ThreadsTyped ==
  /\ pc \in [Threads -> {"idle", "total", "get", "hit"}]
  /\ tag \in [Threads -> Nat]
  /\ \A t \in Threads : pc[t] \in {"total", "get"} => tag[t] \in Etags!Tags

\* No list is longer than a shard may be.
Bounded == \A i \in Etags!Shards : Len(etaglist[i]) <= capacity

\* A node has one place, in one list.
NodesOnce ==
  \A i, j \in Etags!Shards :
    \A a \in 1 .. Len(etaglist[i]), b \in 1 .. Len(etaglist[j]) :
      etaglist[i][a] = etaglist[j][b] => i = j /\ a = b

\* The node at each place of a list is in the map, under its tag.
ListToMap ==
  \A i \in Etags!Shards : \A a \in 1 .. Len(etaglist[i]) :
    /\ value[etaglist[i][a]] \in Etags!Tags
    /\ etagmap[i][value[etaglist[i][a]]] = etaglist[i][a]

\* Each iterator of the map is the place of a node that holds its tag.
MapToList ==
  \A i \in Etags!Shards : \A g \in Etags!Tags : Etags!Found(i, g) =>
    /\ \E a \in 1 .. Len(etaglist[i]) : etaglist[i][a] = etagmap[i][g]
    /\ value[etagmap[i][g]] = g

CacheInv == CacheTyped /\ Bounded /\ NodesOnce /\ ListToMap /\ MapToList

EtagInv == CacheInv /\ ThreadsTyped

\* The tags in a list of nodes: what the refinement makes of a shard.
TagsIn(s) == [a \in DOMAIN s |-> value[s[a]]]
-----------------------------------------------------------------------------
(* What erasing a node does to a list.                                     *)

\* A sequence without its p-th element: what follows moves up.
LEMMA RemoveAtResult ==
  ASSUME NEW S, NEW s \in Seq(S), NEW p \in 1 .. Len(s)
  PROVE  /\ Etags!RemoveAt(s, p) \in Seq(S)
         /\ Len(Etags!RemoveAt(s, p)) = Len(s) - 1
         /\ \A a \in 1 .. Len(s) - 1 :
              Etags!RemoveAt(s, p)[a] = IF a < p THEN s[a] ELSE s[a + 1]
<1> DEFINE l == SubSeq(s, 1, p - 1)
           r == SubSeq(s, p + 1, Len(s))
<1>1. l \in Seq(S) /\ Len(l) = p - 1 /\ \A a \in 1 .. p - 1 : l[a] = s[a]
  OBVIOUS
<1>2. /\ r \in Seq(S) /\ Len(r) = Len(s) - p
      /\ \A a \in 1 .. Len(s) - p : r[a] = s[a + p]
  OBVIOUS
<1>3. Etags!RemoveAt(s, p) = l \o r
  BY DEF Etags!RemoveAt
<1> HIDE DEF l, r
<1>4. /\ l \o r \in Seq(S) /\ Len(l \o r) = Len(s) - 1
      /\ \A a \in 1 .. Len(s) - 1 :
           (l \o r)[a] = IF a <= p - 1 THEN l[a] ELSE r[a - (p - 1)]
  BY <1>1, <1>2, ConcatProperties
<1>5. ASSUME NEW a \in 1 .. Len(s) - 1
      PROVE  (l \o r)[a] = IF a < p THEN s[a] ELSE s[a + 1]
  <2>1. CASE a < p
    BY <2>1, <1>1, <1>4
  <2>2. CASE ~(a < p)
    <3>1. a - (p - 1) \in 1 .. Len(s) - p /\ (a - (p - 1)) + p = a + 1
      BY <2>2
    <3>2. r[a - (p - 1)] = s[a + 1]
      BY <3>1, <1>2
    <3> QED
      BY <2>2, <3>2, <1>4
  <2> QED
    BY <2>1, <2>2
<1> QED
  BY <1>3, <1>4, <1>5

\* An element with one place is erased there.
LEMMA RemoveFirstOnly ==
  ASSUME NEW S, NEW s \in Seq(S), NEW p \in 1 .. Len(s), NEW e, s[p] = e,
         \A a \in 1 .. Len(s) : s[a] = e => a = p
  PROVE  Etags!RemoveFirst(s, e) = Etags!RemoveAt(s, p)
<1>1. {i \in 1 .. Len(s) : s[i] = e} = {p}
  OBVIOUS
<1>2. Etags!Min({p}) = p
  BY DEF Etags!Min
<1>3. Etags!SelectInSeq(s, LAMBDA v : v = e) = p
  BY <1>1, <1>2 DEF Etags!SelectInSeq
<1> QED
  BY <1>3 DEF Etags!RemoveFirst

\* An element with no place is not erased.
LEMMA RemoveFirstNone ==
  ASSUME NEW S, NEW s \in Seq(S), NEW e, \A a \in 1 .. Len(s) : s[a] # e
  PROVE  Etags!RemoveFirst(s, e) = s
BY DEF Etags!RemoveFirst

\* LruCache erases an element in the same way.
LEMMA LruRemoveFirst ==
  ASSUME NEW s, NEW e
  PROVE  Etags!Lru!RemoveFirst(s, e) = Etags!RemoveFirst(s, e)
BY DEF Etags!Lru!RemoveFirst, Etags!Lru!RemoveAt, Etags!Lru!SelectInSeq, Etags!Lru!Min,
       Etags!RemoveFirst, Etags!RemoveAt, Etags!SelectInSeq, Etags!Min

\* A tag belongs to a shard.
LEMMA ShardOf ==
  ASSUME Etags!CacheAssumption, NEW g \in Etags!Tags
  PROVE  g \in Nat /\ Etags!Shard(g) \in Etags!Shards
<1>1. g \in Nat
  BY DEF Etags!CacheAssumption, Etags!Tags, Etags!HashKey
<1> QED
  BY <1>1 DEF Etags!CacheAssumption, Etags!Shard, Etags!Shards
\* A list with a node put in front: what was there moves down.
LEMMA ConsResult ==
  ASSUME NEW S, NEW s \in Seq(S), NEW e \in S
  PROVE  /\ <<e>> \o s \in Seq(S)
         /\ Len(<<e>> \o s) = Len(s) + 1
         /\ (<<e>> \o s)[1] = e
         /\ \A a \in 1 .. Len(s) : (<<e>> \o s)[a + 1] = s[a]
BY ConcatProperties

\* A list with a node moved to the front: the ones before it move down.
LEMMA ToFrontResult ==
  ASSUME NEW S, NEW s \in Seq(S), NEW p \in 1 .. Len(s)
  PROVE  /\ <<s[p]>> \o Etags!RemoveAt(s, p) \in Seq(S)
         /\ Len(<<s[p]>> \o Etags!RemoveAt(s, p)) = Len(s)
         /\ \A a \in 1 .. Len(s) :
              (<<s[p]>> \o Etags!RemoveAt(s, p))[a] =
                IF a = 1 THEN s[p] ELSE IF a <= p THEN s[a - 1] ELSE s[a]
<1> DEFINE r == Etags!RemoveAt(s, p)
<1>1. /\ r \in Seq(S) /\ Len(r) = Len(s) - 1
      /\ \A a \in 1 .. Len(s) - 1 : r[a] = IF a < p THEN s[a] ELSE s[a + 1]
  BY RemoveAtResult
<1> HIDE DEF r
<1>2. /\ <<s[p]>> \o r \in Seq(S) /\ Len(<<s[p]>> \o r) = Len(r) + 1
      /\ (<<s[p]>> \o r)[1] = s[p]
      /\ \A a \in 1 .. Len(r) : (<<s[p]>> \o r)[a + 1] = r[a]
  BY <1>1, ConsResult
<1>3. ASSUME NEW a \in 2 .. Len(s)
      PROVE  (<<s[p]>> \o r)[a] = IF a <= p THEN s[a - 1] ELSE s[a]
  <2>1. a - 1 \in 1 .. Len(r) /\ (a - 1) + 1 = a
    BY <1>1
  <2>2. (<<s[p]>> \o r)[a] = r[a - 1]
    BY <2>1, <1>2
  <2> QED
    BY <2>1, <2>2, <1>1, SMTT(30)
<1> QED
  BY <1>1, <1>2, <1>3 DEF r
-----------------------------------------------------------------------------
(* The two changes of a shard, each with what it is to an LRU cache.       *)

\* A tag in one place of a shard that is used moves to the front.
LEMMA UsedKnown ==
  ASSUME Etags!CacheAssumption, NEW r \in Seq(Nat), Len(r) <= capacity,
         NEW p \in 1 .. Len(r), NEW g, r[p] = g,
         \A a \in 1 .. Len(r) : r[a] = g => a = p
  PROVE  Etags!Lru!Used(r, g) = <<r[p]>> \o Etags!RemoveAt(r, p)
<1> DEFINE w == <<r[p]>> \o Etags!RemoveAt(r, p)
<1>1. Etags!Lru!RemoveFirst(r, g) = Etags!RemoveAt(r, p)
  BY RemoveFirstOnly, LruRemoveFirst
<1>2. w \in Seq(Nat) /\ Len(w) = Len(r)
  BY ToFrontResult
<1> HIDE DEF w
<1>3. SubSeq(w, 1, IF Len(w) < capacity THEN Len(w) ELSE capacity) = w
  BY <1>2, SubSeqFull DEF Etags!CacheAssumption
<1> QED
  BY <1>1, <1>3 DEF Etags!Lru!Used, w

\* A new tag comes in front, and the last of a full shard leaves.
LEMMA UsedNew ==
  ASSUME Etags!CacheAssumption, NEW r \in Seq(Nat), Len(r) <= capacity,
         NEW g \in Nat, \A a \in 1 .. Len(r) : r[a] # g
  PROVE  /\ Etags!Lru!Used(r, g) \in Seq(Nat)
         /\ Len(Etags!Lru!Used(r, g)) = IF Len(r) = capacity THEN Len(r) ELSE Len(r) + 1
         /\ \A a \in 1 .. Len(Etags!Lru!Used(r, g)) :
              Etags!Lru!Used(r, g)[a] = IF a = 1 THEN g ELSE r[a - 1]
<1> DEFINE w == <<g>> \o r
           m == IF Len(w) < capacity THEN Len(w) ELSE capacity
<1>1. Etags!Lru!RemoveFirst(r, g) = r
  BY RemoveFirstNone, LruRemoveFirst
<1>2. /\ w \in Seq(Nat) /\ Len(w) = Len(r) + 1
      /\ w[1] = g /\ \A a \in 1 .. Len(r) : w[a + 1] = r[a]
  BY ConsResult
<1>3. Etags!Lru!Used(r, g) = SubSeq(w, 1, m)
  BY <1>1 DEF Etags!Lru!Used
<1> HIDE DEF w
<1>4. m \in Nat /\ m <= Len(w) /\ m = IF Len(r) = capacity THEN Len(r) ELSE Len(r) + 1
  BY <1>2 DEF Etags!CacheAssumption
<1>5. \A a \in 1 .. m : w[a] = IF a = 1 THEN g ELSE r[a - 1]
  <2> TAKE a \in 1 .. m
  <2>1. CASE a = 1
    BY <2>1, <1>2
  <2>2. CASE a # 1
    <3>1. a - 1 \in 1 .. Len(r) /\ (a - 1) + 1 = a
      BY <2>2, <1>2, <1>4
    <3> QED
      BY <2>2, <3>1, <1>2
  <2> QED
    BY <2>1, <2>2
<1> HIDE DEF m
<1>6. /\ SubSeq(w, 1, m) \in Seq(Nat) /\ Len(SubSeq(w, 1, m)) = m
      /\ \A a \in 1 .. m : SubSeq(w, 1, m)[a] = w[a]
  BY <1>2, <1>4
<1> QED
  BY <1>3, <1>4, <1>5, <1>6

\* The tags in a list, place by place.
LEMMA TagsInResult ==
  ASSUME CacheTyped, NEW s \in Seq(Nodes)
  PROVE  /\ TagsIn(s) \in Seq(Nat) /\ Len(TagsIn(s)) = Len(s)
         /\ \A a \in 1 .. Len(s) : TagsIn(s)[a] = value[s[a]]
BY DEF TagsIn, CacheTyped

(***************************************************************************)
(* splice keeps the list and the map of a shard together, and is the use   *)
(* of a tag that the shard knows.                                          *)
(***************************************************************************)
LEMMA MoveToFrontResult ==
  ASSUME Etags!CacheAssumption, CacheInv, NEW i \in Etags!Shards, NEW g \in Etags!Tags,
         Etags!Found(i, g), Etags!MoveToFront(i, g)
  PROVE  /\ CacheInv'
         /\ \A j \in Etags!Shards \ {i} : etaglist'[j] = etaglist[j]
         /\ TagsIn(etaglist[i])' = Etags!Lru!Used(TagsIn(etaglist[i]), g)
<1> DEFINE s == etaglist[i]
           n == etagmap[i][g]
           u == etaglist'[i]
<1>1. s \in Seq(Nodes) /\ Len(s) \in Nat /\ DOMAIN s = 1 .. Len(s)
  BY DEF CacheInv, CacheTyped
<1>2. PICK p \in 1 .. Len(s) : s[p] = n
  BY DEF CacheInv, MapToList
<1>3. value[n] = g /\ n \in Nodes
  BY <1>1, <1>2 DEF CacheInv, MapToList
<1>4. \A a \in 1 .. Len(s) : s[a] = n => a = p
  BY <1>2 DEF CacheInv, NodesOnce
<1>5. Etags!RemoveFirst(s, n) = Etags!RemoveAt(s, p)
  BY <1>1, <1>2, <1>4, RemoveFirstOnly
<1>6. /\ etaglist' = [etaglist EXCEPT ![i] = <<s[p]>> \o Etags!RemoveAt(s, p)]
      /\ value' = value /\ etagmap' = etagmap
  BY <1>2, <1>5 DEF Etags!MoveToFront
<1>7. u = <<s[p]>> \o Etags!RemoveAt(s, p) /\ \A j \in Etags!Shards \ {i} : etaglist'[j] = etaglist[j]
  BY <1>6 DEF CacheInv, CacheTyped
<1>8. /\ u \in Seq(Nodes) /\ Len(u) = Len(s)
      /\ \A a \in 1 .. Len(s) :
           u[a] = IF a = 1 THEN s[p] ELSE IF a <= p THEN s[a - 1] ELSE s[a]
  <2>1. /\ <<s[p]>> \o Etags!RemoveAt(s, p) \in Seq(Nodes)
        /\ Len(<<s[p]>> \o Etags!RemoveAt(s, p)) = Len(s)
        /\ \A a \in 1 .. Len(s) :
             (<<s[p]>> \o Etags!RemoveAt(s, p))[a] =
               IF a = 1 THEN s[p] ELSE IF a <= p THEN s[a - 1] ELSE s[a]
    BY <1>1, ToFrontResult
  <2> HIDE DEF s, u
  <2> QED
    BY <1>7, <2>1
<1> DEFINE from(a) == IF a = 1 THEN p ELSE IF a <= p THEN a - 1 ELSE a
<1>9. \A a \in 1 .. Len(s) : from(a) \in 1 .. Len(s) /\ u[a] = s[from(a)]
  BY <1>1, <1>8
<1>10. \A a, b \in 1 .. Len(s) : from(a) = from(b) => a = b
  BY <1>1
<1>11. \A b \in 1 .. Len(s) : \E a \in 1 .. Len(s) : u[a] = s[b]
  <2> TAKE b \in 1 .. Len(s)
  <2> DEFINE a == IF b = p THEN 1 ELSE IF b < p THEN b + 1 ELSE b
  <2>1. a \in 1 .. Len(s) /\ from(a) = b
    BY <1>1
  <2> QED
    BY <2>1, <1>9
<1> HIDE DEF from
<1>12. CacheTyped'
  BY <1>6, <1>7, <1>8 DEF CacheInv, CacheTyped
<1>13. Bounded'
  BY <1>7, <1>8 DEF CacheInv, Bounded
<1>14. NodesOnce'
  <2> SUFFICES ASSUME NEW j \in Etags!Shards, NEW k \in Etags!Shards,
                      NEW a \in 1 .. Len(etaglist'[j]), NEW b \in 1 .. Len(etaglist'[k]),
                      etaglist'[j][a] = etaglist'[k][b]
               PROVE  j = k /\ a = b
    BY DEF NodesOnce
  <2> DEFINE A == IF j = i THEN from(a) ELSE a
             B == IF k = i THEN from(b) ELSE b
  <2>1. A \in 1 .. Len(etaglist[j]) /\ etaglist'[j][a] = etaglist[j][A]
    BY <1>7, <1>8, <1>9
  <2>2. B \in 1 .. Len(etaglist[k]) /\ etaglist'[k][b] = etaglist[k][B]
    BY <1>7, <1>8, <1>9
  <2>3. j = k /\ A = B
    <3>1. \A c \in 1 .. Len(etaglist[j]), d \in 1 .. Len(etaglist[k]) :
            etaglist[j][c] = etaglist[k][d] => j = k /\ c = d
      BY DEF CacheInv, NodesOnce
    <3> HIDE DEF A, B
    <3> QED
      BY <2>1, <2>2, <3>1
  <2> QED
    BY <2>3, <1>8, <1>10
<1>15. ListToMap'
  <2> SUFFICES ASSUME NEW j \in Etags!Shards, NEW a \in 1 .. Len(etaglist'[j])
               PROVE  /\ value[etaglist'[j][a]] \in Etags!Tags
                      /\ etagmap[j][value[etaglist'[j][a]]] = etaglist'[j][a]
    BY <1>6 DEF ListToMap
  <2> DEFINE A == IF j = i THEN from(a) ELSE a
  <2>1. A \in 1 .. Len(etaglist[j]) /\ etaglist'[j][a] = etaglist[j][A]
    BY <1>7, <1>8, <1>9
  <2>2. \A c \in 1 .. Len(etaglist[j]) :
          /\ value[etaglist[j][c]] \in Etags!Tags
          /\ etagmap[j][value[etaglist[j][c]]] = etaglist[j][c]
    BY DEF CacheInv, ListToMap
  <2> HIDE DEF A
  <2> QED
    BY <2>1, <2>2
<1>16. MapToList'
  <2>a. value' = value /\ etagmap' = etagmap
    BY <1>6
  <2> SUFFICES ASSUME NEW j \in Etags!Shards, NEW y \in Etags!Tags, Etags!Found(j, y)
               PROVE  /\ \E a \in 1 .. Len(etaglist'[j]) : etaglist'[j][a] = etagmap[j][y]
                      /\ value[etagmap[j][y]] = y
    BY <2>a DEF MapToList, Etags!Found
  <2>1. PICK b \in 1 .. Len(etaglist[j]) : etaglist[j][b] = etagmap[j][y]
    BY DEF CacheInv, MapToList
  <2>2. value[etagmap[j][y]] = y
    BY DEF CacheInv, MapToList
  <2>3. CASE j = i
    <3>1. PICK a \in 1 .. Len(s) : u[a] = s[b]
      BY <2>1, <2>3, <1>11
    <3>2. a \in 1 .. Len(etaglist'[j]) /\ etaglist'[j][a] = etagmap[j][y]
      BY <2>1, <2>3, <3>1, <1>8
    <3> QED
      BY <2>2, <3>2
  <2>4. CASE j # i
    BY <2>1, <2>2, <2>4, <1>7
  <2> QED
    BY <2>3, <2>4
<1>17. TagsIn(s)' = Etags!Lru!Used(TagsIn(s), g)
  <2> DEFINE r == TagsIn(s)
             v == TagsIn(s)'
  <2>1. /\ r \in Seq(Nat) /\ Len(r) = Len(s)
        /\ \A a \in 1 .. Len(s) : r[a] = value[s[a]]
    BY <1>1, TagsInResult DEF CacheInv
  <2>2. /\ v \in Seq(Nat) /\ Len(v) = Len(s)
        /\ \A a \in 1 .. Len(s) : v[a] = value[u[a]]
    <3>1. v = [a \in DOMAIN u |-> value[u[a]]]
      BY <1>6 DEF TagsIn
    <3>2. value \in [Nodes -> Nat]
      BY DEF CacheInv, CacheTyped
    <3> HIDE DEF s, u, v
    <3>3. DOMAIN u = 1 .. Len(s) /\ Len(s) \in Nat /\ \A a \in 1 .. Len(s) : u[a] \in Nodes
      BY <1>1, <1>8
    <3>4. v \in [1 .. Len(s) -> Nat]
      BY <3>1, <3>2, <3>3
    <3> QED
      BY <3>1, <3>3, <3>4
  <2>3. r[p] = g /\ \A a \in 1 .. Len(r) : r[a] = g => a = p
    <3>1. \A a \in 1 .. Len(s) : etagmap[i][value[s[a]]] = s[a]
      BY DEF CacheInv, ListToMap
    <3> HIDE DEF s, r
    <3> QED
      BY <2>1, <3>1, <1>2, <1>3, <1>4
  <2>4. Len(r) <= capacity
    BY <2>1 DEF CacheInv, Bounded
  <2> HIDE DEF r, v
  <2>5. Etags!Lru!Used(r, g) = <<r[p]>> \o Etags!RemoveAt(r, p)
    BY <2>1, <2>3, <2>4, UsedKnown
  <2>6. /\ Etags!Lru!Used(r, g) \in Seq(Nat) /\ Len(Etags!Lru!Used(r, g)) = Len(s)
        /\ \A a \in 1 .. Len(s) :
             Etags!Lru!Used(r, g)[a] = IF a = 1 THEN r[p] ELSE IF a <= p THEN r[a - 1] ELSE r[a]
    <3>1. r \in Seq(Nat) /\ p \in 1 .. Len(r)
      BY <2>1
    <3>2. /\ <<r[p]>> \o Etags!RemoveAt(r, p) \in Seq(Nat)
          /\ Len(<<r[p]>> \o Etags!RemoveAt(r, p)) = Len(r)
          /\ \A a \in 1 .. Len(r) :
               (<<r[p]>> \o Etags!RemoveAt(r, p))[a] =
                 IF a = 1 THEN r[p] ELSE IF a <= p THEN r[a - 1] ELSE r[a]
      BY <3>1, ToFrontResult
    <3>3. Len(r) = Len(s)
      BY <2>1
    <3> QED
      BY <2>5, <3>2, <3>3
  <2>7. ASSUME NEW a \in 1 .. Len(s)
        PROVE  v[a] = Etags!Lru!Used(r, g)[a]
    <3>1. v[a] = value[u[a]]
      BY <2>2
    <3>2. u[a] = IF a = 1 THEN s[p] ELSE IF a <= p THEN s[a - 1] ELSE s[a]
      BY <1>8
    <3>3. Etags!Lru!Used(r, g)[a] = IF a = 1 THEN r[p] ELSE IF a <= p THEN r[a - 1] ELSE r[a]
      BY <2>6
    <3>4. a # 1 => a - 1 \in 1 .. Len(s)
      BY <1>1
    <3>5. /\ r[p] = value[s[p]] /\ r[a] = value[s[a]]
          /\ a # 1 => r[a - 1] = value[s[a - 1]]
      BY <2>1, <3>4
    <3> QED
      BY <3>1, <3>2, <3>3, <3>5
  <2>8. v = Etags!Lru!Used(r, g)
    BY <2>2, <2>6, <2>7, SeqEqual
  <2> QED
    BY <2>8 DEF r, v
<1> QED
  BY <1>7, <1>12, <1>13, <1>14, <1>15, <1>16, <1>17 DEF CacheInv

(***************************************************************************)
(* Set of a tag that the shard does not know: the list and the map stay    *)
(* together, although the node may be the one just freed, and to an LRU    *)
(* cache it is the use of a new tag.                                       *)
(***************************************************************************)
LEMMA InsertResult ==
  ASSUME Etags!CacheAssumption, CacheInv, NEW i \in Etags!Shards, NEW g \in Etags!Tags,
         ~Etags!Found(i, g), NEW n \in Nodes \ Etags!InUse(i), Etags!Insert(i, g, n)
  PROVE  /\ CacheInv'
         /\ \A j \in Etags!Shards \ {i} : etaglist'[j] = etaglist[j]
         /\ \A j \in Etags!Shards \ {i} : TagsIn(etaglist[j])' = TagsIn(etaglist[j])
         /\ TagsIn(etaglist[i])' = Etags!Lru!Used(TagsIn(etaglist[i]), g)
<1> DEFINE s == etaglist[i]
           u == etaglist'[i]
           m == IF Etags!Full(i) THEN Len(s) - 1 ELSE Len(s)
           kept == IF Etags!Full(i) THEN Etags!Front(s) ELSE s
           old == IF Etags!Full(i) THEN {value[Etags!Last(s)]} ELSE {}
<1>1. s \in Seq(Nodes) /\ Len(s) \in Nat /\ DOMAIN s = 1 .. Len(s) /\ Len(s) <= capacity
  BY DEF CacheInv, CacheTyped, Bounded
<1>2. g \in Nat /\ m \in Nat /\ m <= Len(s) /\ m + 1 <= capacity
  BY <1>1, ShardOf DEF Etags!Full, Etags!CacheAssumption
<1>3. kept \in Seq(Nodes) /\ Len(kept) = m /\ \A a \in 1 .. m : kept[a] = s[a]
  <2>1. CASE Etags!Full(i)
    <3>1. Len(s) >= 1
      BY <2>1 DEF Etags!Full, Etags!CacheAssumption
    <3> QED
      BY <2>1, <3>1, <1>1 DEF Etags!Front
  <2>2. CASE ~Etags!Full(i)
    BY <2>2, <1>1
  <2> QED
    BY <2>1, <2>2
<1>4. /\ value' = [value EXCEPT ![n] = g]
      /\ etaglist' = [etaglist EXCEPT ![i] = <<n>> \o kept]
      /\ etagmap' = [etagmap EXCEPT ![i] =
                       [y \in Etags!Tags |-> IF y = g THEN n
                                       ELSE IF y \in old THEN NoNode ELSE etagmap[i][y]]]
  BY DEF Etags!Insert, CacheInv, CacheTyped
<1>5. u = <<n>> \o kept /\ \A j \in Etags!Shards \ {i} : etaglist'[j] = etaglist[j]
  BY <1>4 DEF CacheInv, CacheTyped
<1>6. /\ u \in Seq(Nodes) /\ Len(u) = m + 1 /\ u[1] = n
      /\ \A a \in 1 .. m : u[a + 1] = s[a]
  <2> HIDE DEF kept, m
  <2>1. /\ <<n>> \o kept \in Seq(Nodes) /\ Len(<<n>> \o kept) = Len(kept) + 1
        /\ (<<n>> \o kept)[1] = n
        /\ \A a \in 1 .. Len(kept) : (<<n>> \o kept)[a + 1] = kept[a]
    BY <1>3, ConsResult
  <2> QED
    BY <2>1, <1>3, <1>5
<1>7. \A a \in 1 .. m : s[a] # n
  <2> SUFFICES ASSUME NEW a \in 1 .. m PROVE s[a] \in Etags!InUse(i)
    OBVIOUS
  <2>1. s[a] = kept[a] /\ a \in DOMAIN kept
    BY <1>3
  <2>2. kept[a] \in Etags!Range(kept)
    BY <2>1 DEF Etags!Range
  <2> DEFINE others == UNION {Etags!Range(etaglist[j]) : j \in Etags!Shards \ {i}}
  <2>3. Etags!InUse(i) = others \cup Etags!Range(kept)
    BY DEF Etags!InUse
  <2> HIDE DEF others, kept
  <2> QED
    BY <2>1, <2>2, <2>3
<1>8. \A j \in Etags!Shards \ {i} : \A b \in 1 .. Len(etaglist[j]) : etaglist[j][b] # n
  <2> SUFFICES ASSUME NEW j \in Etags!Shards \ {i}, NEW b \in 1 .. Len(etaglist[j])
               PROVE  etaglist[j][b] \in Etags!InUse(i)
    OBVIOUS
  <2>1. b \in DOMAIN etaglist[j]
    BY DEF CacheInv, CacheTyped
  <2>2. etaglist[j][b] \in Etags!Range(etaglist[j])
    BY <2>1 DEF Etags!Range
  <2> QED
    BY <2>2 DEF Etags!InUse
<1>9. /\ value' \in [Nodes -> Nat] /\ value'[n] = g
      /\ \A k \in Nodes : k # n => value'[k] = value[k]
  BY <1>2, <1>4 DEF CacheInv, CacheTyped
<1>10. /\ etagmap' \in [Etags!Shards -> [Etags!Tags -> Nodes \cup {NoNode}]]
       /\ etagmap'[i][g] = n
       /\ \A y \in Etags!Tags : y # g =>
            etagmap'[i][y] = IF y \in old THEN NoNode ELSE etagmap[i][y]
       /\ \A j \in Etags!Shards \ {i} : etagmap'[j] = etagmap[j]
  <2> HIDE DEF old
  <2> QED
    BY <1>4 DEF CacheInv, CacheTyped
<1>11. \A a \in 1 .. Len(s) : /\ s[a] \in Nodes /\ value[s[a]] \in Etags!Tags
                               /\ etagmap[i][value[s[a]]] = s[a] /\ value[s[a]] # g
  BY <1>1 DEF CacheInv, ListToMap, Etags!Found, Etags!CacheAssumption
<1>12. \A a \in 1 .. m : value[s[a]] \notin old
  <2> SUFFICES ASSUME NEW a \in 1 .. m, Etags!Full(i) PROVE value[s[a]] # value[s[Len(s)]]
    BY DEF Etags!Last
  <2>1. Len(s) \in 1 .. Len(s) /\ a \in 1 .. Len(s) /\ a # Len(s)
    BY <1>1
  <2>2. s[a] # s[Len(s)]
    BY <2>1 DEF CacheInv, NodesOnce
  <2> QED
    BY <1>11, <2>1, <2>2
<1>13. \A b \in 1 .. Len(s) : value[s[b]] \notin old => b \in 1 .. m
  BY <1>1 DEF Etags!Last
<1> HIDE DEF m, kept, old
<1>14. CacheTyped'
  BY <1>4, <1>5, <1>6, <1>9, <1>10 DEF CacheInv, CacheTyped
<1>15. Bounded'
  BY <1>2, <1>5, <1>6 DEF CacheInv, Bounded
<1>16. \A j \in Etags!Shards \ {i} : \A b \in 1 .. Len(etaglist[j]) :
         etaglist[j][b] \in Nodes /\ value'[etaglist[j][b]] = value[etaglist[j][b]]
  BY <1>8, <1>9 DEF CacheInv, CacheTyped
<1>17. \A a \in 1 .. m : a \in 1 .. Len(s) /\ value'[s[a]] = value[s[a]]
  BY <1>1, <1>2, <1>7, <1>9, <1>11
<1>18. \A a \in 1 .. m + 1 : a # 1 =>
         a - 1 \in 1 .. m /\ a - 1 \in 1 .. Len(s) /\ u[a] = s[a - 1]
  <2> TAKE a \in 1 .. m + 1
  <2> HAVE a # 1
  <2>1. a - 1 \in 1 .. m /\ (a - 1) + 1 = a
    BY <1>2
  <2> QED
    BY <2>1, <1>6, <1>17
<1>19. NodesOnce'
  <2> SUFFICES ASSUME NEW j \in Etags!Shards, NEW k \in Etags!Shards,
                      NEW a \in 1 .. Len(etaglist'[j]), NEW b \in 1 .. Len(etaglist'[k]),
                      etaglist'[j][a] = etaglist'[k][b]
               PROVE  j = k /\ a = b
    BY DEF NodesOnce
  <2>1. \A c \in 1 .. Len(etaglist[j]), d \in 1 .. Len(etaglist[k]) :
          etaglist[j][c] = etaglist[k][d] => j = k /\ c = d
    BY DEF CacheInv, NodesOnce
  <2>2. CASE j = i /\ k = i
    <3>1. a \in 1 .. m + 1 /\ b \in 1 .. m + 1 /\ u[a] = u[b]
      BY <2>2, <1>6
    <3>2. a = 1 <=> b = 1
      BY <3>1, <1>6, <1>7, <1>18, SMTT(20)
    <3>3. CASE a # 1 /\ b # 1
      <4>1. /\ a - 1 \in 1 .. Len(s) /\ b - 1 \in 1 .. Len(s)
            /\ s[a - 1] = s[b - 1]
        BY <3>1, <3>3, <1>18
      <4>2. a - 1 = b - 1
        BY <2>1, <2>2, <4>1
      <4> QED
        BY <2>2, <3>1, <4>2, <1>2
    <3> QED
      BY <2>2, <3>2, <3>3
  <2>3. CASE j = i /\ k # i
    <3>1. a \in 1 .. m + 1 /\ u[a] = etaglist[k][b] /\ b \in 1 .. Len(etaglist[k])
      BY <2>3, <1>5, <1>6
    <3>2. a # 1
      BY <3>1, <2>3, <1>6, <1>8
    <3> QED
      BY <2>1, <2>3, <3>1, <3>2, <1>18
  <2>4. CASE j # i /\ k = i
    <3>1. b \in 1 .. m + 1 /\ u[b] = etaglist[j][a] /\ a \in 1 .. Len(etaglist[j])
      BY <2>4, <1>5, <1>6
    <3>2. b # 1
      BY <3>1, <2>4, <1>6, <1>8
    <3> QED
      BY <2>1, <2>4, <3>1, <3>2, <1>18
  <2>5. CASE j # i /\ k # i
    BY <2>1, <2>5, <1>5
  <2> QED
    BY <2>2, <2>3, <2>4, <2>5
<1>20. ListToMap'
  <2> SUFFICES ASSUME NEW j \in Etags!Shards, NEW a \in 1 .. Len(etaglist'[j])
               PROVE  /\ value'[etaglist'[j][a]] \in Etags!Tags
                      /\ etagmap'[j][value'[etaglist'[j][a]]] = etaglist'[j][a]
    BY DEF ListToMap
  <2>1. CASE j # i
    <3>1. etaglist'[j] = etaglist[j] /\ etagmap'[j] = etagmap[j]
      BY <2>1, <1>5, <1>10
    <3>2. /\ value[etaglist[j][a]] \in Etags!Tags
          /\ etagmap[j][value[etaglist[j][a]]] = etaglist[j][a]
      BY <3>1 DEF CacheInv, ListToMap
    <3> QED
      BY <2>1, <3>1, <3>2, <1>16
  <2>2. CASE j = i /\ a = 1
    BY <2>2, <1>6, <1>9, <1>10
  <2>3. CASE j = i /\ a # 1
    <3>1. a - 1 \in 1 .. m /\ a - 1 \in 1 .. Len(s) /\ u[a] = s[a - 1]
      BY <2>3, <1>6, <1>18
    <3>2. /\ value'[u[a]] = value[s[a - 1]] /\ value[s[a - 1]] \in Etags!Tags
          /\ value[s[a - 1]] # g /\ value[s[a - 1]] \notin old
      BY <3>1, <1>11, <1>12, <1>17
    <3>3. etagmap'[i][value[s[a - 1]]] = etagmap[i][value[s[a - 1]]]
      BY <3>2, <1>10
    <3> QED
      BY <2>3, <3>1, <3>2, <3>3, <1>11
  <2> QED
    BY <2>1, <2>2, <2>3
<1>21. MapToList'
  <2> SUFFICES ASSUME NEW j \in Etags!Shards, NEW y \in Etags!Tags, etagmap'[j][y] # NoNode
               PROVE  /\ \E a \in 1 .. Len(etaglist'[j]) : etaglist'[j][a] = etagmap'[j][y]
                      /\ value'[etagmap'[j][y]] = y
    BY DEF MapToList, Etags!Found
  <2>1. Etags!Found(j, y) => /\ \E b \in 1 .. Len(etaglist[j]) : etaglist[j][b] = etagmap[j][y]
                       /\ value[etagmap[j][y]] = y
    BY DEF CacheInv, MapToList
  <2>2. CASE j # i
    <3>1. etaglist'[j] = etaglist[j] /\ etagmap'[j] = etagmap[j] /\ Etags!Found(j, y)
      BY <2>2, <1>5, <1>10 DEF Etags!Found
    <3> QED
      BY <2>1, <2>2, <3>1, <1>16
  <2>3. CASE j = i /\ y = g
    BY <2>3, <1>2, <1>6, <1>9, <1>10
  <2>4. CASE j = i /\ y # g
    <3>1. y \notin old /\ etagmap'[i][y] = etagmap[i][y] /\ Etags!Found(i, y)
      BY <2>4, <1>10 DEF Etags!Found
    <3>2. PICK b \in 1 .. Len(s) : s[b] = etagmap[i][y]
      BY <2>1, <2>4, <3>1
    <3>3. value[s[b]] = y /\ b \in 1 .. m
      BY <2>1, <2>4, <3>1, <3>2, <1>13
    <3>4. b + 1 \in 1 .. Len(u) /\ u[b + 1] = s[b] /\ value'[s[b]] = y
      <4>1. value'[s[b]] = y
        BY <3>3, <1>17
      <4>2. b + 1 \in 1 .. m + 1
        BY <3>3, <1>2
      <4> QED
        BY <3>3, <4>1, <4>2, <1>6
    <3> QED
      BY <2>4, <3>1, <3>2, <3>4
  <2> QED
    BY <2>2, <2>3, <2>4
<1>22. \A j \in Etags!Shards \ {i} : TagsIn(etaglist[j])' = TagsIn(etaglist[j])
  <2> SUFFICES ASSUME NEW j \in Etags!Shards \ {i}
               PROVE  TagsIn(etaglist[j])' = TagsIn(etaglist[j])
    OBVIOUS
  <2>1. etaglist'[j] = etaglist[j] /\ DOMAIN etaglist[j] = 1 .. Len(etaglist[j])
    BY <1>5 DEF CacheInv, CacheTyped
  <2> QED
    BY <2>1, <1>16 DEF TagsIn
<1>23. TagsIn(s)' = Etags!Lru!Used(TagsIn(s), g)
  <2> DEFINE r == TagsIn(s)
             v == TagsIn(s)'
             w == Etags!Lru!Used(r, g)
  <2>1. /\ r \in Seq(Nat) /\ Len(r) = Len(s)
        /\ \A a \in 1 .. Len(s) : r[a] = value[s[a]]
    BY <1>1, TagsInResult DEF CacheInv
  <2>2. /\ v \in Seq(Nat) /\ Len(v) = m + 1
        /\ \A a \in 1 .. m + 1 : v[a] = value'[u[a]]
    BY <1>6, <1>9 DEF TagsIn
  <2>3. \A a \in 1 .. Len(r) : r[a] # g
    BY <2>1, <1>11
  <2> HIDE DEF r, v
  <2>4. /\ w \in Seq(Nat)
        /\ Len(w) = IF Len(r) = capacity THEN Len(r) ELSE Len(r) + 1
        /\ \A a \in 1 .. Len(w) : w[a] = IF a = 1 THEN g ELSE r[a - 1]
    BY <2>1, <2>3, <1>1, <1>2, UsedNew
  <2> HIDE DEF w
  <2>5. Len(w) = m + 1
    BY <2>1, <2>4, <1>1 DEF m, Etags!Full
  <2>6. ASSUME NEW a \in 1 .. m + 1 PROVE v[a] = w[a]
    <3>1. v[a] = value'[u[a]] /\ w[a] = IF a = 1 THEN g ELSE r[a - 1]
      BY <2>2, <2>4, <2>5
    <3>2. CASE a = 1
      BY <3>1, <3>2, <1>6, <1>9
    <3>3. CASE a # 1
      <4>1. a - 1 \in 1 .. m /\ a - 1 \in 1 .. Len(s) /\ u[a] = s[a - 1]
        BY <3>3, <1>18
      <4>2. value'[s[a - 1]] = value[s[a - 1]] /\ r[a - 1] = value[s[a - 1]]
        BY <4>1, <1>17, <2>1
      <4> QED
        BY <3>1, <3>3, <4>1, <4>2
    <3> QED
      BY <3>2, <3>3
  <2>7. Len(v) = Len(w) /\ \A a \in 1 .. Len(v) : v[a] = w[a]
    BY <2>2, <2>5, <2>6
  <2>8. v = w
    BY <2>2, <2>4, <2>7, SeqEqual
  <2> QED
    BY <2>8 DEF r, v, w
<1> QED
  BY <1>5, <1>14, <1>15, <1>19, <1>20, <1>21, <1>22, <1>23 DEF CacheInv
-----------------------------------------------------------------------------
(* The steps of xEtagManager.                                              *)

\* What LruCache sees of the shards.
Recent == [i \in Etags!Shards |-> TagsIn(etaglist[i])]

\* The caches start empty, and no thread is inside GetKey.
LEMMA InitEtagInv ==
  ASSUME Etags!CacheAssumption, Etags!Init
  PROVE  EtagInv
<1>1. CacheTyped /\ ThreadsTyped
  BY DEF Etags!Init, CacheTyped, ThreadsTyped
<1>2. \A i \in Etags!Shards : etaglist[i] = <<>> /\ Len(etaglist[i]) = 0
  BY DEF Etags!Init
<1>3. Bounded /\ NodesOnce /\ ListToMap
  BY <1>2 DEF Bounded, NodesOnce, ListToMap, Etags!CacheAssumption
<1>4. MapToList
  BY DEF Etags!Init, MapToList, Etags!Found
<1> QED
  BY <1>1, <1>3, <1>4 DEF EtagInv, CacheInv

\* A change of one shard that uses a tag in it is a use of that tag.
LEMMA UsedRecent ==
  ASSUME CacheInv, NEW g \in Etags!Tags, Etags!Shard(g) \in Etags!Shards,
         \A j \in Etags!Shards \ {Etags!Shard(g)} : TagsIn(etaglist[j])' = TagsIn(etaglist[j]),
         TagsIn(etaglist[Etags!Shard(g)])' = Etags!Lru!Used(TagsIn(etaglist[Etags!Shard(g)]), g)
  PROVE  Recent' = [Recent EXCEPT ![Etags!Shard(g)] = Etags!Lru!Used(@, g)]
BY DEF Recent

\* splice, for all the shards.
LEMMA MoveToFrontUses ==
  ASSUME Etags!CacheAssumption, CacheInv, NEW g \in Etags!Tags,
         Etags!Found(Etags!Shard(g), g), Etags!MoveToFront(Etags!Shard(g), g)
  PROVE  CacheInv' /\ Recent' = [Recent EXCEPT ![Etags!Shard(g)] = Etags!Lru!Used(@, g)]
<1>1. Etags!Shard(g) \in Etags!Shards
  BY ShardOf
<1>2. /\ CacheInv'
      /\ \A j \in Etags!Shards \ {Etags!Shard(g)} : etaglist'[j] = etaglist[j]
      /\ TagsIn(etaglist[Etags!Shard(g)])' = Etags!Lru!Used(TagsIn(etaglist[Etags!Shard(g)]), g)
  BY <1>1, MoveToFrontResult
<1>3. value' = value
  BY DEF Etags!MoveToFront
<1>4. \A j \in Etags!Shards \ {Etags!Shard(g)} : TagsIn(etaglist[j])' = TagsIn(etaglist[j])
  BY <1>2, <1>3 DEF TagsIn
<1> QED
  BY <1>1, <1>2, <1>4, UsedRecent

\* Set is the use of its tag, known or new.
LEMMA SetUses ==
  ASSUME Etags!CacheAssumption, CacheInv, NEW g \in Etags!Tags, Etags!Set(Etags!Shard(g), g)
  PROVE  CacheInv' /\ Recent' = [Recent EXCEPT ![Etags!Shard(g)] = Etags!Lru!Used(@, g)]
<1>1. Etags!Shard(g) \in Etags!Shards
  BY ShardOf
<1>2. CASE Etags!Found(Etags!Shard(g), g) /\ Etags!MoveToFront(Etags!Shard(g), g)
  BY <1>2, MoveToFrontUses
<1>3. CASE ~Etags!Found(Etags!Shard(g), g) /\ \E n \in Nodes \ Etags!InUse(Etags!Shard(g)) : Etags!Insert(Etags!Shard(g), g, n)
  <2>1. PICK n \in Nodes \ Etags!InUse(Etags!Shard(g)) : Etags!Insert(Etags!Shard(g), g, n)
    BY <1>3
  <2>2. /\ CacheInv'
        /\ \A j \in Etags!Shards \ {Etags!Shard(g)} : TagsIn(etaglist[j])' = TagsIn(etaglist[j])
        /\ TagsIn(etaglist[Etags!Shard(g)])' = Etags!Lru!Used(TagsIn(etaglist[Etags!Shard(g)]), g)
    BY <1>1, <1>3, <2>1, InsertResult
  <2> QED
    BY <1>1, <2>2, UsedRecent
<1> QED
  BY <1>2, <1>3 DEF Etags!Set

\* Steps that leave the shards alone.
LEMMA CacheUnchanged ==
  ASSUME CacheInv, UNCHANGED Etags!cache
  PROVE  CacheInv' /\ Recent' = Recent
<1>1. value' = value /\ etaglist' = etaglist /\ etagmap' = etagmap
  BY DEF Etags!cache
<1>2. CacheTyped' /\ Bounded' /\ NodesOnce'
  BY <1>1 DEF CacheInv, CacheTyped, Bounded, NodesOnce
<1>3. ListToMap' /\ MapToList'
  BY <1>1 DEF CacheInv, ListToMap, MapToList, Etags!Found
<1>4. Recent' = Recent
  BY <1>1 DEF Recent, TagsIn
<1> QED
  BY <1>2, <1>3, <1>4 DEF CacheInv

(***************************************************************************)
(* Every step keeps the lists and the maps together and is, to an LRU      *)
(* cache, the use of one tag or nothing.                                   *)
(***************************************************************************)
LEMMA NextResult ==
  ASSUME Etags!CacheAssumption, EtagInv, [Etags!Next]_(Etags!vars)
  PROVE  /\ EtagInv'
         /\ \/ \E g \in Etags!Tags : /\ Recent' = [Recent EXCEPT ![Etags!Shard(g)] = Etags!Lru!Used(@, g)]
                               /\ last' = g
            \/ Recent' = Recent /\ last' = last
<1> USE DEF EtagInv
<1>1. CASE UNCHANGED Etags!vars
  <2>1. UNCHANGED Etags!cache /\ UNCHANGED <<pc, tag>> /\ last' = last
    BY <1>1 DEF Etags!vars, Etags!threads
  <2>2. ThreadsTyped'
    BY <2>1 DEF ThreadsTyped
  <2> QED
    BY <2>1, <2>2, CacheUnchanged
<1>2. ASSUME NEW t \in Threads, NEW h \in Hashes, NEW ts \in Timestamps, Etags!SetKey(t, h, ts)
      PROVE  /\ EtagInv'
             /\ \E g \in Etags!Tags : /\ Recent' = [Recent EXCEPT ![Etags!Shard(g)] = Etags!Lru!Used(@, g)]
                                /\ last' = g
  <2>1. Etags!HashKey(h, ts) \in Etags!Tags
    BY DEF Etags!Tags
  <2>2. Etags!Set(Etags!Shard(Etags!HashKey(h, ts)), Etags!HashKey(h, ts)) /\ last' = Etags!HashKey(h, ts)
    BY <1>2 DEF Etags!SetKey
  <2>3. ThreadsTyped'
    BY <1>2 DEF Etags!SetKey, Etags!threads, ThreadsTyped
  <2> QED
    BY <2>1, <2>2, <2>3, SetUses
<1>3. ASSUME NEW t \in Threads, NEW h \in Hashes, NEW ts \in Timestamps, Etags!GetKey(t, h, ts)
      PROVE  EtagInv' /\ Recent' = Recent /\ last' = last
  <2>1. Etags!HashKey(h, ts) \in Etags!Tags /\ Etags!HashKey(h, ts) \in Nat
    BY ShardOf DEF Etags!Tags
  <2>2. UNCHANGED Etags!cache /\ last' = last
    BY <1>3 DEF Etags!GetKey
  <2>3. ThreadsTyped'
    BY <1>3, <2>1 DEF Etags!GetKey, ThreadsTyped
  <2> QED
    BY <2>2, <2>3, CacheUnchanged
<1>4. ASSUME NEW t \in Threads, Etags!CountTotal(t)
      PROVE  EtagInv' /\ Recent' = Recent /\ last' = last
  <2>1. UNCHANGED Etags!cache /\ last' = last
    BY <1>4 DEF Etags!CountTotal
  <2>2. ThreadsTyped'
    BY <1>4 DEF Etags!CountTotal, ThreadsTyped
  <2> QED
    BY <2>1, <2>2, CacheUnchanged
<1>5. ASSUME NEW t \in Threads, Etags!LookUp(t)
      PROVE  /\ EtagInv'
             /\ \/ \E g \in Etags!Tags : /\ Recent' = [Recent EXCEPT ![Etags!Shard(g)] = Etags!Lru!Used(@, g)]
                                   /\ last' = g
                \/ Recent' = Recent /\ last' = last
  <2>1. tag[t] \in Etags!Tags
    BY <1>5 DEF Etags!LookUp, ThreadsTyped
  <2>2. ThreadsTyped'
    BY <1>5 DEF Etags!LookUp, ThreadsTyped
  <2>3. CASE Etags!Found(Etags!Shard(tag[t]), tag[t])
    <3>1. Etags!MoveToFront(Etags!Shard(tag[t]), tag[t]) /\ last' = tag[t]
      BY <1>5, <2>3 DEF Etags!LookUp, Etags!Get
    <3> QED
      BY <2>1, <2>2, <2>3, <3>1, MoveToFrontUses
  <2>4. CASE ~Etags!Found(Etags!Shard(tag[t]), tag[t])
    <3>1. UNCHANGED Etags!cache /\ last' = last
      BY <1>5, <2>4 DEF Etags!LookUp, Etags!Get
    <3> QED
      BY <2>2, <3>1, CacheUnchanged
  <2> QED
    BY <2>3, <2>4
<1>6. ASSUME NEW t \in Threads, Etags!CountHit(t)
      PROVE  EtagInv' /\ Recent' = Recent /\ last' = last
  <2>1. UNCHANGED Etags!cache /\ last' = last
    BY <1>6 DEF Etags!CountHit
  <2>2. ThreadsTyped'
    BY <1>6 DEF Etags!CountHit, ThreadsTyped
  <2> QED
    BY <2>1, <2>2, CacheUnchanged
<1> QED
  <2> HIDE DEF EtagInv
  <2> QED
    BY <1>1, <1>2, <1>3, <1>4, <1>5, <1>6 DEF Etags!Next

\* The inductive invariant gives the property the run checks.
LEMMA EtagInvIteratorsValid ==
  ASSUME EtagInv
  PROVE  Etags!IteratorsValid
<1>1. \A i \in Etags!Shards : DOMAIN etaglist[i] = 1 .. Len(etaglist[i])
  BY DEF EtagInv, CacheInv, CacheTyped
<1> QED
  BY <1>1 DEF EtagInv, CacheInv, ListToMap, MapToList, Etags!IteratorsValid, Etags!Range
-----------------------------------------------------------------------------
(***************************************************************************)
(* EtagCache of xEtagManager.cpp, for any number of shards, of threads and *)
(* of tags: no iterator of a map dangles, and every node of a list is in   *)
(* the map, so that no splice follows a freed node.                        *)
(***************************************************************************)
THEOREM EtagIteratorsValid == Etags!CacheAssumption => (Etags!Spec => []IteratorsValid)
<1> SUFFICES ASSUME Etags!CacheAssumption PROVE Etags!Spec => []IteratorsValid
  OBVIOUS
<1>1. Etags!Init => EtagInv
  BY InitEtagInv
<1>2. EtagInv /\ [Etags!Next]_(Etags!vars) => EtagInv'
  BY NextResult
<1>3. EtagInv => IteratorsValid
  BY EtagInvIteratorsValid DEF IteratorsValid
<1> QED
  BY <1>1, <1>2, <1>3, PTL DEF Etags!Spec

(***************************************************************************)
(* Set and Get of xEtagManager.cpp implement one LRU cache per shard: a    *)
(* tag leaves only when `capacity` others were used after it, whatever the *)
(* threads do, and whichever addresses the nodes get.                      *)
(***************************************************************************)
THEOREM EtagImplementsLru == Etags!CacheAssumption => (Etags!Spec => ImplementsLru)
<1> SUFFICES ASSUME Etags!CacheAssumption PROVE Etags!Spec => ImplementsLru
  OBVIOUS
<1>1. Etags!Init => EtagInv
  BY InitEtagInv
<1>2. EtagInv /\ [Etags!Next]_(Etags!vars) => EtagInv'
  BY NextResult
<1>3. Etags!Init => Etags!Lru!LruInit
  BY DEF Etags!Init, Etags!Lru!LruInit
<1>4. EtagInv /\ [Etags!Next]_(Etags!vars) => [Etags!Lru!LruNext]_<<Recent, last>>
  <2> SUFFICES ASSUME EtagInv, [Etags!Next]_(Etags!vars) PROVE [Etags!Lru!LruNext]_<<Recent, last>>
    OBVIOUS
  <2>1. \/ \E g \in Etags!Tags : /\ Recent' = [Recent EXCEPT ![Etags!Shard(g)] = Etags!Lru!Used(@, g)]
                           /\ last' = g
        \/ Recent' = Recent /\ last' = last
    BY NextResult
  <2> QED
    BY <2>1 DEF Etags!Lru!LruNext, Etags!Lru!Use, Recent, TagsIn
<1>5. [Etags!Lru!LruNext]_<<Recent, last>> =>
        [Etags!Lru!LruNext]_<<[i \in Etags!Shards |-> [j \in DOMAIN etaglist[i] |-> value[etaglist[i][j]]]], last>>
  BY DEF Recent, TagsIn
<1> QED
  BY <1>1, <1>2, <1>3, <1>4, <1>5, PTL
     DEF Etags!Spec, ImplementsLru, Etags!ImplementsLru, Etags!Lru!LruSpec
=============================================================================
