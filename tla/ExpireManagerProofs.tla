------------------------ MODULE ExpireManagerProofs ------------------------
(***************************************************************************)
(* Proofs about ExpireManager, for any keys, time-outs, batch size and     *)
(* clock: the handlers, run one after the other, keep the index, the cache *)
(* and the wake-up time right.                                             *)
(***************************************************************************)
EXTENDS ExpireManager, FiniteSetTheorems, TLAPS

ScoreMap == [Keys -> Int \cup {NoScore}]

\* Every row of R is in the cache m, or not before anything in it.
Prefix(m, R) ==
    \A r \in R : m[r[2]] = r[1] \/ \A j \in Held(m) : m[j] <= r[1]

IInv == TypeOK /\ IndexAgree /\ CachePrefix /\ Wakeup
-----------------------------------------------------------------------------
(***************************************************************************)
(* What add leaves of a map.                                               *)
(***************************************************************************)
LEMMA AddResult ==
  ASSUME NEW m \in ScoreMap, NEW k \in Keys, NEW s \in Int
  PROVE  /\ add(m, k, s) \in ScoreMap
         /\ add(m, k, s)[k] = s
         /\ \A j \in Keys \ {k} : add(m, k, s)[j] = m[j]
BY DEF add, ScoreMap

(***************************************************************************)
(* What del leaves of a map.                                               *)
(***************************************************************************)
LEMMA DelResult ==
  ASSUME NEW m \in ScoreMap, NEW k \in Keys
  PROVE  /\ del(m, k) \in ScoreMap
         /\ del(m, k)[k] = NoScore
         /\ \A j \in Keys \ {k} : del(m, k)[j] = m[j]
BY DEF del, ScoreMap

(***************************************************************************)
(* Dropping the last key of a cache keeps it a prefix: that key is not     *)
(* before any that stays.                                                  *)
(***************************************************************************)
LEMMA PopBackPrefix ==
  ASSUME NEW m \in ScoreMap, NEW R \in SUBSET (Int \X Keys), Prefix(m, R),
         NEW n \in pop_back(m)
  PROVE  n \in ScoreMap /\ Prefix(n, R)
<1>1. CASE n = m
  BY <1>1
<1>2. ASSUME NEW p \in Keys, IsBack(m, p), n = del(m, p)
      PROVE  n \in ScoreMap /\ Prefix(n, R)
  <2>1. n \in ScoreMap /\ n[p] = NoScore /\ \A j \in Keys \ {p} : n[j] = m[j]
    BY <1>2, DelResult
  <2>2. Held(n) \subseteq Held(m) \ {p}
    BY <2>1 DEF Held
  <2>3. m[p] \in Int /\ \A j \in Held(n) : n[j] = m[j] /\ m[j] \in Int /\ m[j] <= m[p]
    BY <1>2, <2>1, <2>2 DEF IsBack, Before, Held, ScoreMap
  <2>4. ASSUME NEW r \in R PROVE n[r[2]] = r[1] \/ \A j \in Held(n) : n[j] <= r[1]
    <3>1. r[1] \in Int /\ r[2] \in Keys
      OBVIOUS
    <3>2. CASE m[r[2]] = r[1] /\ r[2] = p
      BY <3>2, <2>3
    <3>3. CASE m[r[2]] = r[1] /\ r[2] # p
      BY <3>1, <3>3, <2>1
    <3>4. CASE \A j \in Held(m) : m[j] <= r[1]
      BY <3>4, <2>2, <2>3
    <3> QED
      BY <3>2, <3>3, <3>4 DEF Prefix
  <2> QED
    BY <2>1, <2>4 DEF Prefix
<1> QED
  BY <1>1, <1>2 DEF pop_back

(***************************************************************************)
(* SetTTL keeps the cache a prefix of the rows in which e is k's only      *)
(* deadline: it adds k when e is not after the last cached deadline and    *)
(* forgets it when e is.                                                   *)
(***************************************************************************)
LEMMA SetTTLPrefix ==
  ASSUME NEW m \in ScoreMap, NEW k \in Keys, NEW e \in Int,
         NEW R \in SUBSET (Int \X Keys), NEW Q \in SUBSET (Int \X Keys),
         Prefix(m, R),
         Q \subseteq R \cup {<<e, k>>},
         \A r \in Q : r[2] = k => r[1] = e,
         NEW n \in SetTTL(m, k, e)
  PROVE  n \in ScoreMap /\ Prefix(n, Q)
<1>0. \A r \in Q : r[1] \in Int /\ r[2] \in Keys /\ (r[2] # k => r \in R)
  OBVIOUS
<1>1. CASE AtMostMax(m, e)
  <2> DEFINE a == add(m, k, e)
  <2>1. a \in ScoreMap /\ a[k] = e /\ \A j \in Keys \ {k} : a[j] = m[j]
    BY AddResult
  <2> HIDE DEF a
  <2>2. PICK x \in Held(m) : e <= m[x]
    BY <1>1 DEF AtMostMax
  <2>3. m[x] \in Int /\ x \in Keys
    BY DEF Held, ScoreMap
  <2>4. ASSUME NEW r \in Q PROVE a[r[2]] = r[1] \/ \A j \in Held(a) : a[j] <= r[1]
    <3>1. CASE r[2] = k
      BY <3>1, <2>1
    <3>2. CASE r[2] # k /\ m[r[2]] = r[1]
      BY <3>2, <2>1, <1>0
    <3>3. CASE r[2] # k /\ \A j \in Held(m) : m[j] <= r[1]
      <4>1. e <= r[1]
        BY <3>3, <2>2, <2>3, <1>0
      <4>2. \A j \in Held(a) : a[j] <= r[1]
        BY <4>1, <3>3, <2>1 DEF Held
      <4> QED
        BY <4>2
    <3> QED
      BY <1>0, <3>1, <3>2, <3>3 DEF Prefix
  <2>5. Prefix(a, Q)
    BY <2>4 DEF Prefix
  <2>6. n = a \/ n \in pop_back(a)
    BY <1>1 DEF SetTTL, a
  <2> QED
    BY <2>1, <2>5, <2>6, PopBackPrefix
<1>2. CASE ~AtMostMax(m, e)
  <2>1. n \in ScoreMap /\ n[k] = NoScore /\ \A j \in Keys \ {k} : n[j] = m[j]
    BY <1>2, DelResult DEF SetTTL
  <2>2. \A j \in Held(n) : j \in Held(m) /\ n[j] = m[j] /\ m[j] \in Int /\ m[j] < e
    BY <1>2, <2>1 DEF AtMostMax, Held, ScoreMap
  <2>3. ASSUME NEW r \in Q PROVE n[r[2]] = r[1] \/ \A j \in Held(n) : n[j] <= r[1]
    <3>1. CASE r[2] = k
      BY <3>1, <2>2
    <3>2. CASE r[2] # k
      BY <3>2, <2>1, <2>2, <1>0 DEF Prefix
    <3> QED
      BY <3>1, <3>2
  <2> QED
    BY <2>1, <2>3 DEF Prefix
<1> QED
  BY <1>1, <1>2
-----------------------------------------------------------------------------
(***************************************************************************)
(* The cache a pass works on is a prefix of the stored rows, and when it   *)
(* is empty there is no row to load.                                       *)
(***************************************************************************)
LEMMA CachedPrefix ==
  ASSUME IInv, NEW m \in Cached
  PROVE  /\ m \in ScoreMap
         /\ Prefix(m, Loadable)
         /\ empty(m) => Loadable = {}
<1>1. CASE ~empty(sort_set)
  BY <1>1 DEF Cached, IInv, TypeOK, CachePrefix, Prefix, ScoreMap
<1>2. CASE empty(sort_set)
  <2>1. PICK B \in SUBSET Loadable : IsBatch(B) /\ m = Filled(B)
    BY <1>2 DEF Cached
  <2>2. \A r \in Loadable : /\ r[1] \in Int /\ r[2] \in Keys /\ r = <<r[1], r[2]>>
                            /\ zset[r[2]] = r[1]
    BY DEF Loadable, IInv, TypeOK, IndexAgree, Held
  <2>3. ASSUME NEW k \in Keys
        PROVE  /\ \A r \in B : r[2] = k => m[k] = r[1]
               /\ (\A r \in B : r[2] # k) => m[k] = NoScore
    <3> DEFINE scores == {s \in {r[1] : r \in B} : <<s, k>> \in B}
    <3>1. m[k] = IF scores = {} THEN NoScore
                 ELSE CHOOSE s \in scores : \A q \in scores : q <= s
      BY <2>1 DEF Filled
    <3>2. \A r \in B : r[2] = k => scores = {r[1]} /\ r[1] \in Int
      BY <2>2
    <3>3. \A s \in Int : (CHOOSE x \in {s} : \A q \in {s} : q <= x) = s
      OBVIOUS
    <3>4. (\A r \in B : r[2] # k) => scores = {}
      BY <2>2
    <3> HIDE DEF scores
    <3> QED
      BY <3>1, <3>2, <3>3, <3>4
  <2>4. m \in ScoreMap
    <3>1. \A k \in Keys : m[k] \in Int \cup {NoScore}
      BY <2>2, <2>3
    <3>2. m = [k \in Keys |-> m[k]]
      BY <2>1 DEF Filled
    <3> QED
      BY <3>1, <3>2 DEF ScoreMap
  <2>5. \A j \in Held(m) : \E r \in B : r[2] = j /\ r[1] = m[j]
    BY <2>3 DEF Held
  <2>6. Prefix(m, Loadable)
    <3> SUFFICES ASSUME NEW r \in Loadable
                 PROVE  m[r[2]] = r[1] \/ \A j \in Held(m) : m[j] <= r[1]
      BY DEF Prefix
    <3>1. CASE r \in B
      BY <3>1, <2>2, <2>3
    <3>2. CASE r \notin B
      <4>1. \A q \in B : RowLess(q, r)
        BY <3>2, <2>1 DEF IsBatch
      <4>2. \A q \in B : q[1] <= r[1]
        BY <4>1, <2>2 DEF RowLess
      <4> QED
        BY <4>2, <2>5
    <3> QED
      BY <3>1, <3>2
  <2>7. ASSUME empty(m) PROVE Loadable = {}
    <3>1. B = {}
      BY <2>7, <2>2, <2>3, NoScoreAssumption DEF empty, Held
    <3>2. Cardinality(B) = 0
      BY <3>1, FS_EmptySet
    <3> QED
      BY <3>1, <3>2, <2>1, BatchSizeAssumption DEF IsBatch
  <2> QED
    BY <2>4, <2>6, <2>7
<1> QED
  BY <1>1, <1>2
-----------------------------------------------------------------------------
(***************************************************************************)
(* Zset keeps the two kinds of rows in step, with one row for the key.     *)
(***************************************************************************)
LEMMA ZsetAgrees ==
  ASSUME TypeOK, IndexAgree, NEW k \in Keys, NEW e \in Int, Zset(k, e)
  PROVE  /\ zset' \in ScoreMap
         /\ zscore' \in SUBSET (Int \X Keys)
         /\ IndexAgree'
         /\ Loadable' \subseteq Loadable \cup {<<e, k>>}
         /\ \A r \in Loadable' : r[2] = k => r[1] = e
<1>1. zset' \in ScoreMap /\ zset'[k] = e /\ \A j \in Keys \ {k} : zset'[j] = zset[j]
  BY DEF Zset, TypeOK, ScoreMap
<1>2. zscore' = (zscore \ {<<zset[k], k>>}) \cup {<<e, k>>}
  BY DEF Zset
<1>3. Held(zset') = Held(zset) \cup {k}
  BY <1>1, NoScoreAssumption DEF Held
<1>4. \A j \in Held(zset) : j = k \/ (<<zset'[j], j>> \in zscore /\ j # k)
  BY <1>1 DEF IndexAgree, Held
<1>5. \A r \in zscore' : r[2] \in Held(zset') /\ r = <<zset'[r[2]], r[2]>>
  BY <1>1, <1>2, <1>3 DEF IndexAgree, Held, TypeOK
<1>6. \A j \in Held(zset') : <<zset'[j], j>> \in zscore'
  BY <1>1, <1>2, <1>3, <1>4
<1>7. zscore' = {<<zset'[j], j>> : j \in Held(zset')}
  BY <1>5, <1>6
<1>8. zscore' \in SUBSET (Int \X Keys)
  BY <1>2 DEF TypeOK
<1> QED
  BY <1>1, <1>2, <1>5, <1>7, <1>8 DEF IndexAgree, Loadable

(***************************************************************************)
(* Zdel leaves no row of the key.                                          *)
(***************************************************************************)
LEMMA ZdelAgrees ==
  ASSUME TypeOK, IndexAgree, NEW k \in Keys, Zdel(k)
  PROVE  /\ zset' \in ScoreMap
         /\ zscore' \in SUBSET (Int \X Keys)
         /\ IndexAgree'
         /\ Loadable' \subseteq Loadable
         /\ \A r \in Loadable' : r[2] # k
<1>1. zset' \in ScoreMap /\ zset'[k] = NoScore /\ \A j \in Keys \ {k} : zset'[j] = zset[j]
  BY DEF Zdel, TypeOK, ScoreMap
<1>2. Held(zset') = Held(zset) \ {k}
  BY <1>1 DEF Held
<1>3. zscore' = zscore \ {<<zset[k], k>>}
  BY DEF Zdel, IndexAgree, Held
<1>4. \A r \in zscore' : r[2] \in Held(zset') /\ r = <<zset'[r[2]], r[2]>>
  BY <1>1, <1>2, <1>3 DEF IndexAgree, Held
<1>5. \A j \in Held(zset') : <<zset'[j], j>> \in zscore'
  BY <1>1, <1>2, <1>3 DEF IndexAgree, Held
<1>6. zscore' = {<<zset'[j], j>> : j \in Held(zset')}
  BY <1>4, <1>5
<1>7. zscore' \in SUBSET (Int \X Keys)
  BY <1>3 DEF TypeOK
<1> QED
  BY <1>1, <1>2, <1>3, <1>4, <1>6, <1>7 DEF IndexAgree, Loadable

(***************************************************************************)
(* A first deadline at or before every stored one is a right wake-up time. *)
(***************************************************************************)
LEMMA FrontEarliest ==
  ASSUME NEW m \in ScoreMap, NEW R \in SUBSET (Int \X Keys), Prefix(m, R),
         NEW k \in Keys, IsFront(m, k)
  PROVE  m[k] \in Int /\ \A r \in R : m[k] <= r[1]
<1>1. \A j \in Held(m) : m[j] \in Int /\ m[k] <= m[j]
  BY DEF IsFront, Before, Held, ScoreMap
<1>2. k \in Held(m)
  BY DEF IsFront
<1>3. ASSUME NEW r \in R PROVE m[k] <= r[1]
  <2>1. r[1] \in Int /\ r[2] \in Keys
    OBVIOUS
  <2>2. CASE m[r[2]] = r[1]
    BY <2>1, <2>2, <1>1, NoScoreAssumption DEF Held
  <2>3. CASE \A j \in Held(m) : m[j] <= r[1]
    BY <2>3, <1>2
  <2> QED
    BY <2>2, <2>3 DEF Prefix
<1> QED
  BY <1>1, <1>2, <1>3
-----------------------------------------------------------------------------
(***************************************************************************)
(* The invariant holds at the start.                                       *)
(***************************************************************************)
LEMMA InitIInv == Init => IInv
BY DEF Init, IInv, TypeOK, IndexAgree, CachePrefix, Wakeup, Loadable, NoKeys, Held

(***************************************************************************)
(* A pass of ExpireLoop keeps the invariant, however it ends.              *)
(***************************************************************************)
LEMMA ExpireLoopIInv == IInv /\ ExpireLoop => IInv'
<1> SUFFICES ASSUME IInv, NEW m \in Cached,
                    \/ PassEmpty(m)
                    \/ \E k \in Keys : PassEarly(m, k) \/ PassDue(m, k)
             PROVE  IInv'
  BY DEF ExpireLoop
<1>1. m \in ScoreMap /\ Prefix(m, Loadable) /\ (empty(m) => Loadable = {})
  BY CachedPrefix
<1>2. Loadable \in SUBSET (Int \X Keys)
  BY DEF IInv, TypeOK, Loadable
<1>3. CASE PassEmpty(m)
  <2>1. Loadable' = {}
    BY <1>1, <1>3 DEF PassEmpty, Loadable
  <2>2. TypeOK'
    BY <1>1, <1>3, TimeAssumption DEF PassEmpty, IInv, TypeOK, ScoreMap
  <2>3. IndexAgree'
    BY <1>3 DEF PassEmpty, IInv, IndexAgree, Held
  <2> QED
    BY <2>1, <2>2, <2>3 DEF IInv, CachePrefix, Wakeup
<1>4. ASSUME NEW k \in Keys, PassEarly(m, k) PROVE IInv'
  <2>1. m[k] \in Int /\ \A r \in Loadable : m[k] <= r[1]
    BY <1>1, <1>2, <1>4, FrontEarliest DEF PassEarly
  <2>2. Loadable' = Loadable
    BY <1>4 DEF PassEarly, Loadable
  <2>3. TypeOK'
    BY <1>1, <1>4, <2>1 DEF PassEarly, IInv, TypeOK, ScoreMap
  <2>4. IndexAgree'
    BY <1>4 DEF PassEarly, IInv, IndexAgree, Held
  <2>5. CachePrefix'
    BY <1>1, <1>4, <2>2 DEF PassEarly, CachePrefix, Prefix, Held
  <2>6. Wakeup'
    BY <1>4, <2>1, <2>2 DEF PassEarly, Wakeup
  <2> QED
    BY <2>3, <2>4, <2>5, <2>6 DEF IInv
<1>5. ASSUME NEW k \in Keys, PassDue(m, k) PROVE IInv'
  <2>1. m[k] \in Int /\ \A r \in Loadable : m[k] <= r[1]
    BY <1>1, <1>2, <1>5, FrontEarliest DEF PassDue
  <2>2. /\ zset' \in ScoreMap /\ zscore' \in SUBSET (Int \X Keys)
        /\ IndexAgree' /\ Loadable' \subseteq Loadable
        /\ \A r \in Loadable' : r[2] # k
    BY <1>5, ZdelAgrees DEF PassDue, IInv
  <2>3. sort_set' = del(m, k)
    <3>1. k \in Held(m) /\ sort_set' \in pop_front(m)
      BY <1>5 DEF PassDue, IsFront
    <3>2. PICK p \in Keys : IsFront(m, p) /\ sort_set' = del(m, p)
      BY <3>1 DEF pop_front, empty
    <3>3. p = k
      BY <1>1, <1>5, <3>1, <3>2, KeysAssumption
      DEF PassDue, IsFront, Before, Held, ScoreMap
    <3> QED
      BY <3>2, <3>3
  <2>4. /\ sort_set' \in ScoreMap /\ sort_set'[k] = NoScore
        /\ \A j \in Keys \ {k} : sort_set'[j] = m[j]
    BY <1>1, <2>3, DelResult
  <2>5. TypeOK'
    BY <1>5, <2>1, <2>2, <2>4 DEF PassDue, IInv, TypeOK, ScoreMap
  <2>6. CachePrefix'
    <3> SUFFICES ASSUME NEW r \in Loadable'
                 PROVE  \/ sort_set'[r[2]] = r[1]
                        \/ \A j \in Held(sort_set') : sort_set'[j] <= r[1]
      BY DEF CachePrefix
    <3>1. r \in Loadable /\ r[2] \in Keys \ {k}
      BY <1>2, <2>2
    <3>2. \A j \in Held(sort_set') : j \in Held(m) /\ sort_set'[j] = m[j]
      BY <2>4 DEF Held
    <3> QED
      BY <1>1, <2>4, <3>1, <3>2 DEF Prefix
  <2>7. Wakeup'
    BY <1>5, <2>1, <2>2 DEF PassDue, Wakeup
  <2> QED
    BY <2>2, <2>5, <2>6, <2>7 DEF IInv
<1> QED
  BY <1>3, <1>4, <1>5

(***************************************************************************)
(* A deadline is an integer.                                               *)
(***************************************************************************)
LEMMA DeadlineInt == ASSUME IInv, NEW t \in TTLs PROVE Deadline(t) \in Int
BY TTLsAssumption, MsPerSecAssumption DEF Deadline, IInv, TypeOK

(***************************************************************************)
(* SetTTL's test of first_timeout keeps the wake-up time right when the    *)
(* rows it adds have the deadline e.                                       *)
(***************************************************************************)
LEMMA EarlierRight ==
  ASSUME IInv, NEW e \in Int, first_timeout' = Earlier(e),
         Loadable' \subseteq Loadable \cup {<<e, k>> : k \in Keys}
  PROVE  first_timeout' \in Int /\ Wakeup'
<1>1. first_timeout' \in Int /\ first_timeout' <= e /\ first_timeout' <= first_timeout
  BY DEF Earlier, IInv, TypeOK
<1>2. ASSUME NEW r \in Loadable' PROVE first_timeout' <= r[1]
  <2>1. CASE r \in Loadable
    BY <1>1, <2>1 DEF IInv, TypeOK, Wakeup, Loadable
  <2>2. CASE r \notin Loadable
    BY <1>1, <2>2
  <2> QED
    BY <2>1, <2>2
<1> QED
  BY <1>1, <1>2 DEF Wakeup

(***************************************************************************)
(* The commands that set a deadline keep the invariant.                    *)
(***************************************************************************)
LEMMA SetDeadlineIInv ==
  ASSUME IInv, NEW k \in Keys, NEW t \in TTLs,
         SetEx(k, t) \/ SetExSame(k, t) \/ Expire(k, t)
  PROVE  IInv'
<1> DEFINE e == Deadline(t)
<1>0. e \in Int
  BY DeadlineInt
<1> HIDE DEF e
<1>1. sort_set \in ScoreMap /\ Prefix(sort_set, Loadable) /\ Loadable \in SUBSET (Int \X Keys)
  BY DEF IInv, TypeOK, CachePrefix, Prefix, ScoreMap, Loadable
<1>2. /\ zset' \in ScoreMap /\ zscore' \in SUBSET (Int \X Keys)
      /\ IndexAgree'
      /\ Loadable' \subseteq Loadable \cup {<<e, k>>}
      /\ \A r \in Loadable' : r[2] = k => r[1] = e
  <2>1. CASE SetEx(k, t) \/ Expire(k, t)
    BY <1>0, <2>1, ZsetAgrees DEF SetEx, Expire, IInv, e
  <2>2. CASE SetExSame(k, t)
    <3>1. zset' = zset /\ zscore' = zscore /\ Loadable' = Loadable /\ zset[k] = e
      BY <2>2 DEF SetExSame, Loadable, e
    <3>2. \A r \in Loadable : r[2] = k => r[1] = e
      BY <3>1 DEF Loadable, IInv, IndexAgree, Held
    <3> QED
      BY <3>1, <3>2 DEF IInv, TypeOK, IndexAgree, ScoreMap, Held
  <2> QED
    BY <2>1, <2>2
<1>3. Loadable' \in SUBSET (Int \X Keys)
  BY <1>2 DEF Loadable
<1>4. sort_set' \in ScoreMap /\ Prefix(sort_set', Loadable')
  <2>1. CASE SetEx(k, t)
    <3>1. PICK m \in SetTTL(sort_set, k, e) : sort_set' \in SetTTL(m, k, e)
      BY <2>1 DEF SetEx, e
    <3>2. m \in ScoreMap /\ Prefix(m, Loadable')
      BY <1>0, <1>1, <1>2, <1>3, SetTTLPrefix
    <3> QED
      BY <1>0, <1>2, <1>3, <3>1, <3>2, SetTTLPrefix
  <2>2. CASE SetExSame(k, t) \/ Expire(k, t)
    <3>1. sort_set' \in SetTTL(sort_set, k, e)
      BY <2>2 DEF SetExSame, Expire, e
    <3> QED
      BY <1>0, <1>1, <1>2, <1>3, <3>1, SetTTLPrefix
  <2> QED
    BY <2>1, <2>2
<1>5. first_timeout' \in Int /\ Wakeup'
  <2>1. first_timeout' = Earlier(e)
    BY DEF SetEx, SetExSame, Expire, e
  <2> QED
    BY <1>0, <1>2, <2>1, EarlierRight
<1>6. TypeOK'
  BY <1>2, <1>4, <1>5
  DEF SetEx, SetExSame, Expire, Write, IInv, TypeOK, ScoreMap
<1>7. CachePrefix'
  BY <1>4 DEF CachePrefix, Prefix
<1> QED
  BY <1>2, <1>5, <1>6, <1>7 DEF IInv

(***************************************************************************)
(* The invariant is inductive, FLUSHALL and restarts included.             *)
(***************************************************************************)
LEMMA NextIInv == IInv /\ [Next]_vars => IInv'
<1> SUFFICES ASSUME IInv, [Next]_vars PROVE IInv'
  OBVIOUS
<1> USE DEF IInv, TypeOK, IndexAgree, CachePrefix, Wakeup, Loadable, Held
<1>1. CASE ExpireLoop
  BY <1>1, ExpireLoopIInv
<1>2. ASSUME NEW k \in Keys, NEW t \in TTLs,
             SetEx(k, t) \/ SetExSame(k, t) \/ Expire(k, t)
      PROVE  IInv'
  BY <1>2, SetDeadlineIInv
<1>3. ASSUME NEW k \in Keys, Set(k) \/ Del(k) PROVE IInv'
  BY <1>3 DEF Set, Del, Write
<1>4. ASSUME NEW start \in Keys, NEW end \in Keys, ScanDel(start, end) PROVE IInv'
  BY <1>4 DEF ScanDel
<1>5. CASE Tick
  BY <1>5 DEF Tick
<1>6. CASE Restart
  BY <1>6 DEF Restart, NoKeys
<1>7. CASE Flushall
  BY <1>7 DEF Flushall, NoKeys
<1>8. CASE UNCHANGED vars
  BY <1>8 DEF vars
<1> QED
  BY <1>1, <1>2, <1>3, <1>4, <1>5, <1>6, <1>7, <1>8 DEF Next, NextNoFlush

(***************************************************************************)
(* Hence it holds in every reachable state.                                *)
(***************************************************************************)
LEMMA SpecIInv == Spec => []IInv
BY InitIInv, NextIInv, PTL DEF Spec

(***************************************************************************)
(* The variables keep their types.                                         *)
(***************************************************************************)
THEOREM TypeCorrect == Spec => []TypeOK
<1>1. IInv => TypeOK
  BY DEF IInv
<1> QED
  BY <1>1, SpecIInv, PTL

(***************************************************************************)
(* The s rows and the z rows that Zset and Zdel write always agree.        *)
(***************************************************************************)
THEOREM IndexAgrees == Spec => []IndexAgree
<1>1. IInv => IndexAgree
  BY DEF IInv
<1> QED
  BY <1>1, SpecIInv, PTL

(***************************************************************************)
(* SetTTL and ExpireLoop keep in the cache the earliest of the stored      *)
(* deadlines.                                                              *)
(***************************************************************************)
THEOREM CacheIsPrefix == Spec => []CachePrefix
<1>1. IInv => CachePrefix
  BY DEF IInv
<1> QED
  BY <1>1, SpecIInv, PTL

(***************************************************************************)
(* The expire thread never sleeps past a stored deadline.  This rests on   *)
(* CachePrefix: ExpireLoop sets first_timeout from the cache alone.        *)
(***************************************************************************)
THEOREM NeverSleepsPast == Spec => []Wakeup
<1>1. IInv => Wakeup
  BY DEF IInv
<1> QED
  BY <1>1, SpecIInv, PTL
-----------------------------------------------------------------------------
(***************************************************************************)
(* The keys a map holds are finitely many.                                 *)
(***************************************************************************)
LEMMA HeldFinite ==
  ASSUME NEW m PROVE IsFiniteSet(Held(m)) /\ size(m) \in Nat
BY KeysAssumption, FS_Subset, FS_CardinalityType DEF Held, size

(***************************************************************************)
(* SetTTL trims what it adds.                                              *)
(***************************************************************************)
LEMMA SetTTLBounded ==
  ASSUME NEW m \in ScoreMap, NEW k \in Keys, NEW e \in Int, size(m) <= BatchSize,
         NEW n \in SetTTL(m, k, e)
  PROVE  n \in ScoreMap /\ size(n) <= BatchSize
<1> USE BatchSizeAssumption, HeldFinite
<1>1. CASE ~AtMostMax(m, e)
  <2>1. n = del(m, k)
    BY <1>1 DEF SetTTL
  <2>2. n \in ScoreMap /\ Held(n) \subseteq Held(m)
    BY <2>1, DelResult DEF Held
  <2> QED
    BY <2>2, FS_Subset DEF size
<1>2. CASE AtMostMax(m, e)
  <2> DEFINE a == add(m, k, e)
  <2>1. a \in ScoreMap /\ Held(a) = Held(m) \cup {k}
    BY AddResult, NoScoreAssumption DEF Held
  <2>2. size(a) <= size(m) + 1
    BY <2>1, FS_AddElement DEF size
  <2>3. IF size(a) > BatchSize THEN n \in pop_back(a) ELSE n = a
    BY <1>2 DEF SetTTL
  <2> HIDE DEF a
  <2>4. CASE size(a) > BatchSize
    <3>1. PICK p \in Keys : IsBack(a, p) /\ n = del(a, p)
      BY <2>1, <2>3, <2>4 DEF pop_back, empty
    <3>a. n \in ScoreMap /\ n[p] = NoScore /\ \A j \in Keys \ {p} : n[j] = a[j]
      BY <2>1, <3>1, DelResult
    <3>b. p \in Held(a)
      BY <3>1 DEF IsBack
    <3>c. Held(n) = Held(a) \ {p}
      BY <3>a DEF Held
    <3>2. p \in Held(a) /\ n \in ScoreMap /\ Held(n) = Held(a) \ {p}
      BY <3>a, <3>b, <3>c
    <3>3. size(n) = size(a) - 1
      <4>1. IsFiniteSet(Held(a))
        BY <2>1, HeldFinite
      <4>2. Cardinality(Held(a) \ {p}) = Cardinality(Held(a)) - 1
        BY <3>b, <4>1, FS_RemoveElement
      <4> QED
        BY <3>c, <4>2 DEF size
    <3> QED
      BY <2>2, <3>2, <3>3
  <2>5. CASE ~(size(a) > BatchSize)
    BY <2>1, <2>3, <2>5
  <2> QED
    BY <2>4, <2>5
<1> QED
  BY <1>1, <1>2

(***************************************************************************)
(* A reload brings in one key for each row it reads, at most.              *)
(***************************************************************************)
LEMMA CachedBounded ==
  ASSUME IInv, CacheBounded, NEW m \in Cached
  PROVE  size(m) <= BatchSize
<1>1. CASE ~empty(sort_set)
  BY <1>1 DEF Cached, CacheBounded
<1>2. CASE empty(sort_set)
  <2>1. PICK B \in SUBSET Loadable : IsBatch(B) /\ m = Filled(B)
    BY <1>2 DEF Cached
  <2>2. IsFiniteSet(zscore)
    <3> DEFINE F == [k \in Held(zset) |-> <<zset[k], k>>]
    <3>1. F \in Surjection(Held(zset), zscore)
      BY DEF Surjection, IInv, IndexAgree
    <3> QED
      BY <3>1, HeldFinite, FS_Surjection
  <2>3. IsFiniteSet(B)
    BY <2>2, FS_Subset DEF Loadable
  <2>4. \A r \in B : r[1] \in Int /\ r[2] \in Keys /\ zset[r[2]] = r[1] /\ r = <<r[1], r[2]>>
    BY DEF Loadable, IInv, TypeOK, IndexAgree, Held
  <2>5. \A k \in Held(m) : <<zset[k], k>> \in B
    BY <2>1, <2>4 DEF Filled, Held
  <2> DEFINE G == [k \in Held(m) |-> <<zset[k], k>>]
  <2>6. G \in Injection(Held(m), B)
    BY <2>5 DEF Injection, IsInjective
  <2>7. size(m) <= Cardinality(B)
    BY <2>3, <2>6, FS_Injection DEF size
  <2>8. Cardinality(B) \in Nat /\ Cardinality(B) <= BatchSize
    BY <2>1, <2>3, FS_CardinalityType, BatchSizeAssumption DEF IsBatch
  <2> QED
    BY <2>7, <2>8, HeldFinite, BatchSizeAssumption
<1> QED
  BY <1>1, <1>2

(***************************************************************************)
(* The cache never holds more than BATCH_SIZE deadlines.                   *)
(***************************************************************************)
THEOREM CacheIsBounded == Spec => []CacheBounded
<1> USE BatchSizeAssumption, HeldFinite
<1>1. Init => CacheBounded
  <2> SUFFICES ASSUME Init PROVE CacheBounded
    OBVIOUS
  <2>1. Held(sort_set) = {}
    BY DEF Init, NoKeys, Held
  <2> QED
    BY <2>1, FS_EmptySet DEF CacheBounded, size
<1>2. IInv /\ CacheBounded /\ [Next]_vars => CacheBounded'
  <2> SUFFICES ASSUME IInv, CacheBounded, [Next]_vars PROVE CacheBounded'
    OBVIOUS
  <2>1. sort_set \in ScoreMap
    BY DEF IInv, TypeOK, ScoreMap
  <2>2. CASE ExpireLoop
    <3>1. PICK m \in Cached : \/ PassEmpty(m)
                              \/ \E k \in Keys : PassEarly(m, k) \/ PassDue(m, k)
      BY <2>2 DEF ExpireLoop
    <3>2. m \in ScoreMap /\ size(m) <= BatchSize
      BY CachedPrefix, CachedBounded
    <3>3. sort_set' = m \/ \E p \in Keys : sort_set' = del(m, p)
      BY <3>1 DEF PassEmpty, PassEarly, PassDue, pop_front
    <3>4. Held(sort_set') \subseteq Held(m)
      BY <3>2, <3>3, DelResult DEF Held
    <3> QED
      BY <3>2, <3>4, FS_Subset DEF CacheBounded, size
  <2>3. ASSUME NEW k \in Keys, NEW t \in TTLs,
               SetEx(k, t) \/ SetExSame(k, t) \/ Expire(k, t)
        PROVE  CacheBounded'
    <3> DEFINE e == Deadline(t)
    <3>0. e \in Int
      BY DeadlineInt
    <3>1. \/ sort_set' \in SetTTL(sort_set, k, e)
          \/ \E m \in SetTTL(sort_set, k, e) : sort_set' \in SetTTL(m, k, e)
      BY <2>3 DEF SetEx, SetExSame, Expire
    <3> HIDE DEF e
    <3>2. \A m \in SetTTL(sort_set, k, e) : m \in ScoreMap /\ size(m) <= BatchSize
      BY <2>1, <3>0, SetTTLBounded DEF CacheBounded
    <3>3. size(sort_set') <= BatchSize
      BY <3>0, <3>1, <3>2, SetTTLBounded
    <3> QED
      BY <3>3 DEF CacheBounded
  <2>4. CASE Restart
    <3>1. Held(sort_set') = {}
      BY <2>4 DEF Restart, NoKeys, Held
    <3> QED
      BY <3>1, FS_EmptySet DEF CacheBounded, size
  <2>5. CASE UNCHANGED sort_set
    BY <2>5 DEF CacheBounded, size, Held
  <2> QED
    BY <2>2, <2>3, <2>4, <2>5
    DEF Next, NextNoFlush, Set, Del, ScanDel, Tick, Flushall, vars
<1> QED
  BY <1>1, <1>2, SpecIInv, PTL DEF Spec
-----------------------------------------------------------------------------
(***************************************************************************)
(* ExpireManager without FLUSHALL implements KeyTimeout: the cache, the    *)
(* index and the wake-up time cannot be seen from outside.                 *)
(***************************************************************************)
\* What is cached for a key is its deadline; FLUSHALL breaks this.
CacheAgree == \A k \in Held(sort_set) : sort_set[k] = zset[k]

RInv == IInv /\ CacheAgree

(***************************************************************************)
(* The cache a pass works on agrees with the s rows.                       *)
(***************************************************************************)
LEMMA CachedAgree ==
  ASSUME RInv, NEW m \in Cached
  PROVE  \A k \in Held(m) : m[k] = zset[k]
<1>1. CASE ~empty(sort_set)
  BY <1>1 DEF Cached, RInv, CacheAgree
<1>2. CASE empty(sort_set)
  <2>1. PICK B \in SUBSET Loadable : m = Filled(B)
    BY <1>2 DEF Cached
  <2>2. \A r \in B : r[1] \in Int /\ r[2] \in Keys /\ zset[r[2]] = r[1]
    BY DEF Loadable, RInv, IInv, TypeOK, IndexAgree, Held
  <2>3. ASSUME NEW k \in Held(m) PROVE m[k] = zset[k]
    <3> DEFINE scores == {s \in {r[1] : r \in B} : <<s, k>> \in B}
    <3>1. m[k] = IF scores = {} THEN NoScore
                 ELSE CHOOSE s \in scores : \A q \in scores : q <= s
      BY <2>1 DEF Filled, Held
    <3>2. \A s \in scores : s = zset[k] /\ s \in Int
      BY <2>2
    <3>3. scores # {}
      BY <3>1 DEF Held
    <3>4. scores = {zset[k]} /\ zset[k] \in Int
      BY <3>2, <3>3
    <3>5. \A s \in Int : (CHOOSE x \in {s} : \A q \in {s} : q <= x) = s
      OBVIOUS
    <3> HIDE DEF scores
    <3> QED
      BY <3>1, <3>3, <3>4, <3>5
  <2> QED
    BY <2>3
<1> QED
  BY <1>1, <1>2

(***************************************************************************)
(* SetTTL leaves in the cache what was there, or the new deadline.         *)
(***************************************************************************)
LEMMA SetTTLAgree ==
  ASSUME NEW m \in ScoreMap, NEW k \in Keys, NEW e \in Int, NEW n \in SetTTL(m, k, e)
  PROVE  /\ n \in ScoreMap
         /\ \A j \in Held(n) : IF j = k THEN n[j] = e ELSE j \in Held(m) /\ n[j] = m[j]
<1> DEFINE a == add(m, k, e)
<1>1. a \in ScoreMap /\ a[k] = e /\ \A j \in Keys \ {k} : a[j] = m[j]
  BY AddResult
<1>2. n = del(m, k) \/ n = a \/ n \in pop_back(a)
  BY DEF SetTTL
<1> HIDE DEF a
<1>3. n = del(m, k) \/ n = a \/ \E p \in Keys : n = del(a, p)
  BY <1>2 DEF pop_back
<1>4. CASE n = del(m, k)
  BY <1>4, DelResult DEF Held
<1>5. CASE n = a
  BY <1>1, <1>5 DEF Held
<1>6. ASSUME NEW p \in Keys, n = del(a, p)
      PROVE  /\ n \in ScoreMap
             /\ \A j \in Held(n) : IF j = k THEN n[j] = e ELSE j \in Held(m) /\ n[j] = m[j]
  <2>1. n \in ScoreMap /\ n[p] = NoScore /\ \A j \in Keys \ {p} : n[j] = a[j]
    BY <1>1, <1>6, DelResult
  <2>2. \A j \in Held(n) : j \in Keys /\ n[j] = a[j] /\ a[j] # NoScore
    BY <2>1 DEF Held
  <2> QED
    BY <1>1, <2>1, <2>2 DEF Held
<1> QED
  BY <1>3, <1>4, <1>5, <1>6

(***************************************************************************)
(* Without FLUSHALL the agreement of cache and s rows is inductive.        *)
(***************************************************************************)
LEMMA NextRInv == RInv /\ [NextNoFlush]_vars => RInv'
<1> SUFFICES ASSUME RInv, [NextNoFlush]_vars PROVE CacheAgree'
  BY NextIInv DEF RInv, Next
<1>0. sort_set \in ScoreMap /\ zset \in ScoreMap
  BY DEF RInv, IInv, TypeOK, ScoreMap
<1>1. CASE ExpireLoop
  <2>1. PICK m \in Cached : \/ PassEmpty(m)
                            \/ \E k \in Keys : PassEarly(m, k) \/ PassDue(m, k)
    BY <1>1 DEF ExpireLoop
  <2>2. m \in ScoreMap /\ \A k \in Held(m) : m[k] = zset[k]
    BY CachedAgree, CachedPrefix DEF RInv
  <2>3. CASE PassEmpty(m)
    BY <2>2, <2>3 DEF PassEmpty, CacheAgree, Held
  <2>4. ASSUME NEW k \in Keys, PassEarly(m, k) PROVE CacheAgree'
    BY <2>2, <2>4 DEF PassEarly, CacheAgree, Held
  <2>5. ASSUME NEW k \in Keys, PassDue(m, k) PROVE CacheAgree'
    <3>1. k \in Held(m) /\ sort_set' \in pop_front(m)
      BY <2>5 DEF PassDue, IsFront
    <3>2. PICK p \in Keys : IsFront(m, p) /\ sort_set' = del(m, p)
      BY <3>1 DEF pop_front, empty
    <3>3. p = k
      BY <2>2, <2>5, <3>1, <3>2, KeysAssumption
      DEF PassDue, IsFront, Before, Held, ScoreMap
    <3>4. sort_set'[k] = NoScore /\ \A j \in Keys \ {k} : sort_set'[j] = m[j]
      BY <2>2, <3>2, <3>3, DelResult
    <3>5. \A j \in Keys \ {k} : zset'[j] = zset[j]
      BY <1>0, <2>5 DEF PassDue, Zdel, ScoreMap
    <3> QED
      BY <2>2, <3>4, <3>5 DEF CacheAgree, Held
  <2> QED
    BY <2>1, <2>3, <2>4, <2>5
<1>2. ASSUME NEW k \in Keys, NEW t \in TTLs,
             SetEx(k, t) \/ SetExSame(k, t) \/ Expire(k, t)
      PROVE  CacheAgree'
  <2> DEFINE e == Deadline(t)
  <2>0. e \in Int
    BY DeadlineInt DEF RInv
  <2> HIDE DEF e
  <2>1. zset'[k] = e /\ \A j \in Keys \ {k} : zset'[j] = zset[j]
    BY <1>0, <1>2 DEF SetEx, SetExSame, Expire, Zset, ScoreMap, e
  <2>2. \A j \in Held(sort_set') :
            IF j = k THEN sort_set'[j] = e
                     ELSE j \in Held(sort_set) /\ sort_set'[j] = sort_set[j]
    <3>1. CASE SetEx(k, t)
      <4>1. PICK m \in SetTTL(sort_set, k, e) : sort_set' \in SetTTL(m, k, e)
        BY <3>1 DEF SetEx, e
      <4> QED
        BY <1>0, <2>0, <4>1, SetTTLAgree
    <3>2. CASE SetExSame(k, t) \/ Expire(k, t)
      BY <1>0, <2>0, <3>2, SetTTLAgree DEF SetExSame, Expire, e
    <3> QED
      BY <1>2, <3>1, <3>2
  <2> QED
    BY <2>1, <2>2 DEF RInv, CacheAgree, Held
<1>3. ASSUME NEW k \in Keys, Set(k) \/ Del(k) PROVE CacheAgree'
  BY <1>3 DEF Set, Del, RInv, CacheAgree, Held
<1>4. ASSUME NEW start \in Keys, NEW end \in Keys, ScanDel(start, end) PROVE CacheAgree'
  BY <1>4 DEF ScanDel, RInv, CacheAgree, Held
<1>5. CASE Tick
  BY <1>5 DEF Tick, RInv, CacheAgree, Held
<1>6. CASE Restart
  BY <1>6 DEF Restart, CacheAgree, Held, NoKeys
<1>7. CASE UNCHANGED vars
  BY <1>7 DEF vars, RInv, CacheAgree, Held
<1> QED
  BY <1>1, <1>2, <1>3, <1>4, <1>5, <1>6, <1>7 DEF NextNoFlush
-----------------------------------------------------------------------------
(***************************************************************************)
(* A pass that removes a key is a Fire of KeyTimeout: the deadline in the  *)
(* cache is the key's own, and the earliest.                               *)
(***************************************************************************)
LEMMA DueIsFire ==
  ASSUME RInv, NEW m \in Cached, NEW k \in Keys, PassDue(m, k)
  PROVE  Timeout!Fire(k)
<1>1. m \in ScoreMap /\ Prefix(m, Loadable) /\ m[k] = zset[k] /\ zset[k] # NoScore
  BY CachedAgree, CachedPrefix DEF RInv, PassDue, IsFront, Held
<1>2. \A r \in Loadable : zset[k] <= r[1]
  BY <1>1, FrontEarliest DEF PassDue, RInv, IInv, TypeOK, Loadable
<1>3. ASSUME NEW j \in Keys, Timeout!Ordered(j) PROVE zset[k] <= zset[j]
  <2>1. <<zset[j], j>> \in Loadable
    BY <1>3 DEF Timeout!Ordered, Loadable, RInv, IInv, IndexAgree, Held
  <2> QED
    BY <1>2, <2>1
<1> QED
  BY <1>1, <1>3 DEF PassDue, Zdel, Timeout!Fire

(***************************************************************************)
(* Every step is a step of KeyTimeout or changes none of its variables.    *)
(***************************************************************************)
LEMMA StepRefines == RInv /\ [NextNoFlush]_vars => [Timeout!Next]_(Timeout!vars)
<1> SUFFICES ASSUME RInv, [NextNoFlush]_vars
             PROVE  Timeout!Next \/ UNCHANGED Timeout!vars
  OBVIOUS
<1>1. CASE ExpireLoop
  <2>1. PICK m \in Cached : \/ PassEmpty(m)
                            \/ \E k \in Keys : PassEarly(m, k) \/ PassDue(m, k)
    BY <1>1 DEF ExpireLoop
  <2>2. CASE PassEmpty(m) \/ \E k \in Keys : PassEarly(m, k)
    BY <2>2 DEF PassEmpty, PassEarly, Timeout!vars
  <2>3. ASSUME NEW k \in Keys, PassDue(m, k) PROVE Timeout!Next
    BY <2>3, DueIsFire DEF Timeout!Next
  <2> QED
    BY <2>1, <2>2, <2>3
<1>2. ASSUME NEW k \in Keys, NEW t \in TTLs,
             SetEx(k, t) \/ SetExSame(k, t) \/ Expire(k, t)
      PROVE  Timeout!Next
  <2>1. zset' = [zset EXCEPT ![k] = now + t * MsPerSec]
    BY <1>2 DEF SetEx, SetExSame, Expire, Zset, Deadline, RInv, IInv, TypeOK
  <2>2. Timeout!SetEx(k, t) \/ Timeout!Expire(k, t)
    BY <1>2, <2>1 DEF SetEx, SetExSame, Expire, Write, Timeout!SetEx, Timeout!Expire,
                      Timeout!Write
  <2> QED
    BY <2>2 DEF Timeout!Next
<1>3. ASSUME NEW k \in Keys, Set(k) PROVE Timeout!Next
  BY <1>3 DEF Set, Write, Timeout!Next, Timeout!Set, Timeout!Write
<1>4. ASSUME NEW k \in Keys, Del(k) PROVE Timeout!Next
  <2>1. Timeout!Remove({k})
    BY <1>4 DEF Del, Timeout!Remove
  <2> QED
    BY <2>1 DEF Timeout!Next
<1>5. ASSUME NEW start \in Keys, NEW end \in Keys, ScanDel(start, end)
      PROVE  Timeout!Next
  <2>1. Timeout!Remove({k \in Keys : start <= k /\ k < end})
    BY <1>5 DEF ScanDel, Timeout!Remove
  <2> QED
    BY <2>1 DEF Timeout!Next
<1>6. CASE Tick
  BY <1>6 DEF Tick, Timeout!Next, Timeout!Tick
<1>7. CASE Restart
  BY <1>7 DEF Restart, Timeout!vars
<1>8. CASE UNCHANGED vars
  BY <1>8 DEF vars, Timeout!vars
<1> QED
  BY <1>1, <1>2, <1>3, <1>4, <1>5, <1>6, <1>7, <1>8 DEF NextNoFlush

(***************************************************************************)
(* Run one after the other and without FLUSHALL, the handlers implement    *)
(* KeyTimeout: a key is removed only by a client or because its current    *)
(* deadline has passed, the earliest first.                                *)
(***************************************************************************)
THEOREM Refinement == SpecNoFlush => ImplementsKeyTimeout
<1>1. Init => RInv
  BY InitIInv DEF RInv, CacheAgree, Init, NoKeys, Held
<1>2. Init => Timeout!Init
  BY DEF Init, NoKeys, Timeout!Init, Timeout!NoKeys
<1> QED
  BY <1>1, <1>2, NextRInv, StepRefines, PTL DEF SpecNoFlush, ImplementsKeyTimeout, Timeout!Spec
=============================================================================
