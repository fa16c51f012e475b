------------------------ MODULE ExpireThreadsProofs ------------------------
(***************************************************************************)
(* Proofs about ExpireThreads, for any keys, time-outs, batch size, clock  *)
(* and number of crashes.                                                  *)
(***************************************************************************)
EXTENDS ExpireThreads, TLAPS

\* The labels between front() and the end of Zdel, where xfront is in use.
InPass == {"store", "due", "del", "zget", "del_z", "del_s"}

(***************************************************************************)
(* Every copy of a deadline is one that was asked for: in the command, the *)
(* z rows, the iterator's snapshot, the cache and ExpireLoop's variables.  *)
(***************************************************************************)
CopiesAsked ==
    /\ rpc # "idle" => <<cmd.exp, cmd.key>> \in asked
    /\ zscore \subseteq asked
    /\ xrows \subseteq asked
    /\ \A k \in Keys : sort_set[k] # NoScore => <<sort_set[k], k>> \in asked
    /\ xpc \in InPass => xfront \in asked

IInv == TypeOK /\ CopiesAsked /\ ExpiryJustified

(***************************************************************************)
(* add changes the score of one key.                                       *)
(***************************************************************************)
LEMMA AddResult ==
  ASSUME NEW m \in [Keys -> Score], NEW k \in Keys, NEW s \in Int
  PROVE  /\ add(m, k, s) \in [Keys -> Score]
         /\ \A j \in Keys : add(m, k, s)[j] = m[j] \/ (j = k /\ add(m, k, s)[j] = s)
BY DEF add, Score

(***************************************************************************)
(* del only forgets.                                                       *)
(***************************************************************************)
LEMMA DelResult ==
  ASSUME NEW m \in [Keys -> Score], NEW k \in Keys
  PROVE  /\ del(m, k) \in [Keys -> Score]
         /\ \A j \in Keys : del(m, k)[j] = m[j] \/ del(m, k)[j] = NoScore
BY DEF del, Score

(***************************************************************************)
(* The pops only forget.                                                   *)
(***************************************************************************)
LEMMA PopResult ==
  ASSUME NEW m \in [Keys -> Score], NEW n \in pop_front(m) \cup pop_back(m)
  PROVE  /\ n \in [Keys -> Score]
         /\ \A j \in Keys : n[j] = m[j] \/ n[j] = NoScore
<1>1. n = m \/ \E k \in Keys : n = del(m, k)
  BY DEF pop_front, pop_back
<1> QED
  BY <1>1, DelResult

(***************************************************************************)
(* The invariant holds at the start.                                       *)
(***************************************************************************)
LEMMA InitIInv == Init => IInv
BY DEF Init, IInv, TypeOK, CopiesAsked, ExpiryJustified, NoKeys, Score, Held,
       RedisLabels, ExpireLabels, InPass

(***************************************************************************)
(* The start of a command keeps the invariant.                             *)
(***************************************************************************)
LEMMA RStartIInv ==
  ASSUME IInv, NEW op \in {"setex", "expire"}, NEW k \in Keys, NEW t \in TTLs,
         RStart(op, k, t)
  PROVE  IInv'
<1> DEFINE e == now + t * MsPerSec
<1>1. e \in Int
  BY TTLsAssumption, MsPerSecAssumption DEF IInv, TypeOK
<1>2. cmd' \in Command /\ cmd'.exp = e /\ cmd'.key = k
  BY <1>1 DEF RStart, Command
<1>3. asked' = asked \cup {<<e, k>>} /\ asked' \in SUBSET (Int \X Keys)
  BY <1>1 DEF RStart, IInv, TypeOK
<1>4. rpc' \in RedisLabels /\ rpc' # "idle" /\ rpc' # "del_z"
  BY DEF RStart, RedisLabels
<1> QED
  BY <1>2, <1>3, <1>4
  DEF RStart, IInv, TypeOK, CopiesAsked, ExpiryJustified, rows, cache, expire

(***************************************************************************)
(* No further step of the Redis thread breaks the invariant.               *)
(***************************************************************************)
LEMMA RedisStepIInv == IInv /\ RedisStep => IInv'
<1> SUFFICES ASSUME IInv, RedisStep PROVE IInv'
  OBVIOUS
<1> USE DEF IInv, TypeOK, CopiesAsked, ExpiryJustified, rows, cache, expire, redis
<1>a. rpc # "idle" => /\ cmd.key \in Keys /\ cmd.exp \in Int
                      /\ [cmd EXCEPT !.zdone = TRUE] \in Command
                      /\ [cmd EXCEPT !.zdone = TRUE].exp = cmd.exp
                      /\ [cmd EXCEPT !.zdone = TRUE].key = cmd.key
  BY DEF Command
<1>1. CASE RPut
  BY <1>1, <1>a DEF RPut, RedisLabels, Score
<1>2. CASE RGet
  BY <1>2, <1>a DEF RGet, Reply, RedisLabels
<1>3. CASE RFtTest
  BY <1>3, <1>a DEF RFtTest, RedisLabels
<1>4. CASE RFtStore
  BY <1>4, <1>a DEF RFtStore, RedisLabels
<1>5. CASE REmpty
  BY <1>5, <1>a DEF REmpty, RedisLabels
<1>6. CASE RMax
  BY <1>6, <1>a DEF RMax, RedisLabels
<1>7. CASE RAdd
  <2>1. /\ sort_set' \in [Keys -> Score]
        /\ \A j \in Keys : sort_set'[j] = sort_set[j]
                            \/ (j = cmd.key /\ sort_set'[j] = cmd.exp)
    <3>1. /\ sort_set' = add(sort_set, cmd.key, cmd.exp) /\ sort_set \in [Keys -> Score]
          /\ cmd.key \in Keys /\ cmd.exp \in Int
      BY <1>7, <1>a DEF RAdd
    <3>2. /\ add(sort_set, cmd.key, cmd.exp) \in [Keys -> Score]
          /\ \A j \in Keys : \/ add(sort_set, cmd.key, cmd.exp)[j] = sort_set[j]
                             \/ j = cmd.key /\ add(sort_set, cmd.key, cmd.exp)[j] = cmd.exp
      BY ONLY <3>1, AddResult
    <3> QED
      BY <3>1, <3>2
  <2>2. \A j \in Keys : sort_set'[j] # NoScore => <<sort_set'[j], j>> \in asked
    BY <1>7, <2>1 DEF RAdd
  <2> QED
    BY <1>7, <2>1, <2>2 DEF RAdd, RedisLabels
<1>8. CASE RSize
  BY <1>8, <1>a DEF RSize, AfterSetTTL, Reply, RedisLabels
<1>9. CASE RPopBack
  BY <1>9, <1>a, PopResult DEF RPopBack, AfterSetTTL, Reply, RedisLabels
<1>10. CASE RForget
  BY <1>10, <1>a, DelResult DEF RForget, AfterSetTTL, Reply, RedisLabels
<1>11. CASE RZget
  BY <1>11, <1>a DEF RZget, Reply, RedisLabels, Score
<1>12. CASE RDelZ
  BY <1>12, <1>a DEF RDelZ, RedisLabels
<1>13. CASE RPutZ
  BY <1>13, <1>a DEF RPutZ, RedisLabels
<1>14. CASE RPutS
  BY <1>14, <1>a DEF RPutS, RedisLabels, Score
<1> QED
  BY <1>1, <1>2, <1>3, <1>4, <1>5, <1>6, <1>7, <1>8, <1>9, <1>10, <1>11, <1>12,
     <1>13, <1>14 DEF RedisStep

(***************************************************************************)
(* No step of the expire thread breaks the invariant.                      *)
(***************************************************************************)
LEMMA ExpireStepIInv == IInv /\ ExpireStep => IInv'
<1> SUFFICES ASSUME IInv, ExpireStep PROVE IInv'
  OBVIOUS
<1> USE DEF IInv, TypeOK, CopiesAsked, ExpiryJustified, rows, cache, expire, redis,
            ExpireLabels, InPass
<1>1. CASE XWait
  BY <1>1 DEF XWait
<1>2. CASE XEmpty
  BY <1>2 DEF XEmpty
<1>3. CASE XIter
  BY <1>3 DEF XIter, Loadable
<1>4. CASE XLoad
  <2>1. PICK r \in xrows : sort_set' = add(sort_set, r[2], r[1]) /\ xrows' = xrows \ {r}
    BY <1>4 DEF XLoad
  <2>2. r \in asked /\ r[1] \in Int /\ r[2] \in Keys /\ r = <<r[1], r[2]>>
    OBVIOUS
  <2>3. /\ sort_set' \in [Keys -> Score]
        /\ \A j \in Keys : sort_set'[j] = sort_set[j]
                            \/ (j = r[2] /\ sort_set'[j] = r[1])
    BY <2>1, <2>2, AddResult
  <2>4. \A j \in Keys : sort_set'[j] # NoScore => <<sort_set'[j], j>> \in asked
    BY <2>2, <2>3
  <2> QED
    BY <1>4, <2>1, <2>3, <2>4 DEF XLoad
<1>5. CASE XLoaded
  BY <1>5 DEF XLoaded
<1>6. CASE XNever
  BY <1>6, TimeAssumption DEF XNever
<1>7. CASE XFront
  BY <1>7 DEF XFront, IsFront, Held, Score
<1>8. CASE XFrontGone
  BY <1>8 DEF XFrontGone
<1>9. CASE XStore
  BY <1>9 DEF XStore
<1>10. CASE XDue
  BY <1>10 DEF XDue
<1>11. CASE XDel
  BY <1>11 DEF XDel, Score
<1>12. CASE XZget
  BY <1>12 DEF XZget, Score
<1>13. CASE XDelZ
  BY <1>13 DEF XDelZ
<1>14. CASE XDelS
  BY <1>14 DEF XDelS, Score
<1>15. CASE XPop
  BY <1>15, PopResult DEF XPop
<1> QED
  BY <1>1, <1>2, <1>3, <1>4, <1>5, <1>6, <1>7, <1>8, <1>9, <1>10, <1>11, <1>12,
     <1>13, <1>14, <1>15 DEF ExpireStep

(***************************************************************************)
(* The invariant is inductive.                                             *)
(***************************************************************************)
LEMMA NextIInv == IInv /\ [Next]_vars => IInv'
<1> SUFFICES ASSUME IInv, [Next]_vars PROVE IInv'
  OBVIOUS
<1> USE DEF IInv, TypeOK, CopiesAsked, ExpiryJustified, rows, cache, redis, expire
<1>1. ASSUME NEW op \in {"setex", "expire"}, NEW k \in Keys, NEW t \in TTLs,
             RStart(op, k, t)
      PROVE  IInv'
  BY <1>1, RStartIInv
<1>2. CASE RedisStep
  BY <1>2, RedisStepIInv
<1>3. CASE ExpireStep
  BY <1>3, ExpireStepIInv
<1>4. ASSUME NEW k \in Keys, BackendPut(k) \/ BackendDelete(k) PROVE IInv'
  BY <1>4 DEF BackendPut, BackendDelete, Score
<1>5. CASE Tick
  BY <1>5 DEF Tick
<1>6. CASE Crash
  BY <1>6 DEF Crash, NoKeys, Score, RedisLabels, ExpireLabels, InPass
<1>7. CASE UNCHANGED vars
  BY <1>7 DEF vars
<1> QED
  BY <1>1, <1>2, <1>3, <1>4, <1>5, <1>6, <1>7 DEF Next

(***************************************************************************)
(* The variables keep their types: in particular old_score is a score      *)
(* wherever Zset and Zdel build a z row from it.                           *)
(***************************************************************************)
THEOREM TypeCorrect == Spec => []TypeOK
<1>1. IInv => TypeOK
  BY DEF IInv
<1> QED
  BY <1>1, InitIInv, NextIInv, PTL DEF Spec

(***************************************************************************)
(* The expire thread removes a key only at or after a deadline a client    *)
(* asked for for it, in every interleaving and after any crash.            *)
(***************************************************************************)
THEOREM ExpiryIsJustified == Spec => []ExpiryJustified
<1>1. IInv => ExpiryJustified
  BY DEF IInv
<1> QED
  BY <1>1, InitIInv, NextIInv, PTL DEF Spec
=============================================================================
