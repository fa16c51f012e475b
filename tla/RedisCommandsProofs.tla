------------------------- MODULE RedisCommandsProofs -------------------------
(***************************************************************************)
(* Proofs about RedisCommands, for any keys, time-outs, batch size, clock  *)
(* and number of failing calls.                                            *)
(***************************************************************************)
EXTENDS RedisCommands, ExpireManagerProofs, WellFoundedInduction

\* The deadline s of k is not before some deadline that was asked for k.
Asked(s, k) == asked[k] # NoScore /\ asked[k] <= s

(***************************************************************************)
(* Every copy of a deadline that may reach ExpireLoop, in a z row, left    *)
(* over or not, and in the cache, is one that was asked for.               *)
(***************************************************************************)
CopiesAsked ==
    /\ \A r \in zscore : Asked(r[1], r[2])
    /\ \A k \in Held(sort_set) : Asked(sort_set[k], k)

(***************************************************************************)
(* Before the first failure and the first FLUSHALL, the copies of a key's  *)
(* deadline agree with its s row, and that is the one promised last.       *)
(***************************************************************************)
CopiesPromised ==
    faults = 0 =>
        /\ \A k \in Held(zset) : promised[k] = zset[k]
        /\ \A r \in zscore : zset[r[2]] = r[1]
        /\ \A k \in Held(sort_set) : zset[k] = sort_set[k]

CTypeOK ==
    TypeOK /\ now <= MaxTime /\ asked \in ScoreMap /\ promised \in ScoreMap /\ faults \in Nat

CInv == CTypeOK /\ CopiesAsked

(***************************************************************************)
(* No deadline that is asked for leaves the range of int64_t: the clients' *)
(* side of KeepsPromise.  A deadline that wraps is due at once.            *)
(***************************************************************************)
InRange == \A t \in TTLs : -(Never + 1) <= t * MsPerSec /\ MaxTime + t * MsPerSec <= Never
-----------------------------------------------------------------------------
(***************************************************************************)
(* A set of numbers below a bound has a largest one.                       *)
(***************************************************************************)
LEMMA BoundedMax ==
  ASSUME NEW N \in Nat, NEW T \in SUBSET (0 .. N), T # {}
  PROVE  \E n \in T : \A m \in T : m <= n
<1> DEFINE D == {d \in Nat : N - d \in T}
<1>1. D # {} /\ D \subseteq Nat
  <2>1. PICK n \in T : TRUE
    OBVIOUS
  <2>2. N - n \in Nat /\ N - (N - n) = n
    OBVIOUS
  <2> QED
    BY <2>2
<1>2. IsWellFoundedOn(OpToRel(<, Nat), Nat)
  BY NatLessThanWellFounded
<1>3. PICK d \in D : \A x \in D : <<x, d>> \notin OpToRel(<, Nat)
  BY <1>1, <1>2, WFMin
<1>4. \A x \in D : ~(x < d)
  BY <1>1, <1>3 DEF OpToRel
<1>5. N - d \in T
  OBVIOUS
<1>6. ASSUME NEW m \in T PROVE m <= N - d
  <2>1. N - m \in Nat /\ N - (N - m) = m
    OBVIOUS
  <2>2. N - m \in D
    BY <2>1
  <2>3. ~(N - m < d)
    BY <1>4, <2>2
  <2>4. d \in Nat /\ m \in Nat
    OBVIOUS
  <2> HIDE DEF D
  <2> QED
    BY <2>3, <2>4
<1> QED
  BY <1>5, <1>6

(***************************************************************************)
(* A deadline is a number, and the one asked for unless it overflows.      *)
(***************************************************************************)
LEMMA WrapInt == ASSUME NEW n \in Int PROVE Wrap(n) \in Int
BY TimeAssumption DEF Wrap

\* The deadline that a command computes is a number, wrapped or not.
LEMMA ExpiredInt == ASSUME TypeOK, NEW t \in TTLs PROVE Expired(t) \in Int
<1>1. t * MsPerSec \in Int /\ now \in Int
  BY TTLsAssumption, MsPerSecAssumption DEF TypeOK
<1>2. Wrap(t * MsPerSec) \in Int
  BY <1>1, WrapInt
<1>3. now + Wrap(t * MsPerSec) \in Int
  BY <1>1, <1>2
<1> QED
  BY <1>3, WrapInt DEF Expired

\* A number in the range of int64_t is not changed by it.
LEMMA WrapSmall == ASSUME NEW n \in -(Never + 1) .. Never PROVE Wrap(n) = n
<1>1. Never \in Nat
  BY TimeAssumption
<1> DEFINE W == 2 * (Never + 1)
           a == n + Never + 1
<1>2. W \in Nat \ {0} /\ a \in 0 .. W - 1
  BY <1>1
<1> HIDE DEF W, a
<1>3. a % W = a
  BY <1>2
<1>4. a - (Never + 1) = n
  BY <1>1 DEF a
<1> QED
  BY <1>3, <1>4 DEF Wrap, W, a

\* With time-outs in range a deadline is the time and the time-out.
LEMMA ExpiredExact ==
  ASSUME InRange, TypeOK, now <= MaxTime, NEW t \in TTLs
  PROVE  Expired(t) = now + t * MsPerSec
<1> DEFINE d == t * MsPerSec
<1>1. d \in Int /\ now \in Nat /\ Never \in Nat /\ MaxTime \in Nat
  BY TTLsAssumption, MsPerSecAssumption, TimeAssumption DEF TypeOK
<1>2. -(Never + 1) <= d /\ MaxTime + d <= Never
  BY DEF InRange
<1> HIDE DEF d
<1>3. d \in -(Never + 1) .. Never /\ now + d \in -(Never + 1) .. Never
  BY <1>1, <1>2
<1>4. Wrap(d) = d /\ Wrap(now + d) = now + d
  BY <1>3, WrapSmall
<1> QED
  BY <1>4 DEF Expired, d-----------------------------------------------------------------------------
(***************************************************************************)
(* What SetTTL leaves of a cache: other keys stay as they are or drop out; *)
(* the key has the new deadline or drops out, and only behind the rest.    *)
(***************************************************************************)
LEMMA SetTTLResult ==
  ASSUME NEW m \in ScoreMap, NEW k \in Keys, NEW e \in Int, NEW n \in SetTTL(m, k, e)
  PROVE  /\ n \in ScoreMap
         /\ \A j \in Keys \ {k} : n[j] = m[j] \/ n[j] = NoScore
         /\ n[k] = e \/ n[k] = NoScore
         /\ n[k] = e \/ \A j \in Held(n) \ {k} : n[j] <= e
<1>1. CASE AtMostMax(m, e)
  <2> DEFINE a == add(m, k, e)
  <2>1. a \in ScoreMap /\ a[k] = e /\ \A j \in Keys \ {k} : a[j] = m[j]
    BY AddResult
  <2>2. n = a \/ n \in pop_back(a)
    BY <1>1 DEF SetTTL
  <2> HIDE DEF a
  <2>3. CASE n = a
    BY <2>1, <2>3
  <2>4. ASSUME NEW p \in Keys, IsBack(a, p), n = del(a, p)
        PROVE  /\ n \in ScoreMap
               /\ \A j \in Keys \ {k} : n[j] = m[j] \/ n[j] = NoScore
               /\ n[k] = e \/ n[k] = NoScore
               /\ n[k] = e \/ \A j \in Held(n) \ {k} : n[j] <= e
    <3>1. n \in ScoreMap /\ n[p] = NoScore /\ \A j \in Keys \ {p} : n[j] = a[j]
      BY <2>1, <2>4, DelResult
    <3>2. CASE p # k
      BY <2>1, <3>1, <3>2
    <3>3. CASE p = k
      <4>1. ASSUME NEW j \in Held(n) \ {k} PROVE n[j] <= e
        <5>1. j \in Keys /\ n[j] = a[j] /\ a[j] # NoScore /\ a[j] \in Int
          BY <2>1, <3>1, <3>3 DEF Held, ScoreMap
        <5>2. Before(a, j, k)
          BY <2>4, <3>3, <5>1 DEF IsBack, Held
        <5> QED
          BY <2>1, <5>1, <5>2 DEF Before
      <4> QED
        BY <2>1, <3>1, <3>3, <4>1
    <3> QED
      BY <3>2, <3>3
  <2> QED
    BY <2>2, <2>3, <2>4 DEF pop_back
<1>2. CASE ~AtMostMax(m, e)
  <2>1. n \in ScoreMap /\ n[k] = NoScore /\ \A j \in Keys \ {k} : n[j] = m[j]
    BY <1>2, DelResult DEF SetTTL
  <2>2. \A j \in Held(n) : j \in Held(m) /\ n[j] = m[j] /\ m[j] \in Int /\ m[j] < e
    BY <1>2, <2>1 DEF AtMostMax, Held, ScoreMap
  <2>3. \A j \in Held(n) : n[j] <= e
    BY <2>2
  <2> QED
    BY <2>1, <2>3
<1> QED
  BY <1>1, <1>2

\* The same for SET, which may call SetTTL twice.
LEMMA TellResult ==
  ASSUME TypeOK, NEW k \in Keys, NEW e \in Int, NEW again \in BOOLEAN,
         TellOnce(k, e) \/ TellTwice(k, e, again)
  PROVE  /\ first_timeout' \in Int /\ first_timeout' <= e
         /\ sort_set' \in ScoreMap
         /\ \A j \in Keys \ {k} : sort_set'[j] = sort_set[j] \/ sort_set'[j] = NoScore
         /\ sort_set'[k] = e \/ sort_set'[k] = NoScore
         /\ sort_set'[k] = e \/ \A j \in Held(sort_set') \ {k} : sort_set'[j] <= e
<1>1. first_timeout' \in Int /\ first_timeout' <= e
  BY DEF TellOnce, TellTwice, Earlier, TypeOK
<1>2. sort_set \in ScoreMap
  BY DEF TypeOK, ScoreMap
<1>3. CASE sort_set' \in SetTTL(sort_set, k, e)
  BY <1>1, <1>2, <1>3, SetTTLResult
<1>4. ASSUME NEW m \in SetTTL(sort_set, k, e), sort_set' \in SetTTL(m, k, e)
      PROVE  /\ sort_set' \in ScoreMap
             /\ \A j \in Keys \ {k} : sort_set'[j] = sort_set[j] \/ sort_set'[j] = NoScore
             /\ sort_set'[k] = e \/ sort_set'[k] = NoScore
             /\ sort_set'[k] = e \/ \A j \in Held(sort_set') \ {k} : sort_set'[j] <= e
  <2>1. m \in ScoreMap /\ \A j \in Keys \ {k} : m[j] = sort_set[j] \/ m[j] = NoScore
    BY <1>2, SetTTLResult
  <2>2. /\ sort_set' \in ScoreMap
        /\ \A j \in Keys \ {k} : sort_set'[j] = m[j] \/ sort_set'[j] = NoScore
        /\ sort_set'[k] = e \/ sort_set'[k] = NoScore
        /\ sort_set'[k] = e \/ \A j \in Held(sort_set') \ {k} : sort_set'[j] <= e
    BY <1>4, <2>1, SetTTLResult
  <2> QED
    BY <2>1, <2>2
<1>5. CASE TellOnce(k, e)
  BY <1>1, <1>3, <1>5 DEF TellOnce
<1>6. CASE TellTwice(k, e, again)
  <2>1. PICK m \in SetTTL(sort_set, k, e) : sort_set' \in IF again THEN SetTTL(m, k, e) ELSE {m}
    BY <1>6 DEF TellTwice
  <2>2. CASE again
    BY <1>1, <1>4, <2>1, <2>2
  <2>3. CASE ~again
    BY <1>1, <1>3, <2>1, <2>3
  <2> QED
    BY <2>2, <2>3
<1> QED
  BY <1>5, <1>6

(***************************************************************************)
(* What a pass finds in the cache was there, or is in a z row.             *)
(***************************************************************************)
LEMMA LoadedResult ==
  ASSUME TypeOK, NEW F, NEW m \in LoadedWith(F)
  PROVE  /\ m \in ScoreMap
         /\ \A k \in Held(m) : m[k] = sort_set[k] \/ <<m[k], k>> \in zscore
<1>1. CASE m = NoKeys
  BY <1>1 DEF NoKeys, ScoreMap, Held
<1>2. CASE m = sort_set
  BY <1>2 DEF TypeOK, ScoreMap
<1>3. ASSUME NEW B \in SUBSET Loadable, m = Filled(B)
      PROVE  m \in ScoreMap /\ \A k \in Held(m) : <<m[k], k>> \in zscore
  <2>1. ASSUME NEW k \in Keys
        PROVE  m[k] = NoScore \/ (m[k] \in Int /\ <<m[k], k>> \in zscore)
    <3> DEFINE scores == {s \in {r[1] : r \in B} : <<s, k>> \in B}
    <3>1. m[k] = IF scores = {} THEN NoScore
                 ELSE CHOOSE s \in scores : \A q \in scores : q <= s
      BY <1>3 DEF Filled
    <3>2. \A s \in scores : s \in 0 .. Never /\ <<s, k>> \in zscore
      BY TimeAssumption DEF Loadable, TypeOK
    <3>3. scores \in SUBSET (0 .. Never)
      BY <3>2
    <3> HIDE DEF scores
    <3>4. CASE scores # {}
      <4>1. \E s \in scores : \A q \in scores : q <= s
        BY <3>3, <3>4, TimeAssumption, BoundedMax
      <4>2. m[k] \in scores
        BY <3>1, <3>4, <4>1
      <4> QED
        BY <3>2, <4>2
    <3> QED
      BY <3>1, <3>4
  <2>2. m = [k \in Keys |-> m[k]]
    BY <1>3 DEF Filled
  <2> QED
    BY <2>1, <2>2 DEF ScoreMap, Held
<1> QED
  BY <1>1, <1>2, <1>3 DEF LoadedWith, Cached-----------------------------------------------------------------------------
(***************************************************************************)
(* The rows that Zset leaves.  When it answers db_ok, both rows have the   *)
(* new deadline.                                                           *)
(***************************************************************************)
LEMMA ZsetResult ==
  ASSUME TypeOK, NEW k \in Keys, NEW e \in Int, NEW F, ZsetRows(k, e, F)
  PROVE  /\ zset' \in ScoreMap
         /\ zscore' \in SUBSET (Int \X Keys) /\ zscore' \subseteq zscore \cup {<<e, k>>}
         /\ ZsetOk(k, e, F) => zset'[k] = e /\ <<e, k>> \in zscore'
         /\ F = {} => /\ zset' = [zset EXCEPT ![k] = e]
                      /\ zset[k] # e => zscore' = (zscore \ {<<zset[k], k>>}) \cup {<<e, k>>}
                      /\ zset[k] = e => zscore' = zscore
<1>1. CASE "sget" \notin F /\ zset[k] = e
  <2>1. UNCHANGED <<zset, zscore>> /\ ~ZsetOk(k, e, F)
    BY <1>1 DEF ZsetRows, ZsetOk
  <2>2. zset = [zset EXCEPT ![k] = e]
    BY <1>1 DEF TypeOK
  <2> QED
    BY <1>1, <2>1, <2>2 DEF TypeOK, ScoreMap
<1>2. CASE ~("sget" \notin F /\ zset[k] = e)
  <2>1. /\ zscore' = LessOld(k, F) \cup (IF "zput" \in F THEN {} ELSE {<<e, k>>})
        /\ zset' = [zset EXCEPT ![k] = IF {"zput", "sput"} \cap F = {} THEN e ELSE @]
    BY <1>2 DEF ZsetRows
  <2>2. LessOld(k, F) \subseteq zscore
    BY DEF LessOld
  <2>3. zset' \in ScoreMap /\ zscore' \in SUBSET (Int \X Keys) /\ zscore' \subseteq zscore \cup {<<e, k>>}
    BY <2>1, <2>2 DEF TypeOK, ScoreMap
  <2>4. ZsetOk(k, e, F) => zset'[k] = e /\ <<e, k>> \in zscore'
    BY <2>1 DEF ZsetOk, TypeOK
  <2>5. F = {} => /\ zset' = [zset EXCEPT ![k] = e] /\ zset[k] # e
                  /\ zscore' = (zscore \ {<<zset[k], k>>}) \cup {<<e, k>>}
    BY <1>2, <2>1 DEF LessOld, OldRow
  <2> QED
    BY <2>3, <2>4, <2>5
<1> QED
  BY <1>1, <1>2

(***************************************************************************)
(* What a client asked for before, or asks for now, has been asked for.    *)
(***************************************************************************)
LEMMA AskResult ==
  ASSUME asked \in ScoreMap, NEW k \in Keys, NEW e \in Int, Ask(k, e)
  PROVE  /\ asked' \in ScoreMap
         /\ asked'[k] # NoScore /\ asked'[k] <= e
         /\ \A j \in Keys, s \in Int : Asked(s, j) => asked'[j] # NoScore /\ asked'[j] <= s
<1>1. e # NoScore /\ \A j \in Keys : asked[j] = NoScore \/ asked[j] \in Int
  BY NoScoreAssumption DEF ScoreMap
<1>2. asked' = [asked EXCEPT ![k] = IF asked[k] = NoScore \/ e < asked[k] THEN e ELSE asked[k]]
  BY DEF Ask
<1>3. asked' \in ScoreMap
  BY <1>1, <1>2 DEF ScoreMap
<1>4. asked'[k] = e \/ (asked'[k] = asked[k] /\ asked[k] \in Int /\ asked[k] <= e)
  BY <1>1, <1>2 DEF ScoreMap
<1>5. \A j \in Keys \ {k} : asked'[j] = asked[j]
  BY <1>2 DEF ScoreMap
<1>6. asked[k] # NoScore => asked[k] \in Int /\ asked'[k] \in Int /\ asked'[k] <= asked[k]
  BY <1>1, <1>2 DEF ScoreMap
<1>7. ASSUME NEW j \in Keys, NEW s \in Int, Asked(s, j)
      PROVE  asked'[j] # NoScore /\ asked'[j] <= s
  <2>1. asked[j] \in Int /\ asked[j] <= s
    BY <1>1, <1>7 DEF Asked
  <2>2. CASE j = k
    BY <1>6, <2>1, <2>2, NoScoreAssumption
  <2>3. CASE j # k
    BY <1>5, <2>1, <2>3, NoScoreAssumption
  <2> QED
    BY <2>2, <2>3
<1> QED
  BY <1>1, <1>3, <1>4, <1>7, NoScoreAssumption

(***************************************************************************)
(* Failing calls are counted.                                              *)
(***************************************************************************)
LEMMA MeetsResult ==
  ASSUME CTypeOK, NEW F, Meets(F)
  PROVE  faults' \in Nat /\ (faults' = 0 => F = {} /\ faults = 0)
BY DEF Meets, CTypeOK

(***************************************************************************)
(* SET EX and EXPIRE, as far as they touch deadlines.                      *)
(***************************************************************************)
LEMMA DeadlineCommand ==
  ASSUME CInv, NEW k \in Keys, NEW t \in TTLs, NEW F, Meets(F),
         ProcessCmd_setex(k, t, F) \/ ProcessCmd_expire(k, t, F)
  PROVE  /\ CInv' /\ GrantedIsFound' /\ timed_out' \subseteq timed_out
         /\ InRange /\ CopiesPromised => CopiesPromised'
<1> DEFINE e == Expired(t)
           ok == ZsetOk(k, e, F)
<1>1. TypeOK /\ e \in Int /\ e # NoScore
  BY ExpiredInt, NoScoreAssumption DEF CInv, CTypeOK
<1>2. faults' \in Nat /\ (faults' = 0 => F = {} /\ faults = 0)
  BY MeetsResult DEF CInv
<1>3. /\ ZsetRows(k, e, F) /\ Ask(k, e) /\ now' = now
      /\ IF ok THEN promised' = [promised EXCEPT ![k] = now + t * MsPerSec] ELSE UNCHANGED promised
      /\ kv' \in SUBSET Keys /\ timed_out' \subseteq timed_out
  BY <1>1 DEF ProcessCmd_setex, ProcessCmd_expire, SetRow, Write, Grant, TypeOK
<1>4. \/ UNCHANGED <<first_timeout, sort_set>> /\ ~ok
      \/ TellOnce(k, e)
      \/ \E again \in BOOLEAN : TellTwice(k, e, again)
  BY DEF ProcessCmd_setex, ProcessCmd_expire, ZsetOk
<1>5. /\ reply'.cmd \in {"setex", "expire"} /\ reply'.key = k /\ reply'.at = e
      /\ Granted' => ok
  BY DEF ProcessCmd_setex, ProcessCmd_expire, Reply, IntReply, Granted
<1>6. \/ UNCHANGED <<first_timeout, sort_set>> /\ ~ok
      \/ /\ first_timeout' \in Int /\ first_timeout' <= e
         /\ sort_set' \in ScoreMap
         /\ \A j \in Keys \ {k} : sort_set'[j] = sort_set[j] \/ sort_set'[j] = NoScore
         /\ sort_set'[k] = e \/ sort_set'[k] = NoScore
         /\ sort_set'[k] = e \/ \A j \in Held(sort_set') \ {k} : sort_set'[j] <= e
  <2> HIDE DEF e, ok
  <2> QED
    BY <1>1, <1>4, TellResult
<1> HIDE DEF e, ok
<1>7. /\ zset' \in ScoreMap
      /\ zscore' \in SUBSET (Int \X Keys) /\ zscore' \subseteq zscore \cup {<<e, k>>}
      /\ ok => zset'[k] = e /\ <<e, k>> \in zscore'
      /\ F = {} => /\ zset' = [zset EXCEPT ![k] = e]
                   /\ zset[k] # e => zscore' = (zscore \ {<<zset[k], k>>}) \cup {<<e, k>>}
                   /\ zset[k] = e => zscore' = zscore
  BY <1>1, <1>3, ZsetResult DEF ok
<1>8. /\ asked' \in ScoreMap
      /\ asked'[k] # NoScore /\ asked'[k] <= e
      /\ \A j \in Keys, s \in Int : Asked(s, j) => asked'[j] # NoScore /\ asked'[j] <= s
  BY <1>1, <1>3, AskResult DEF CInv, CTypeOK
<1>9. CTypeOK'
  <2>1. promised' \in ScoreMap
    BY <1>1, <1>3, TTLsAssumption, MsPerSecAssumption DEF CInv, CTypeOK, TypeOK, ScoreMap
  <2>2. sort_set' \in ScoreMap /\ first_timeout' \in Int
    BY <1>1, <1>6 DEF TypeOK, ScoreMap
  <2> QED
    BY <1>1, <1>2, <1>3, <1>7, <1>8, <2>1, <2>2 DEF CInv, CTypeOK, TypeOK, ScoreMap
<1>10. CopiesAsked'
  <2>1. ASSUME NEW r \in zscore' PROVE asked'[r[2]] # NoScore /\ asked'[r[2]] <= r[1]
    <3>1. CASE r = <<e, k>>
      BY <1>8, <3>1
    <3>2. CASE r \in zscore
      <4>1. r[1] \in Int /\ r[2] \in Keys /\ Asked(r[1], r[2])
        BY <1>1, <3>2 DEF TypeOK, CInv, CopiesAsked
      <4> QED
        BY <1>8, <4>1
    <3> QED
      BY <1>7, <3>1, <3>2
  <2>2. ASSUME NEW j \in Held(sort_set') PROVE asked'[j] # NoScore /\ asked'[j] <= sort_set'[j]
    <3>1. j \in Keys /\ sort_set'[j] # NoScore
      BY DEF Held
    <3>2. CASE j = k /\ sort_set'[j] = e
      BY <1>8, <3>2
    <3>3. CASE sort_set'[j] = sort_set[j]
      <4>1. Asked(sort_set[j], j) /\ sort_set[j] \in Int
        BY <1>1, <3>1, <3>3 DEF CInv, CopiesAsked, Held, TypeOK
      <4> QED
        BY <1>8, <3>1, <3>3, <4>1
    <3> QED
      BY <1>6, <3>1, <3>2, <3>3
  <2> QED
    BY <2>1, <2>2 DEF CopiesAsked, Asked
<1>11. GrantedIsFound'
  <2> SUFFICES ASSUME Granted' PROVE GrantedIsFound'
    BY DEF GrantedIsFound
  <2> QED
    BY <1>5, <1>6, <1>7 DEF GrantedIsFound
<1>12. ASSUME InRange, CopiesPromised, faults' = 0 PROVE CopiesPromised'
  <2>1. /\ F = {}
        /\ \A j \in Held(zset) : promised[j] = zset[j]
        /\ \A r \in zscore : zset[r[2]] = r[1]
        /\ \A j \in Held(sort_set) : zset[j] = sort_set[j]
    BY <1>2, <1>12 DEF CopiesPromised
  <2>2. ok <=> zset[k] # e
    BY <2>1 DEF ok, ZsetOk
  <2>3. zset'[k] = e /\ \A j \in Keys \ {k} : zset'[j] = zset[j]
    BY <1>1, <1>7, <2>1 DEF TypeOK
  <2>4. e = now + t * MsPerSec
    BY <1>12, ExpiredExact DEF CInv, CTypeOK, e
  <2>5. promised'[k] = e /\ \A j \in Keys \ {k} : promised'[j] = promised[j]
    <3>1. CASE ok
      BY <1>3, <2>4, <3>1 DEF CInv, CTypeOK, ScoreMap
    <3>2. CASE ~ok
      BY <1>1, <1>3, <2>1, <2>2, <3>2 DEF Held
    <3> QED
      BY <3>1, <3>2
  <2>6. \A j \in Held(zset') : promised'[j] = zset'[j]
    BY <2>1, <2>3, <2>5 DEF Held
  <2>7. ASSUME NEW r \in zscore' PROVE zset'[r[2]] = r[1]
    <3>1. CASE r = <<e, k>>
      BY <2>3, <3>1
    <3>2. CASE r \in zscore /\ r[2] # k
      BY <1>1, <2>1, <2>3, <3>2 DEF TypeOK
    <3>3. CASE r \in zscore /\ r[2] = k
      <4>1. r = <<zset[k], k>>
        BY <1>1, <2>1, <3>3 DEF TypeOK
      <4>2. r = <<e, k>>
        BY <1>7, <2>1, <4>1
      <4> QED
        BY <3>1, <4>2
    <3> QED
      BY <1>7, <3>1, <3>2, <3>3
  <2>8. \A j \in Held(sort_set') : zset'[j] = sort_set'[j]
    BY <1>6, <2>1, <2>2, <2>3 DEF Held
  <2> QED
    BY <2>6, <2>7, <2>8 DEF CopiesPromised
<1> QED
  BY <1>3, <1>9, <1>10, <1>11, <1>12 DEF CInv, CopiesPromised
(***************************************************************************)
(* The steps that leave deadlines alone.                                   *)
(***************************************************************************)
Quiet ==
    /\ UNCHANGED <<now, zset, zscore, sort_set, first_timeout, promised, asked>>
    /\ kv' \in SUBSET Keys /\ timed_out' \in SUBSET timed_out
    /\ faults' \in Nat /\ faults <= faults'
    /\ ~Granted'

\* A command that is quiet keeps all that is to be proved.
LEMMA QuietResult ==
  ASSUME CInv, Quiet
  PROVE  /\ CInv' /\ GrantedIsFound' /\ timed_out' \subseteq timed_out
         /\ CopiesPromised => CopiesPromised'
<1>1. CTypeOK'
  BY DEF Quiet, CInv, CTypeOK, TypeOK
<1>2. CopiesAsked' /\ GrantedIsFound'
  BY DEF Quiet, CInv, CopiesAsked, Asked, Held, GrantedIsFound
<1>3. faults' = 0 => faults = 0
  BY DEF Quiet, CInv, CTypeOK
<1>4. CopiesPromised => CopiesPromised'
  BY <1>3 DEF Quiet, CopiesPromised, Held
<1> QED
  BY <1>1, <1>2, <1>4 DEF CInv, Quiet

\* The commands that set no deadline, and those that are refused, are quiet.
LEMMA QuietCommands ==
  ASSUME CInv, NEW F,
         \/ /\ Meets(F)
            /\ \/ \E k \in Keys : \/ ProcessCmd_get(k, F) \/ ProcessCmd_set(k, F)
                                   \/ ProcessCmd_del(k, F) \/ ProcessCmd_ttl(k, F)
               \/ \E k \in Keys, t \in TTLs : ProcessCmd_expire_none(k, t, F)
               \/ ProcessCmd_scan(F)
               \/ \E start, end \in Keys, kept \in SUBSET Keys : ProcessCmd_scandel(start, end, kept, F)
               \/ BadCommand
         \/ Flushes /\ ProcessCmd_flushall_err
  PROVE  Quiet
<1>1. faults' \in Nat /\ faults <= faults'
  BY DEF Meets, Flushes, CInv, CTypeOK
<1>2. kv \in SUBSET Keys /\ timed_out \in SUBSET Keys
  BY DEF CInv, CTypeOK, TypeOK
<1>3. ASSUME NEW k \in Keys, ProcessCmd_get(k, F) PROVE Quiet
  BY <1>1, <1>2, <1>3 DEF ProcessCmd_get, Quiet, vars, Reply, Granted
<1>4. ASSUME NEW k \in Keys, ProcessCmd_set(k, F) PROVE Quiet
  BY <1>1, <1>2, <1>4 DEF ProcessCmd_set, SetRow, Write, Quiet, Reply, Granted
<1>5. ASSUME NEW k \in Keys, ProcessCmd_del(k, F) PROVE Quiet
  BY <1>1, <1>2, <1>5 DEF ProcessCmd_del, DelRow, Quiet, Reply, Granted
<1>6. ASSUME NEW k \in Keys, ProcessCmd_ttl(k, F) PROVE Quiet
  <2>1. reply'.cmd = "ttl"
    BY <1>6 DEF ProcessCmd_ttl, Reply
  <2> QED
    BY <1>1, <1>2, <1>6, <2>1 DEF ProcessCmd_ttl, Quiet, vars, Granted
<1>7. ASSUME NEW k \in Keys, NEW t \in TTLs, ProcessCmd_expire_none(k, t, F) PROVE Quiet
  BY <1>1, <1>2, <1>7 DEF ProcessCmd_expire_none, IntReply, Quiet, vars, Reply, Granted
<1>8. CASE ProcessCmd_scan(F)
  BY <1>1, <1>2, <1>8 DEF ProcessCmd_scan, Quiet, vars, Reply, Granted
<1>9. ASSUME NEW start \in Keys, NEW end \in Keys, NEW kept \in SUBSET Keys,
             ProcessCmd_scandel(start, end, kept, F)
      PROVE  Quiet
  <2>1. reply'.cmd = "scan"
    BY <1>9 DEF ProcessCmd_scandel, Reply
  <2> QED
    BY <1>1, <1>2, <1>9, <2>1 DEF ProcessCmd_scandel, Quiet, Granted
<1>10. CASE BadCommand
  BY <1>1, <1>2, <1>10 DEF BadCommand, Quiet, vars, Reply, Granted
<1>11. CASE ProcessCmd_flushall_err
  BY <1>1, <1>2, <1>11 DEF ProcessCmd_flushall_err, Quiet, vars, Reply, Granted
<1> QED
  BY <1>3, <1>4, <1>5, <1>6, <1>7, <1>8, <1>9, <1>10, <1>11

(***************************************************************************)
(* FLUSHALL only forgets rows, and counts as a fault.                      *)
(***************************************************************************)
LEMMA FlushResult ==
  ASSUME CInv, NEW ks \in SUBSET kv, NEW ss \in SUBSET Held(zset), NEW zs \in SUBSET zscore, NEW F,
         Flushes, ProcessCmd_flushall(ks, ss, zs, F)
  PROVE  /\ CInv' /\ GrantedIsFound' /\ timed_out' \subseteq timed_out
         /\ CopiesPromised => CopiesPromised'
<1>1. faults' \in Nat /\ faults' # 0
  BY DEF Flushes, CInv, CTypeOK
<1>2. zset' \in ScoreMap /\ promised' \in ScoreMap
  BY DEF ProcessCmd_flushall, NoKeys, CInv, CTypeOK, TypeOK, ScoreMap
<1>3. CTypeOK'
  BY <1>1, <1>2 DEF ProcessCmd_flushall, CInv, CTypeOK, TypeOK, ScoreMap
<1>4. CopiesAsked'
  BY DEF ProcessCmd_flushall, CInv, CopiesAsked, Asked, Held
<1>5. ~Granted'
  BY DEF ProcessCmd_flushall, Reply, Granted
<1> QED
  BY <1>1, <1>3, <1>4, <1>5 DEF CInv, GrantedIsFound, CopiesPromised, ProcessCmd_flushall

(***************************************************************************)
(* The clock and a restart, after which the cache is empty.                *)
(***************************************************************************)
LEMMA EnvironmentResult ==
  ASSUME CInv, Environment
  PROVE  /\ CInv' /\ GrantedIsFound' /\ timed_out' \subseteq timed_out
         /\ CopiesPromised => CopiesPromised'
<1>1. ~Granted'
  BY DEF Environment, NoCommand, Granted
<1>2. CASE Tick
  <2>1. now' \in Nat /\ now' <= MaxTime
    BY <1>2, TimeAssumption DEF Tick, CInv, CTypeOK, TypeOK
  <2>2. CTypeOK'
    BY <1>2, <2>1 DEF Tick, Environment, CInv, CTypeOK, TypeOK
  <2> QED
    BY <1>1, <1>2, <2>2
    DEF Tick, Environment, CInv, CopiesAsked, Asked, Held, GrantedIsFound, CopiesPromised
<1>3. CASE Restart
  <2>1. sort_set' \in ScoreMap /\ Held(sort_set') = {}
    BY <1>3 DEF Restart, NoKeys, Held, ScoreMap
  <2>2. CTypeOK'
    BY <1>3, <2>1 DEF Restart, Environment, CInv, CTypeOK, TypeOK, ScoreMap
  <2>3. CopiesAsked'
    BY <1>3, <2>1 DEF Restart, Environment, CInv, CopiesAsked, Asked
  <2>4. CopiesPromised => CopiesPromised'
    BY <1>3, <2>1 DEF Restart, Environment, CopiesPromised, Held
  <2> QED
    BY <1>1, <1>3, <2>2, <2>3, <2>4 DEF Restart, CInv, GrantedIsFound
<1> QED
  BY <1>2, <1>3 DEF Environment
(***************************************************************************)
(* The key at the front of a cache is the one that is popped.              *)
(***************************************************************************)
LEMMA PopFrontResult ==
  ASSUME NEW m \in ScoreMap, NEW k \in Keys, IsFront(m, k), NEW n \in pop_front(m)
  PROVE  /\ n \in ScoreMap /\ n[k] = NoScore
         /\ \A j \in Keys \ {k} : n[j] = m[j]
<1>1. ~empty(m)
  BY DEF IsFront, empty
<1>2. PICK j \in Keys : IsFront(m, j) /\ n = del(m, j)
  BY <1>1 DEF pop_front
<1>3. j = k
  <2>1. m[j] \in Int /\ m[k] \in Int /\ j \in Int /\ k \in Int
    BY <1>2, KeysAssumption DEF IsFront, Held, ScoreMap
  <2>2. j # k => Before(m, j, k) /\ Before(m, k, j)
    BY <1>2 DEF IsFront
  <2> QED
    BY <2>1, <2>2 DEF Before
<1> QED
  BY <1>2, <1>3, DelResult

(***************************************************************************)
(* The rows that Zdel leaves.                                              *)
(***************************************************************************)
LEMMA ZdelResult ==
  ASSUME TypeOK, NEW k \in Keys, NEW F, ZdelRows(k, F)
  PROVE  /\ zset' \in ScoreMap /\ zscore' \subseteq zscore
         /\ F = {} => /\ zset' = [zset EXCEPT ![k] = NoScore]
                      /\ <<zset[k], k>> \notin zscore'
<1>1. CASE "sget" \notin F /\ zset[k] = NoScore
  <2>1. UNCHANGED <<zset, zscore>>
    BY <1>1 DEF ZdelRows
  <2>2. zset = [zset EXCEPT ![k] = NoScore] /\ <<zset[k], k>> \notin zscore
    BY <1>1, NoScoreAssumption DEF TypeOK
  <2> QED
    BY <2>1, <2>2 DEF TypeOK, ScoreMap
<1>2. CASE ~("sget" \notin F /\ zset[k] = NoScore)
  <2>1. /\ zscore' = LessOld(k, F)
        /\ zset' = [zset EXCEPT ![k] = IF "sdelete" \in F THEN @ ELSE NoScore]
    BY <1>2 DEF ZdelRows
  <2> QED
    BY <2>1 DEF LessOld, OldRow, TypeOK, ScoreMap
<1> QED
  BY <1>1, <1>2

(***************************************************************************)
(* A pass of ExpireLoop: what it removes is due by a copy of a deadline.   *)
(***************************************************************************)
LEMMA PassResult ==
  ASSUME CInv, NEW F, Meets(F), ExpirePass(F)
  PROVE  /\ CInv' /\ GrantedIsFound'
         /\ CopiesPromised => CopiesPromised'
         /\ \A k \in timed_out' \ timed_out : Asked(now, k)
         /\ CopiesPromised /\ faults' = 0 =>
              \A k \in timed_out' \ timed_out : promised[k] # NoScore /\ promised[k] <= now
<1>1. TypeOK /\ faults' \in Nat /\ (faults' = 0 => F = {} /\ faults = 0)
  BY MeetsResult DEF CInv, CTypeOK
<1>2. PICK m \in LoadedWith(F) :
        \/ PassEmpty(m) /\ UNCHANGED promised
        \/ \E k \in Keys :
            \/ PassEarly(m, k) /\ UNCHANGED promised
            \/ ExpireDue(m, k, F)
  BY DEF ExpirePass
<1>3. /\ m \in ScoreMap
      /\ \A k \in Held(m) : m[k] = sort_set[k] \/ <<m[k], k>> \in zscore
  BY <1>1, LoadedResult
<1>4. \A k \in Held(m) : k \in Keys /\ m[k] # NoScore /\ m[k] \in Int /\ Asked(m[k], k)
  BY <1>3 DEF CInv, CopiesAsked, Held, ScoreMap
<1>5. CopiesPromised /\ faults = 0 => \A k \in Held(m) : zset[k] = m[k] /\ promised[k] = m[k]
  BY <1>3, <1>4 DEF CopiesPromised, Held
<1>6. ~Granted' /\ asked' = asked
  BY DEF ExpirePass, NoCommand, Granted
<1>7. ASSUME PassEmpty(m) \/ (\E k \in Keys : PassEarly(m, k)), UNCHANGED promised
      PROVE  /\ CInv' /\ timed_out' = timed_out
             /\ CopiesPromised => CopiesPromised'
  <2>1. /\ sort_set' = m /\ UNCHANGED <<now, kv, zset, zscore, timed_out>>
        /\ first_timeout' \in Int
    BY <1>4, <1>7, TimeAssumption DEF PassEmpty, PassEarly, IsFront
  <2>2. CTypeOK'
    BY <1>1, <1>3, <1>6, <1>7, <2>1 DEF CInv, CTypeOK, TypeOK, ScoreMap
  <2>3. CopiesAsked'
    BY <1>4, <1>6, <2>1 DEF CInv, CopiesAsked, Asked
  <2>4. CopiesPromised => CopiesPromised'
    BY <1>1, <1>5, <1>7, <2>1 DEF CopiesPromised, Held
  <2> QED
    BY <2>1, <2>2, <2>3, <2>4 DEF CInv
<1>8. ASSUME NEW k \in Keys, ExpireDue(m, k, F)
      PROVE  /\ CInv' /\ timed_out' \subseteq timed_out \cup {k}
             /\ k \in Held(m) /\ m[k] <= now
             /\ CopiesPromised => CopiesPromised'
  <2>1. k \in Held(m) /\ m[k] <= now /\ IsFront(m, k) /\ first_timeout' = m[k] /\ now' = now
    BY <1>8 DEF ExpireDue, Due, IsFront
  <2>2. kv' \in SUBSET Keys /\ timed_out' \in SUBSET Keys /\ timed_out' \subseteq timed_out \cup {k}
    BY <1>1, <1>8 DEF ExpireDue, DelRow, TypeOK
  <2>3. sort_set' \in ScoreMap /\ sort_set'[k] = NoScore /\ \A j \in Keys \ {k} : sort_set'[j] = m[j]
    BY <1>3, <1>8, <2>1, PopFrontResult DEF ExpireDue
  <2>4. /\ zset' \in ScoreMap /\ zscore' \subseteq zscore
        /\ F = {} => /\ zset' = [zset EXCEPT ![k] = NoScore]
                     /\ <<zset[k], k>> \notin zscore'
    BY <1>1, <1>8, ZdelResult DEF ExpireDue
  <2>5. promised' \in ScoreMap /\ \A j \in Keys \ {k} : promised'[j] = promised[j]
    BY <1>8 DEF ExpireDue, CInv, CTypeOK, ScoreMap
  <2>6. CTypeOK'
    BY <1>1, <1>4, <1>6, <2>1, <2>2, <2>3, <2>4, <2>5 DEF CInv, CTypeOK, TypeOK, ScoreMap
  <2>7. CopiesAsked'
    BY <1>4, <1>6, <2>3, <2>4 DEF CInv, CopiesAsked, Asked, Held
  <2>8. ASSUME CopiesPromised, faults' = 0 PROVE CopiesPromised'
    <3>1. /\ F = {} /\ faults = 0
          /\ \A j \in Held(zset) : promised[j] = zset[j]
          /\ \A r \in zscore : zset[r[2]] = r[1]
          /\ \A j \in Held(m) : zset[j] = m[j]
      BY <1>1, <1>5, <2>8 DEF CopiesPromised
    <3>2. zset'[k] = NoScore /\ \A j \in Keys \ {k} : zset'[j] = zset[j]
      BY <1>1, <2>4, <3>1 DEF TypeOK
    <3>3. \A j \in Held(zset') : promised'[j] = zset'[j]
      BY <2>5, <3>1, <3>2 DEF Held
    <3>4. ASSUME NEW r \in zscore' PROVE zset'[r[2]] = r[1]
      <4>1. r[2] \in Keys /\ r = <<r[1], r[2]>> /\ zset[r[2]] = r[1]
        BY <1>1, <2>4, <3>1 DEF TypeOK
      <4>2. r[2] # k
        BY <2>4, <3>1, <4>1
      <4> QED
        BY <3>2, <4>1, <4>2
    <3>5. \A j \in Held(sort_set') : zset'[j] = sort_set'[j]
      BY <2>3, <3>1, <3>2 DEF Held
    <3> QED
      BY <3>3, <3>4, <3>5 DEF CopiesPromised
  <2> QED
    BY <2>1, <2>2, <2>6, <2>7, <2>8 DEF CInv, CopiesPromised
<1>9. ASSUME NEW k \in Held(m), m[k] <= now
      PROVE  /\ Asked(now, k)
             /\ CopiesPromised /\ faults' = 0 => promised[k] # NoScore /\ promised[k] <= now
  <2>1. asked[k] \in Int /\ asked[k] <= m[k] /\ m[k] \in Int /\ now \in Int
    BY <1>1, <1>4 DEF Asked, CInv, CTypeOK, TypeOK, ScoreMap
  <2>2. Asked(now, k)
    BY <1>4, <1>9, <2>1 DEF Asked
  <2>3. CopiesPromised /\ faults' = 0 => promised[k] = m[k] /\ m[k] # NoScore
    BY <1>1, <1>4, <1>5
  <2> QED
    BY <1>9, <2>2, <2>3
<1>10. CASE \E k \in Keys : ExpireDue(m, k, F)
  BY <1>6, <1>8, <1>9, <1>10 DEF GrantedIsFound
<1>11. CASE ~\E k \in Keys : ExpireDue(m, k, F)
  BY <1>2, <1>6, <1>7, <1>11 DEF GrantedIsFound
<1> QED
  BY <1>10, <1>11
-----------------------------------------------------------------------------
(***************************************************************************)
(* Every step, and what it removes.                                        *)
(***************************************************************************)
LEMMA StepResult ==
  ASSUME CInv, CommandsNext
  PROVE  /\ CInv' /\ GrantedIsFound'
         /\ InRange /\ CopiesPromised => CopiesPromised'
         /\ \A k \in timed_out' \ timed_out : Asked(now, k)
         /\ CopiesPromised /\ faults' = 0 =>
              \A k \in timed_out' \ timed_out : promised[k] # NoScore /\ promised[k] <= now
<1> DEFINE Goal ==
             /\ CInv' /\ GrantedIsFound'
             /\ InRange /\ CopiesPromised => CopiesPromised'
             /\ timed_out' \subseteq timed_out
<1>1. CASE Environment
  BY <1>1, EnvironmentResult
<1>2. CASE ExpireThread
  BY <1>2, PassResult DEF ExpireThread
<1>3. CASE Command
  <2>1. ASSUME NEW k \in Keys, NEW t \in TTLs, NEW F, Meets(F),
               ProcessCmd_setex(k, t, F) \/ ProcessCmd_expire(k, t, F)
        PROVE  Goal
    BY <2>1, DeadlineCommand
  <2>2. Quiet => Goal
    BY QuietResult
  <2> HIDE DEF Goal
  <2>3. Goal
    BY <1>3, <2>1, <2>2, QuietCommands DEF Command
  <2> QED
    BY <2>3 DEF Goal
<1>4. CASE FlushCommand
  <2>1. ASSUME NEW ks \in SUBSET kv, NEW ss \in SUBSET Held(zset), NEW zs \in SUBSET zscore, NEW F,
               Flushes, ProcessCmd_flushall(ks, ss, zs, F)
        PROVE  Goal
    BY <2>1, FlushResult
  <2>2. Quiet => Goal
    BY QuietResult
  <2> HIDE DEF Goal
  <2>3. Goal
    BY <1>4, <2>1, <2>2, QuietCommands DEF FlushCommand
  <2> QED
    BY <2>3 DEF Goal
<1> QED
  BY <1>1, <1>2, <1>3, <1>4 DEF CommandsNext

(***************************************************************************)
(* The invariants hold at the start, and a step that changes nothing keeps *)
(* them.                                                                   *)
(***************************************************************************)
LEMMA InitCInv == CommandsInit => CInv /\ CopiesPromised /\ GrantedIsFound
<1> SUFFICES ASSUME CommandsInit PROVE CInv /\ CopiesPromised /\ GrantedIsFound
  OBVIOUS
<1>1. NoKeys \in ScoreMap /\ Held(NoKeys) = {}
  BY DEF NoKeys, ScoreMap, Held
<1>2. CTypeOK
  BY <1>1, TimeAssumption DEF CommandsInit, Init, CTypeOK, TypeOK, ScoreMap
<1> QED
  BY <1>1, <1>2 DEF CommandsInit, Init, CInv, CopiesAsked, CopiesPromised, GrantedIsFound, Granted, NoCommand

\* A step that changes nothing keeps all that is to be proved.
LEMMA StutterCInv ==
  ASSUME UNCHANGED allvars
  PROVE  /\ CInv => CInv'
         /\ CopiesPromised => CopiesPromised'
         /\ GrantedIsFound => GrantedIsFound'
BY DEF allvars, vars, CInv, CTypeOK, TypeOK, CopiesAsked, Asked, CopiesPromised, Held,
       GrantedIsFound, Granted

(***************************************************************************)
(* A deadline that SET EX or EXPIRE granted is in both rows and in the     *)
(* cache or behind it, and the expire thread wakes for it, whichever calls *)
(* of RocksDB failed (ProcessCmd_set, ProcessCmd_expire, Zset, SetTTL).    *)
(***************************************************************************)
THEOREM GrantedDeadlineIsFound == CommandsSpec => []GrantedIsFound
<1>1. CommandsInit => CInv /\ GrantedIsFound
  BY InitCInv
<1>2. CInv /\ GrantedIsFound /\ [CommandsNext]_allvars => (CInv /\ GrantedIsFound)'
  BY StepResult, StutterCInv
<1> QED
  BY <1>1, <1>2, PTL DEF CommandsSpec

(***************************************************************************)
(* Whatever Zset and Zdel left half-way, ExpireLoop removes no value       *)
(* before a deadline that was asked for its key.                           *)
(***************************************************************************)
THEOREM NoRemovalBeforeAsked == CommandsSpec => NotBeforeAsked
<1>1. CommandsInit => CInv
  BY InitCInv
<1>2. CInv /\ [CommandsNext]_allvars => CInv'
  BY StepResult, StutterCInv
<1>3. CInv /\ [CommandsNext]_allvars =>
        [\A k \in timed_out' \ timed_out : asked[k] # NoScore /\ asked[k] <= now]_allvars
  BY StepResult DEF Asked
<1> QED
  BY <1>1, <1>2, <1>3, PTL DEF CommandsSpec, NotBeforeAsked

(***************************************************************************)
(* Until a call fails or FLUSHALL runs, ExpireLoop removes a value only    *)
(* when the deadline granted last to its key has passed, if the clients    *)
(* ask for no deadline outside int64_t.                                    *)
(***************************************************************************)
THEOREM PromisesKept == InRange => (CommandsSpec => KeepsPromise)
<1> SUFFICES ASSUME InRange PROVE CommandsSpec => KeepsPromise
  OBVIOUS
<1>1. CommandsInit => CInv /\ CopiesPromised
  BY InitCInv
<1>2. CInv /\ CopiesPromised /\ [CommandsNext]_allvars => (CInv /\ CopiesPromised)'
  BY StepResult, StutterCInv
<1>3. CInv /\ CopiesPromised /\ [CommandsNext]_allvars =>
        [faults' = 0 => \A k \in timed_out' \ timed_out :
                promised[k] # NoScore /\ promised[k] <= now]_allvars
  BY StepResult
<1> QED
  BY <1>1, <1>2, <1>3, PTL DEF CommandsSpec, KeepsPromise
=============================================================================
