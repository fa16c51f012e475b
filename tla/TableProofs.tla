---------------------------- MODULE TableProofs ----------------------------
(***************************************************************************)
(* Proofs about the tables of MCStorage.                                   *)
(*                                                                         *)
(* FlushRows, for any keys, deadlines and number of faults: what FLUSHALL  *)
(* and SCAN DEL leave.                                                     *)
(*                                                                         *)
(* RowCodec, for names of any length and any flags: EncodeKey gives no two *)
(* deadlines the same row, and none of them the row of a value; what lies  *)
(* between two rows in the order of their bytes are the keys of a scan, or *)
(* the deadlines of a period, in the order of time.                        *)
(***************************************************************************)
EXTENDS ContainerProofs
-----------------------------------------------------------------------------
(* FlushRows.                                                              *)

\* A thread that deletes no rows has none left to delete.
IdleClear == (Flush!Deleting \/ todo = {}) /\ (rpc # "idle" => answered = {})

(***************************************************************************)
(* A row that the command is to delete is still to come, or the backend    *)
(* has written it since the command began.                                 *)
(***************************************************************************)
Covered ==
    Flush!Deleting =>
        \A r \in rows \cap range : r \in todo \/ (r[1] = "k" /\ r[2] \in fresh)

FlushInv == Flush!TypeOK /\ IdleClear /\ Covered /\ Flush!FlushedGone /\ Flush!ValueGoesFirst

\* What a Put and a Delete do to the rows.
LEMMA WithoutRow ==
  ASSUME NEW R, NEW r
  PROVE  /\ Flush!Without(R, r) \subseteq R
         /\ \A q \in Flush!Without(R, r) : q # r
BY DEF Flush!Without, Flush!SameRow

\* Every kind of row, as a set of rows.
LEMMA RowsMade ==
  ASSUME NEW k \in FlushKeys, NEW d \in Dues
  PROVE  /\ Flush!ValueRow(k) \in Flush!Rows
         /\ <<"s", k, d>> \in Flush!Rows /\ <<"z", k, d>> \in Flush!Rows
BY DEF Flush!ValueRow, Flush!Rows, Flush!Kinds
-----------------------------------------------------------------------------
(***************************************************************************)
(* The invariant holds at the start.                                       *)
(***************************************************************************)
LEMMA InitFlushInv == Flush!FlushAssumption /\ Flush!Init => FlushInv
<1> SUFFICES ASSUME Flush!FlushAssumption, Flush!Init PROVE FlushInv
  OBVIOUS
<1>1. faults + crashes <= MaxFaults
  BY DEF Flush!FlushAssumption, Flush!Init
<1>2. Flush!TypeOK
  BY <1>1 DEF Flush!Init, Flush!TypeOK
<1> QED
  BY <1>2 DEF Flush!Init, FlushInv, IdleClear, Covered, Flush!FlushedGone, Flush!ValueGoesFirst,
              Flush!Deleting

(***************************************************************************)
(* A command that begins: the list has every row that it is to delete.     *)
(***************************************************************************)
LEMMA BeginFlushInv ==
  ASSUME FlushInv, NEW c \in {"flushall", "scandel"}, NEW R \in SUBSET rows,
         NEW S \in SUBSET Flush!Rows, Flush!Begin(c, R, S), rows \cap S \subseteq R
  PROVE  FlushInv'
<1>1. Flush!TypeOK'
  BY DEF Flush!Begin, Flush!expire, FlushInv, Flush!TypeOK
<1>2. IdleClear' /\ Covered' /\ Flush!FlushedGone' /\ Flush!ValueGoesFirst'
  BY DEF Flush!Begin, IdleClear, Covered, Flush!FlushedGone, Flush!ValueGoesFirst, Flush!Deleting
<1> QED
  BY <1>1, <1>2 DEF FlushInv

\* FLUSHALL begins with every row on its list.
LEMMA FlushallFlushInv == ASSUME FlushInv, Flush!Flushall PROVE FlushInv'
<1>1. Flush!Begin("flushall", rows, Flush!Rows) /\ rows \subseteq Flush!Rows
  BY DEF Flush!Flushall, Flush!FlushallRows, FlushInv, Flush!TypeOK
<1> QED
  BY <1>1, BeginFlushInv

\* SCAN DEL begins with the k rows of its range on its list.
LEMMA ScanDelFlushInv == ASSUME FlushInv, Flush!ScanDel PROVE FlushInv'
<1>1. PICK lo \in FlushKeys, hi \in FlushKeys :
        Flush!Begin("scandel", rows \cap Flush!Scanned(lo, hi), Flush!Scanned(lo, hi))
  BY DEF Flush!ScanDel
<1>2. Flush!Scanned(lo, hi) \subseteq Flush!Rows
  BY DEF Flush!Scanned, Flush!ValueRow, Flush!Rows, Flush!Kinds
<1> QED
  BY <1>1, <1>2, BeginFlushInv

(***************************************************************************)
(* A row leaves the list when its Delete is done; a Delete that fails is a *)
(* fault, and its row is no longer one that the command answers for.  When *)
(* the iterator has come to the rows of deadlines, it has shown every      *)
(* value.                                                                  *)
(***************************************************************************)
LEMMA DeleteFlushInv ==
  ASSUME Flush!FlushAssumption, FlushInv, NEW fails \in BOOLEAN, Flush!DeleteNext(fails)
  PROVE  FlushInv'
<1>1. PICK r \in todo :
        /\ \A q \in todo \ {r} : Flush!Before(r, q)
        /\ todo' = todo \ {r}
        /\ rows' = IF fails THEN rows ELSE Flush!Without(rows, r)
        /\ range' = IF fails THEN Flush!Without(range, r) ELSE range
        /\ flushed' = IF fails \/ r[1] = "k" THEN flushed ELSE flushed \cup {r[2]}
        /\ fresh' = IF fails \/ r[1] # "k" THEN fresh ELSE fresh \ {r[2]}
  BY DEF Flush!DeleteNext
<1>2. Flush!Deleting /\ rpc' = rpc /\ answered' = answered /\ r \in Flush!Rows
  BY DEF Flush!DeleteNext, Flush!redis, FlushInv, Flush!TypeOK
<1>3. rows' \subseteq rows /\ range' \subseteq range
  BY <1>1, WithoutRow
<1>4. Flush!TypeOK'
  <2>1. faults' \in Nat /\ crashes' \in Nat /\ faults' + crashes' <= MaxFaults
    BY DEF Flush!DeleteNext, FlushInv, Flush!TypeOK, Flush!FlushAssumption
  <2>2. r[2] \in FlushKeys
    BY <1>2 DEF Flush!Rows
  <2>3. /\ rows' \subseteq Flush!Rows /\ range' \subseteq Flush!Rows /\ todo' \subseteq Flush!Rows
        /\ fresh' \subseteq FlushKeys /\ flushed' \subseteq FlushKeys
    BY <1>1, <1>3, <2>2 DEF FlushInv, Flush!TypeOK
  <2> QED
    BY <2>1, <2>3 DEF Flush!DeleteNext, Flush!redis, Flush!expire, FlushInv, Flush!TypeOK
<1>5. IdleClear'
  BY <1>2 DEF FlushInv, IdleClear, Flush!Deleting
<1>6. ASSUME NEW q \in rows' \cap range', q \notin todo'
      PROVE  q[1] = "k" /\ q[2] \in fresh'
  <2>1. q \in rows \cap range /\ q # r /\ ~Flush!SameRow(q, r)
    BY <1>1, <1>3, <1>6 DEF Flush!Without, Flush!SameRow
  <2>2. q[1] = "k" /\ q[2] \in fresh
    BY <1>1, <1>2, <1>6, <2>1 DEF FlushInv, Covered
  <2> QED
    BY <1>1, <2>1, <2>2 DEF Flush!SameRow
<1>7. Covered'
  BY <1>6 DEF Covered
<1>8. Flush!ValueGoesFirst'
  <2> SUFFICES ASSUME NEW k \in flushed', Flush!ValueRow(k) \in rows' \cap range'
               PROVE  k \in fresh'
    BY DEF Flush!ValueGoesFirst
  <2>1. Flush!ValueRow(k) \in rows \cap range /\ ~Flush!SameRow(Flush!ValueRow(k), r)
    BY <1>1, <1>3 DEF Flush!Without
  <2>2. k \in fresh
    <3>1. CASE k \in flushed
      BY <2>1, <3>1 DEF FlushInv, Flush!ValueGoesFirst
    <3>2. CASE k \notin flushed
      <4>1. r[1] # "k" /\ k = r[2]
        BY <1>1, <3>2
      <4>2. Flush!ValueRow(k) \notin todo
        <5>1. r[1] \in {"s", "z"}
          BY <1>2, <4>1 DEF Flush!Rows, Flush!Kinds
        <5>2. ~Flush!Before(r, Flush!ValueRow(k))
          BY <5>1 DEF Flush!Before, Flush!ValueRow, Flush!KindOrder
        <5> QED
          BY <1>1, <4>1, <5>2 DEF Flush!ValueRow
      <4> QED
        BY <1>2, <2>1, <4>2 DEF FlushInv, Covered, Flush!ValueRow
    <3> QED
      BY <3>1, <3>2
  <2>3. r[1] = "k" => r[2] # k
    BY <2>1 DEF Flush!SameRow, Flush!ValueRow
  <2> QED
    BY <1>1, <2>2, <2>3
<1>9. Flush!FlushedGone'
  BY <1>2 DEF Flush!FlushedGone, FlushInv, IdleClear, Flush!DeleteNext, Flush!Deleting
<1> QED
  BY <1>4, <1>5, <1>7, <1>8, <1>9 DEF FlushInv

(***************************************************************************)
(* A value that is put is fresh from then on.                              *)
(***************************************************************************)
LEMMA PutFlushInv ==
  ASSUME FlushInv, NEW k \in FlushKeys,
         rows' = Flush!With(rows, Flush!ValueRow(k)), fresh' = fresh \cup {k},
         UNCHANGED <<todo, range, flushed>>, answered' \subseteq answered,
         rpc' \in {"flushall", "scandel"} => rpc' = rpc,
         Flush!TypeOK', IdleClear'
  PROVE  FlushInv'
<1>1. rows' \subseteq rows \cup {Flush!ValueRow(k)}
  BY WithoutRow DEF Flush!With
<1>2. Covered'
  BY <1>1 DEF FlushInv, Covered, Flush!Deleting, Flush!ValueRow
<1>3. Flush!FlushedGone' /\ Flush!ValueGoesFirst'
  BY <1>1 DEF FlushInv, Flush!FlushedGone, Flush!ValueGoesFirst, Flush!ValueRow
<1> QED
  BY <1>2, <1>3 DEF FlushInv

(***************************************************************************)
(* A value that is deleted is no longer fresh, and no longer there.        *)
(***************************************************************************)
LEMMA DelFlushInv ==
  ASSUME FlushInv, NEW k \in FlushKeys,
         rows' = Flush!Without(rows, Flush!ValueRow(k)), fresh' = fresh \ {k},
         UNCHANGED <<todo, range, flushed, rpc, answered>>, Flush!TypeOK'
  PROVE  FlushInv'
<1>1. rows' \subseteq rows /\ Flush!ValueRow(k) \notin rows'
  BY WithoutRow
<1>2. \A r \in rows' : r[1] = "k" => r[2] # k
  BY DEF Flush!Without, Flush!SameRow, Flush!ValueRow
<1>3. Covered' /\ IdleClear'
  BY <1>1, <1>2 DEF FlushInv, Covered, IdleClear, Flush!Deleting
<1>4. Flush!FlushedGone' /\ Flush!ValueGoesFirst'
  BY <1>1, <1>2 DEF FlushInv, Flush!FlushedGone, Flush!ValueGoesFirst
<1> QED
  BY <1>3, <1>4 DEF FlushInv

(***************************************************************************)
(* The rows of deadlines change only between two deletions, or go.         *)
(***************************************************************************)
LEMMA DeadlineFlushInv ==
  ASSUME FlushInv, \A r \in rows' \ rows : r[1] # "k",
         rows' \subseteq rows \/ (~Flush!Deleting /\ rpc # "idle"),
         UNCHANGED <<todo, range, flushed, fresh, answered>>,
         rpc' \in {"flushall", "scandel"} => rpc' = rpc,
         Flush!TypeOK', IdleClear'
  PROVE  FlushInv'
<1>1. Flush!Deleting' \/ answered # {} => rows' \subseteq rows
  BY DEF FlushInv, IdleClear, Flush!Deleting
<1>2. Covered' /\ Flush!FlushedGone'
  BY <1>1 DEF FlushInv, Covered, Flush!Deleting, Flush!FlushedGone
<1>3. Flush!ValueGoesFirst'
  BY DEF FlushInv, Flush!ValueGoesFirst, Flush!ValueRow
<1> QED
  BY <1>2, <1>3 DEF FlushInv

(***************************************************************************)
(* Every step keeps the invariant.                                         *)
(***************************************************************************)
LEMMA NextFlushInv == Flush!FlushAssumption /\ FlushInv /\ [Flush!Next]_(Flush!vars) => FlushInv'
<1> SUFFICES ASSUME Flush!FlushAssumption, FlushInv, [Flush!Next]_(Flush!vars) PROVE FlushInv'
  OBVIOUS
<1> USE DEF Flush!redis, Flush!expire, Flush!deletion
<1>1. ASSUME NEW k \in FlushKeys, Flush!Set(k) PROVE FlushInv'
  <2>1. rows' \subseteq Flush!Rows
    BY <1>1, WithoutRow DEF Flush!Set, Flush!With, Flush!ValueRow, Flush!Rows, Flush!Kinds, FlushInv, Flush!TypeOK
  <2>2. Flush!TypeOK' /\ IdleClear'
    BY <1>1, <2>1 DEF Flush!Set, FlushInv, Flush!TypeOK, IdleClear, Flush!Deleting
  <2> QED
    BY <1>1, <2>2, PutFlushInv DEF Flush!Set
<1>2. ASSUME NEW k \in FlushKeys, NEW d \in Dues, Flush!SetEx(k, d) PROVE FlushInv'
  <2>1. rows' \subseteq Flush!Rows
    BY <1>2, WithoutRow DEF Flush!SetEx, Flush!With, Flush!ValueRow, Flush!Rows, Flush!Kinds, FlushInv, Flush!TypeOK
  <2>2. Flush!TypeOK' /\ IdleClear'
    BY <1>2, <2>1 DEF Flush!SetEx, Flush!Asks, FlushInv, Flush!TypeOK, IdleClear, Flush!Deleting
  <2> QED
    BY <1>2, <2>2, PutFlushInv DEF Flush!SetEx
<1>3. ASSUME NEW k \in FlushKeys, NEW d \in Dues, Flush!Expire(k, d) PROVE FlushInv'
  <2>1. Flush!TypeOK' /\ IdleClear'
    BY <1>3 DEF Flush!Expire, Flush!Asks, FlushInv, Flush!TypeOK, IdleClear, Flush!Deleting
  <2>2. Covered' /\ Flush!FlushedGone' /\ Flush!ValueGoesFirst'
    BY <1>3 DEF Flush!Expire, FlushInv, Covered, Flush!Deleting, Flush!FlushedGone,
                Flush!ValueGoesFirst
  <2> QED
    BY <2>1, <2>2 DEF FlushInv
<1>4. ASSUME NEW k \in FlushKeys, Flush!BackendPut(k) PROVE FlushInv'
  <2>1. rows' \subseteq Flush!Rows
    BY <1>4, WithoutRow DEF Flush!BackendPut, Flush!With, Flush!ValueRow, Flush!Rows, Flush!Kinds, FlushInv, Flush!TypeOK
  <2>2. Flush!TypeOK' /\ IdleClear'
    BY <1>4, <2>1 DEF Flush!BackendPut, FlushInv, Flush!TypeOK, IdleClear, Flush!Deleting
  <2> QED
    BY <1>4, <2>2, PutFlushInv DEF Flush!BackendPut
<1>5. ASSUME NEW k \in FlushKeys, Flush!BackendDelete(k) PROVE FlushInv'
  <2>1. Flush!TypeOK'
    BY <1>5, WithoutRow DEF Flush!BackendDelete, FlushInv, Flush!TypeOK
  <2> QED
    BY <1>5, <2>1, DelFlushInv DEF Flush!BackendDelete
<1>6. ASSUME NEW k \in FlushKeys, Flush!XDel(k) PROVE FlushInv'
  <2>1. Flush!TypeOK'
    BY <1>6, WithoutRow DEF Flush!XDel, FlushInv, Flush!TypeOK
  <2> QED
    BY <1>6, <2>1, DelFlushInv DEF Flush!XDel
<1>7. CASE Flush!Zget
  <2>1. Flush!TypeOK' /\ IdleClear'
    BY <1>7 DEF Flush!Zget, Flush!ScoreOf, Flush!RedisEnds, FlushInv, Flush!TypeOK, IdleClear, Flush!Deleting
  <2>2. rpc' \notin {"flushall", "scandel"}
    BY <1>7 DEF Flush!Zget, Flush!RedisEnds
  <2> QED
    BY <1>7, <2>1, <2>2, DeadlineFlushInv DEF Flush!Zget
<1>8. CASE Flush!DelZ
  <2>1. rows' \subseteq rows
    BY <1>8, WithoutRow DEF Flush!DelZ
  <2>2. Flush!TypeOK' /\ IdleClear'
    BY <1>8, <2>1 DEF Flush!DelZ, FlushInv, Flush!TypeOK, IdleClear, Flush!Deleting
  <2> QED
    BY <1>8, <2>1, <2>2, DeadlineFlushInv DEF Flush!DelZ
<1>9. CASE Flush!PutZ
  <2> DEFINE r == <<"z", arg[1], arg[2]>>
  <2>1. r \in Flush!Rows /\ r[1] # "k"
    BY <1>9, RowsMade DEF Flush!PutZ, FlushInv, Flush!TypeOK
  <2>2. rows' \subseteq Flush!Rows /\ \A q \in rows' \ rows : q[1] # "k"
    <3>1. rows' = Flush!Without(rows, r) \cup {r}
      BY <1>9 DEF Flush!PutZ, Flush!With
    <3> HIDE DEF r
    <3> QED
      BY <2>1, <3>1, WithoutRow DEF FlushInv, Flush!TypeOK
  <2>3. Flush!TypeOK' /\ IdleClear'
    BY <1>9, <2>2 DEF Flush!PutZ, FlushInv, Flush!TypeOK, IdleClear, Flush!Deleting
  <2> QED
    BY <1>9, <2>2, <2>3, DeadlineFlushInv DEF Flush!PutZ, Flush!Deleting
<1>10. CASE Flush!PutS
  <2> DEFINE r == <<"s", arg[1], arg[2]>>
  <2>1. r \in Flush!Rows /\ r[1] # "k"
    BY <1>10, RowsMade DEF Flush!PutS, FlushInv, Flush!TypeOK
  <2>2. rows' \subseteq Flush!Rows /\ \A q \in rows' \ rows : q[1] # "k"
    <3>1. rows' = Flush!Without(rows, r) \cup {r}
      BY <1>10 DEF Flush!PutS, Flush!With
    <3> HIDE DEF r
    <3> QED
      BY <2>1, <3>1, WithoutRow DEF FlushInv, Flush!TypeOK
  <2>3. Flush!TypeOK' /\ IdleClear'
    BY <1>10, <2>2 DEF Flush!PutS, Flush!RedisEnds, FlushInv, Flush!TypeOK, IdleClear, Flush!Deleting
  <2> QED
    BY <1>10, <2>2, <2>3, DeadlineFlushInv DEF Flush!PutS, Flush!RedisEnds, Flush!Deleting
<1>11. CASE Flush!Answer
  <2>1. Flush!TypeOK' /\ IdleClear'
    BY <1>11 DEF Flush!Answer, FlushInv, Flush!TypeOK, IdleClear
  <2>2. Covered' /\ Flush!FlushedGone' /\ Flush!ValueGoesFirst'
    BY <1>11 DEF Flush!Answer, FlushInv, Covered, Flush!Deleting, Flush!FlushedGone,
                 Flush!ValueGoesFirst
  <2> QED
    BY <2>1, <2>2 DEF FlushInv
<1>12. CASE Flush!XZget
  <2>1. Flush!TypeOK' /\ IdleClear'
    <3>1. CASE Flush!ExpireEnds
      BY <1>12, <3>1 DEF Flush!XZget, Flush!ExpireEnds, FlushInv, Flush!TypeOK, IdleClear, Flush!Deleting
    <3>2. CASE ~Flush!ExpireEnds
      <4>1. PICK d \in Dues : xpc' = "del_z" /\ xold' = d /\ x' = x
        BY <1>12, <3>2 DEF Flush!XZget, Flush!ScoreOf
      <4> QED
        BY <1>12, <4>1 DEF Flush!XZget, FlushInv, Flush!TypeOK, IdleClear, Flush!Deleting
    <3> QED
      BY <3>1, <3>2
  <2> QED
    BY <1>12, <2>1, DeadlineFlushInv DEF Flush!XZget
<1>13. CASE Flush!XDelZ
  <2>1. rows' \subseteq rows
    BY <1>13, WithoutRow DEF Flush!XDelZ
  <2>2. Flush!TypeOK' /\ IdleClear'
    BY <1>13, <2>1 DEF Flush!XDelZ, FlushInv, Flush!TypeOK, IdleClear, Flush!Deleting
  <2> QED
    BY <1>13, <2>1, <2>2, DeadlineFlushInv DEF Flush!XDelZ
<1>14. CASE Flush!XDelS
  <2>1. rows' \subseteq rows
    BY <1>14, WithoutRow DEF Flush!XDelS
  <2>2. Flush!TypeOK' /\ IdleClear'
    BY <1>14, <2>1 DEF Flush!XDelS, Flush!ExpireEnds, FlushInv, Flush!TypeOK, IdleClear, Flush!Deleting
  <2> QED
    BY <1>14, <2>1, <2>2, DeadlineFlushInv DEF Flush!XDelS
<1>15. CASE Flush!Crash
  <2>1. crashes' \in Nat /\ faults' + crashes' <= MaxFaults
    BY <1>15 DEF Flush!Crash, FlushInv, Flush!TypeOK, Flush!FlushAssumption
  <2>2. Flush!TypeOK'
    BY <1>15, <2>1 DEF Flush!Crash, Flush!RedisEnds, Flush!ExpireEnds, FlushInv, Flush!TypeOK
  <2>3. IdleClear' /\ Covered' /\ Flush!FlushedGone' /\ Flush!ValueGoesFirst'
    BY <1>15 DEF Flush!Crash, Flush!RedisEnds, FlushInv, IdleClear, Covered, Flush!Deleting,
                 Flush!FlushedGone, Flush!ValueGoesFirst
  <2> QED
    BY <2>2, <2>3 DEF FlushInv
<1>16. CASE UNCHANGED Flush!vars
  BY <1>16 DEF Flush!vars, FlushInv, Flush!TypeOK, IdleClear, Covered, Flush!Deleting,
               Flush!FlushedGone, Flush!ValueGoesFirst
<1> QED
  BY <1>1, <1>2, <1>3, <1>4, <1>5, <1>6, <1>7, <1>8, <1>9, <1>10, <1>11, <1>12, <1>13, <1>14,
     <1>15, <1>16, FlushallFlushInv, ScanDelFlushInv, DeleteFlushInv DEF Flush!Next

\* The invariant, always.
LEMMA FlushInvariant == Flush!FlushAssumption => (Flush!Spec => []FlushInv)
<1> SUFFICES ASSUME Flush!FlushAssumption PROVE Flush!Spec => []FlushInv
  OBVIOUS
<1>1. Flush!Init => FlushInv
  BY InitFlushInv
<1>2. FlushInv /\ [Flush!Next]_(Flush!vars) => FlushInv'
  BY NextFlushInv
<1> QED
  BY <1>1, <1>2, PTL DEF Flush!Spec

(***************************************************************************)
(* When FLUSHALL or SCAN DEL is answered, nothing is left of what it was   *)
(* to delete but what the backend wrote meanwhile and what a Delete failed *)
(* for, whatever the other threads did around the iterator (Flushall,      *)
(* ProcessCmd_scan).                                                       *)
(***************************************************************************)
THEOREM FlushRowsFlushedGone == Flush!FlushAssumption => (Flush!Spec => []FlushedGone)
<1>1. FlushInv => FlushedGone
  BY DEF FlushInv, FlushedGone
<1> QED
  BY <1>1, FlushInvariant, PTL

(***************************************************************************)
(* However far FLUSHALL has come, and wherever a crash has stopped it, a   *)
(* key of which it has deleted a row of a deadline has no value of before  *)
(* left, unless that value's Delete failed: no value loses its deadline to *)
(* it and stays (Flushall, in the order of EncodeKey's rows).              *)
(***************************************************************************)
THEOREM FlushRowsValueGoesFirst == Flush!FlushAssumption => (Flush!Spec => []ValueGoesFirst)
<1>1. FlushInv => ValueGoesFirst
  BY DEF FlushInv, ValueGoesFirst
<1> QED
  BY <1>1, FlushInvariant, PTL
-----------------------------------------------------------------------------
(* RowCodec.                                                               *)

(***************************************************************************)
(* Rows of deadlines are told apart by the member, although its length is  *)
(* but one byte of them, and from other rows by the flag in front.         *)
(***************************************************************************)
LEMMA ZsetRows ==
  ASSUME Codec!CodecAssumption, NEW m \in Members
  PROVE  /\ \A n \in Members : Codec!EncodeZset(n) = Codec!EncodeZset(m) => n = m
         /\ \A k \in Names : Codec!EncodeString(k) # Codec!EncodeZset(m)
         /\ \A n \in Members, s \in Int : Codec!EncodeZscore(n, s) # Codec!EncodeZset(m)
<1> DEFINE B == Codec!Byte \cup Nat
<1> DEFINE e == Len(ExpireKey)
<1>1. ExpireKey \in Seq(B) /\ Members \subseteq Seq(B) /\ Names \subseteq Seq(B)
  <2>1. ASSUME NEW s \in Seq(Codec!Byte) PROVE s \in Seq(B)
    <3>1. Len(s) \in Nat /\ s \in [1 .. Len(s) -> Codec!Byte]
      BY <2>1
    <3>2. s \in [1 .. Len(s) -> B]
      BY <3>1
    <3> QED
      BY <3>1, <3>2
  <2> QED
    BY <2>1 DEF Codec!CodecAssumption
<1>2. {KV, ZSET, ZSCORE} \subseteq B /\ KV # ZSET /\ ZSCORE # ZSET
  BY DEF Codec!CodecAssumption, Codec!Byte
<1>3. \A n \in Members : Len(n) % Base \in B
  BY <1>1 DEF Codec!CodecAssumption
<1> HIDE DEF B
<1>4. ASSUME NEW n \in Members
      PROVE  /\ Len(Codec!EncodeZset(n)) = 3 + e + Len(n)
             /\ Codec!EncodeZset(n)[1] = ZSET
             /\ \A i \in 1 .. Len(n) : Codec!EncodeZset(n)[3 + e + i] = n[i]
  BY <1>1, <1>2, <1>3, <1>4 DEF Codec!EncodeZset
<1>5. ASSUME NEW n \in Members, Codec!EncodeZset(n) = Codec!EncodeZset(m)
      PROVE  n = m
  <2>1. Len(n) = Len(m) /\ Len(n) \in Nat /\ e \in Nat /\ n \in Seq(B) /\ m \in Seq(B)
    BY <1>1, <1>4, <1>5
  <2>2. \A i \in 1 .. Len(n) : n[i] = m[i]
    BY <1>4, <1>5, <2>1
  <2> QED
    BY <2>1, <2>2
<1>6. ASSUME NEW k \in Names PROVE Codec!EncodeString(k)[1] = KV
  BY <1>1, <1>2, <1>6 DEF Codec!EncodeString
<1>7. ASSUME NEW n \in Members, NEW s \in Int PROVE Codec!EncodeZscore(n, s)[1] = ZSCORE
  <2> DEFINE b == Codec!encode_score(s)
  <2> DEFINE R == {b[i] : i \in 1 .. Bytes}
  <2>1. b \in Seq(R)
    <3>1. DOMAIN b = 1 .. Bytes /\ b = [i \in 1 .. Bytes |-> b[i]] /\ Bytes \in Nat
      BY DEF Codec!CodecAssumption, Codec!encode_score
    <3> HIDE DEF b
    <3>2. b \in [1 .. Bytes -> R]
      BY <3>1
    <3> HIDE DEF R
    <3> QED
      BY <3>1, <3>2
  <2> QED
    BY <1>1, <1>2, <2>1 DEF Codec!EncodeZscore
<1> QED
  BY <1>2, <1>4, <1>5, <1>6, <1>7

\* The s rows hold the deadlines; the other rows do not matter to them.
CodecInv ==
    /\ deadline \in [Members -> {Codec!None} \cup {<<s>> : s \in Deadlines}]
    /\ \A m \in Members : Codec!Zget(m) = deadline[m]

\* What Put and Delete do to the other rows.
LEMMA PutDelete ==
  ASSUME NEW t, NEW r, NEW v, NEW q
  PROVE  /\ q # r => (q \in DOMAIN Codec!Put(t, r, v) <=> q \in DOMAIN t)
         /\ q # r => (q \in DOMAIN Codec!Delete(t, r) <=> q \in DOMAIN t)
         /\ q # r /\ q \in DOMAIN t => Codec!Put(t, r, v)[q] = t[q]
         /\ q # r /\ q \in DOMAIN t => Codec!Delete(t, r)[q] = t[q]
         /\ r \in DOMAIN Codec!Put(t, r, v) /\ Codec!Put(t, r, v)[r] = v
         /\ r \notin DOMAIN Codec!Delete(t, r)
BY DEF Codec!Put, Codec!Delete

\* A row of the table, or None.
Row(t, q) == IF q \in DOMAIN t THEN t[q] ELSE Codec!None

\* Put and Delete leave every other row as it is.
LEMMA RowKept ==
  ASSUME NEW t, NEW r, NEW v, NEW q, q # r
  PROVE  Row(Codec!Put(t, r, v), q) = Row(t, q) /\ Row(Codec!Delete(t, r), q) = Row(t, q)
BY PutDelete DEF Row

\* No call writes or deletes the s row of another member.
LEMMA NextCodecInv ==
  ASSUME Codec!CodecAssumption, CodecInv, [Codec!Next]_(Codec!vars)
  PROVE  CodecInv'
<1> USE DEF CodecInv
<1>1. \A m \in Members : /\ Codec!Zget(m) = Row(table, Codec!EncodeZset(m))
                         /\ Codec!Zget(m)' = Row(table', Codec!EncodeZset(m))
  BY DEF Codec!Zget, Row
<1>2. CASE \E k \in Names : Codec!Set(k) \/ Codec!Del(k)
  <2>1. PICK k \in Names : Codec!Set(k) \/ Codec!Del(k)
    BY <1>2
  <2> DEFINE r == Codec!EncodeString(k)
  <2>2. /\ table' = Codec!Put(table, r, Codec!None) \/ table' = Codec!Delete(table, r)
        /\ deadline' = deadline
    BY <2>1 DEF Codec!Set, Codec!Del
  <2>3. \A m \in Members : Codec!EncodeZset(m) # r
    BY ZsetRows
  <2> HIDE DEF r
  <2>4. \A m \in Members : Row(table', Codec!EncodeZset(m)) = Row(table, Codec!EncodeZset(m))
    BY <2>2, <2>3, RowKept
  <2> QED
    BY <1>1, <2>2, <2>4
<1>3. ASSUME NEW m \in Members, NEW old, old = deadline[m]
      PROVE  \A q \in Members :
               Row(Codec!Unindexed(m, old), Codec!EncodeZset(q)) = Row(table, Codec!EncodeZset(q))
  <2>1. CASE old = Codec!None
    BY <2>1 DEF Codec!Unindexed
  <2>2. CASE old # Codec!None
    <3> DEFINE r == Codec!EncodeZscore(m, old[1])
    <3>1. old[1] \in Int
      <4>1. Deadlines \subseteq Int
        BY DEF Codec!CodecAssumption
      <4> QED
        BY <1>3, <2>2, <4>1
    <3>2. \A q \in Members : Codec!EncodeZset(q) # r
      BY <3>1, ZsetRows
    <3>3. Codec!Unindexed(m, old) = Codec!Delete(table, r)
      BY <2>2 DEF Codec!Unindexed
    <3> HIDE DEF r
    <3> QED
      BY <3>2, <3>3, RowKept
  <2> QED
    BY <2>1, <2>2
<1>4. ASSUME NEW m \in Members, Codec!Zdel(m) PROVE CodecInv'
  <2> DEFINE r == Codec!EncodeZset(m)
  <2> DEFINE u == Codec!Unindexed(m, deadline[m])
  <2>1. table' = Codec!Delete(u, r) /\ deadline' = [deadline EXCEPT ![m] = Codec!None]
    BY <1>4 DEF Codec!Zdel
  <2>2. \A q \in Members : q # m => Codec!EncodeZset(q) # r
    BY ZsetRows
  <2>3. \A q \in Members : Row(u, Codec!EncodeZset(q)) = Row(table, Codec!EncodeZset(q))
    BY <1>3
  <2> HIDE DEF r, u
  <2>4. \A q \in Members : q # m => Row(table', Codec!EncodeZset(q)) = deadline[q]
    BY <1>1, <2>1, <2>2, <2>3, RowKept
  <2>5. Row(table', Codec!EncodeZset(m)) = Codec!None
    BY <2>1, PutDelete DEF Row, r
  <2> QED
    BY <1>1, <2>1, <2>4, <2>5
<1>5. ASSUME NEW m \in Members, NEW s \in Deadlines, Codec!Zset(m, s) PROVE CodecInv'
  <2> DEFINE r == Codec!EncodeZset(m)
  <2> DEFINE z == Codec!EncodeZscore(m, s)
  <2> DEFINE u == Codec!Unindexed(m, deadline[m])
  <2> DEFINE w == Codec!Put(u, z, Codec!None)
  <2>1. table' = Codec!Put(w, r, <<s>>) /\ deadline' = [deadline EXCEPT ![m] = <<s>>]
    BY <1>5 DEF Codec!Zset
  <2>2. s \in Int
    BY DEF Codec!CodecAssumption
  <2>3. \A q \in Members : Codec!EncodeZset(q) # z /\ (q # m => Codec!EncodeZset(q) # r)
    BY <2>2, ZsetRows
  <2>4. \A q \in Members : Row(u, Codec!EncodeZset(q)) = Row(table, Codec!EncodeZset(q))
    BY <1>3
  <2> HIDE DEF r, z, u
  <2>5. \A q \in Members : Row(w, Codec!EncodeZset(q)) = deadline[q]
    BY <1>1, <2>3, <2>4, RowKept
  <2> HIDE DEF w
  <2>6. \A q \in Members : q # m => Row(table', Codec!EncodeZset(q)) = deadline[q]
    BY <2>1, <2>3, <2>5, RowKept
  <2>7. Row(table', Codec!EncodeZset(m)) = <<s>>
    BY <2>1, PutDelete DEF Row, r
  <2> QED
    BY <1>1, <2>1, <2>6, <2>7
<1>6. CASE UNCHANGED Codec!vars
  BY <1>6 DEF Codec!vars, Codec!Zget
<1> QED
  BY <1>2, <1>4, <1>5, <1>6 DEF Codec!Next

(***************************************************************************)
(* For names of any length and content, and any flags and width of the     *)
(* scores: Zget finds for every member the deadline it was last given,     *)
(* although the s row has but one byte for the length of its member.       *)
(***************************************************************************)
THEOREM CodecDeadlinesKept ==
  Codec!CodecAssumption => (Codec!Spec => []DeadlinesKept)
<1> SUFFICES ASSUME Codec!CodecAssumption PROVE Codec!Spec => []DeadlinesKept
  OBVIOUS
<1>1. Codec!Init => CodecInv
  BY DEF Codec!Init, CodecInv, Codec!Zget
<1>2. CodecInv /\ [Codec!Next]_(Codec!vars) => CodecInv'
  BY NextCodecInv
<1>3. CodecInv => DeadlinesKept
  BY DEF CodecInv, DeadlinesKept, Codec!DeadlinesKept
<1> QED
  BY <1>1, <1>2, <1>3, PTL DEF Codec!Spec
-----------------------------------------------------------------------------
\* RowCodec means the same by a finite set and its cardinality.
LEMMA SameCodecSets ==
  ASSUME NEW S
  PROVE  /\ Codec!IsFiniteSet(S) <=> IsFiniteSet(S)
         /\ Codec!Cardinality(S) = Cardinality(S)
<1>1. Codec!IsFiniteSet(S) <=> IsFiniteSet(S)
  BY DEF Codec!IsFiniteSet, IsFiniteSet
<1>2. Codec!Cardinality(S) = Cardinality(S)
  BY DEF Codec!Cardinality, Cardinality
<1> QED
  BY <1>1, <1>2
-----------------------------------------------------------------------------
(* The order of the rows.                                                  *)

\* a and b agree up to n, where a ends or has the smaller byte.
Parting(a, b, n) ==
  /\ n <= Len(a) /\ n < Len(b) /\ \A i \in 1 .. n : a[i] = b[i]
  /\ n = Len(a) \/ a[n + 1] < b[n + 1]

\* Less, byte by byte.
LEMMA LessParting ==
  ASSUME NEW a \in Seq(Int), NEW b \in Seq(Int)
  PROVE  Codec!Less(a, b) <=> \E n \in Nat : Parting(a, b, n)
<1>1. ASSUME NEW n \in Nat, n <= Len(a), n <= Len(b)
      PROVE  SubSeq(a, 1, n) = SubSeq(b, 1, n) <=> \A i \in 1 .. n : a[i] = b[i]
  <2> DEFINE p == SubSeq(a, 1, n)
             q == SubSeq(b, 1, n)
  <2>1. /\ p \in Seq(Int) /\ Len(p) = n /\ \A i \in 1 .. n : p[i] = a[i]
        /\ q \in Seq(Int) /\ Len(q) = n /\ \A i \in 1 .. n : q[i] = b[i]
    BY <1>1
  <2> HIDE DEF p, q
  <2>2. p = q <=> \A i \in 1 .. n : p[i] = q[i]
    BY <2>1, SeqEqual
  <2> QED
    BY <2>1, <2>2 DEF p, q
<1>2. Len(a) \in Nat /\ Len(b) \in Nat
  OBVIOUS
<1> QED
  BY <1>1, <1>2 DEF Codec!Less, Parting

\* The order is strict and total.
LEMMA LessIrreflexive ==
  ASSUME NEW a \in Seq(Int)
  PROVE  ~Codec!Less(a, a)
<1>1. \A n \in Nat : ~Parting(a, a, n)
  <2> SUFFICES ASSUME NEW n \in Nat, Parting(a, a, n) PROVE FALSE
    OBVIOUS
  <2>1. n < Len(a) /\ a[n + 1] < a[n + 1] /\ Len(a) \in Nat
    BY DEF Parting
  <2>2. a[n + 1] \in Int
    BY <2>1
  <2> QED
    BY <2>1, <2>2
<1> QED
  BY <1>1, LessParting

\* Less is transitive.
LEMMA LessTransitive ==
  ASSUME NEW a \in Seq(Int), NEW b \in Seq(Int), NEW c \in Seq(Int),
         Codec!Less(a, b), Codec!Less(b, c)
  PROVE  Codec!Less(a, c)
<1>1. PICK m \in Nat : Parting(a, b, m)
  BY LessParting
<1>2. PICK n \in Nat : Parting(b, c, n)
  BY LessParting
<1>3. Len(a) \in Nat /\ Len(b) \in Nat /\ Len(c) \in Nat
  OBVIOUS
<1>4. CASE m < n
  <2>1. m + 1 \in 1 .. n /\ m <= Len(a) /\ m < Len(c) /\ b[m + 1] = c[m + 1]
    BY <1>1, <1>2, <1>3, <1>4 DEF Parting
  <2>2. \A i \in 1 .. m : a[i] = c[i]
    BY <1>1, <1>2, <1>4 DEF Parting
  <2>3. m = Len(a) \/ a[m + 1] < c[m + 1]
    BY <1>1, <2>1 DEF Parting
  <2>4. Parting(a, c, m)
    BY <2>1, <2>2, <2>3 DEF Parting
  <2> QED
    BY <2>4, LessParting
<1>5. CASE n <= m
  <2>1. n <= Len(a) /\ n < Len(c) /\ n < Len(b) /\ b[n + 1] < c[n + 1]
    BY <1>1, <1>2, <1>3, <1>5 DEF Parting
  <2>2. \A i \in 1 .. n : a[i] = c[i]
    BY <1>1, <1>2, <1>5 DEF Parting
  <2>3. n = Len(a) \/ a[n + 1] < c[n + 1]
    <3>1. CASE n = m
      <4> SUFFICES ASSUME n # Len(a) PROVE a[n + 1] < c[n + 1]
        OBVIOUS
      <4>1. a[n + 1] < b[n + 1] /\ n + 1 \in 1 .. Len(a) /\ n + 1 \in 1 .. Len(b) /\ n + 1 \in 1 .. Len(c)
        BY <1>1, <1>3, <2>1, <3>1, SMTT(30) DEF Parting
      <4>2. a[n + 1] \in Int /\ b[n + 1] \in Int /\ c[n + 1] \in Int
        BY <4>1, SMTT(30)
      <4> QED
        BY <2>1, <4>1, <4>2, SMTT(30)
    <3>2. CASE n < m
      <4>1. n + 1 \in 1 .. m
        BY <3>2
      <4> QED
        BY <1>1, <2>1, <4>1 DEF Parting
    <3> QED
      BY <1>5, <3>1, <3>2
  <2>4. Parting(a, c, n)
    BY <2>1, <2>2, <2>3 DEF Parting
  <2> QED
    BY <2>4, LessParting
<1> QED
  BY <1>4, <1>5

\* Of two different rows one comes first.
LEMMA LessTotal ==
  ASSUME NEW a \in Seq(Int), NEW b \in Seq(Int), a # b
  PROVE  Codec!Less(a, b) \/ Codec!Less(b, a)
<1> DEFINE T == {i \in Nat \ {0} : i <= Len(a) /\ i <= Len(b) /\ a[i] # b[i]}
<1>1. Len(a) \in Nat /\ Len(b) \in Nat
  OBVIOUS
<1>2. CASE T = {}
  <2>1. \A i \in Nat \ {0} : i <= Len(a) /\ i <= Len(b) => a[i] = b[i]
    BY <1>2
  <2>2. Len(a) # Len(b)
    BY <1>1, <2>1, SMTT(30)
  <2>3. Parting(a, b, Len(a)) \/ Parting(b, a, Len(b))
    BY <1>1, <2>1, <2>2 DEF Parting
  <2> QED
    BY <1>1, <2>3, LessParting
<1>3. CASE T # {}
  <2>1. PICK i \in T : \A j \in T : i <= j
    <3>1. T \in SUBSET Nat
      OBVIOUS
    <3> QED
      BY <1>3, <3>1, NatMin
  <2> DEFINE n == i - 1
  <2>2. n \in Nat /\ n < Len(a) /\ n < Len(b) /\ a[n + 1] # b[n + 1]
    BY <1>1, <2>1
  <2>3. \A j \in 1 .. n : a[j] = b[j]
    <3> SUFFICES ASSUME NEW j \in 1 .. n PROVE a[j] = b[j]
      OBVIOUS
    <3>1. j \notin T /\ j \in Nat \ {0} /\ j <= Len(a) /\ j <= Len(b)
      BY <2>1, <1>1
    <3> QED
      BY <3>1
  <2>4. a[n + 1] \in Int /\ b[n + 1] \in Int
    BY <1>1, <2>2
  <2> HIDE DEF n
  <2>5. Parting(a, b, n) \/ Parting(b, a, n)
    BY <1>1, <2>2, <2>3, <2>4, SMTT(30) DEF Parting
  <2> QED
    BY <2>2, <2>5, LessParting
<1> QED
  BY <1>2, <1>3

\* How many rows of S come before r.
Rank(S, r) == Cardinality({q \in S : Codec!Less(q, r)})

\* A row has fewer rows before it than there are.
LEMMA RankType ==
  ASSUME NEW S \in SUBSET Seq(Int), IsFiniteSet(S), NEW r \in S
  PROVE  Rank(S, r) \in 0 .. Cardinality(S) - 1
<1> DEFINE T == {q \in S : Codec!Less(q, r)}
<1>1. T \subseteq S /\ T # S
  BY LessIrreflexive
<1> HIDE DEF T
<1>2. IsFiniteSet(T) /\ Cardinality(T) <= Cardinality(S) /\ Cardinality(T) # Cardinality(S)
  BY <1>1, FS_Subset
<1>3. Cardinality(T) \in Nat /\ Cardinality(S) \in Nat
  BY <1>2, FS_CardinalityType
<1>4. Cardinality(T) \in 0 .. Cardinality(S) - 1
  BY <1>2, <1>3
<1> QED
  BY <1>4 DEF Rank, T

\* A later row has more rows before it.
LEMMA RankLess ==
  ASSUME NEW S \in SUBSET Seq(Int), IsFiniteSet(S), NEW r \in S, NEW s \in S, Codec!Less(r, s)
  PROVE  Rank(S, r) < Rank(S, s)
<1> DEFINE T == {q \in S : Codec!Less(q, r)}
           U == {q \in S : Codec!Less(q, s)}
<1>1. T \subseteq U
  BY LessTransitive
<1>2. r \in U /\ r \notin T /\ U \subseteq S
  BY LessIrreflexive
<1> HIDE DEF T, U
<1>3. IsFiniteSet(U)
  BY <1>2, FS_Subset
<1>4. IsFiniteSet(T) /\ Cardinality(T) <= Cardinality(U) /\ Cardinality(T) # Cardinality(U)
  BY <1>1, <1>2, <1>3, FS_Subset
<1>5. Cardinality(T) \in Nat /\ Cardinality(U) \in Nat
  BY <1>3, <1>4, FS_CardinalityType
<1>6. Cardinality(T) < Cardinality(U)
  BY <1>4, <1>5
<1> QED
  BY <1>6 DEF Rank, T, U

\* The rank of a row says which one it is.
LEMMA RankInjective ==
  ASSUME NEW S \in SUBSET Seq(Int), IsFiniteSet(S), NEW r \in S, NEW s \in S, Rank(S, r) = Rank(S, s)
  PROVE  r = s
<1>1. Rank(S, r) \in Int /\ Rank(S, s) \in Int
  BY RankType
<1>2. ~Codec!Less(r, s) /\ ~Codec!Less(s, r)
  BY <1>1, RankLess
<1> QED
  BY <1>2, LessTotal

\* Every rank below the size of S is that of a row.
LEMMA RankOnto ==
  ASSUME NEW S \in SUBSET Seq(Int), IsFiniteSet(S), NEW i \in 1 .. Cardinality(S)
  PROVE  \E r \in S : Rank(S, r) = i - 1
<1> DEFINE n == Cardinality(S)
           R == 0 .. n - 1
           f == [r \in S |-> Rank(S, r)]
<1>1. n \in Nat
  BY FS_CardinalityType
<1> HIDE DEF n
<1>2. f \in [S -> R]
  BY RankType DEF n
<1>3. \A r, s \in S : f[r] = f[s] => r = s
  BY RankInjective
<1> HIDE DEF f
<1>4. f \in Injection(S, R)
  BY <1>2, <1>3 DEF Injection, IsInjective
<1>5. IsFiniteSet(R) /\ Cardinality(R) = n
  BY <1>1, FS_Interval
<1>6. f \in Surjection(S, R)
  BY <1>4, <1>5, FS_Injection DEF n
<1>7. i - 1 \in R
  BY <1>1 DEF n
<1>8. \E r \in S : f[r] = i - 1
  BY <1>6, <1>7 DEF Surjection
<1> QED
  BY <1>8 DEF f

\* Ascending gives every row of S its place, by its rank.
LEMMA AscendingRows ==
  ASSUME NEW S \in SUBSET Seq(Int), IsFiniteSet(S)
  PROVE  LET A == Codec!Ascending(S)
         IN  /\ Cardinality(S) \in Nat
             /\ A \in [1 .. Cardinality(S) -> S]
             /\ \A i \in 1 .. Cardinality(S) : Rank(S, A[i]) = i - 1
<1> DEFINE A == Codec!Ascending(S)
           n == Cardinality(S)
<1>1. n \in Nat
  BY FS_CardinalityType
<1> DEFINE P(r, i) == Codec!Cardinality({q \in S : Codec!Less(q, r)}) = i - 1
<1>2. A = [i \in 1 .. n |-> CHOOSE r \in S : P(r, i)]
  BY SameCodecSets DEF Codec!Ascending
<1>3. ASSUME NEW i \in 1 .. n PROVE A[i] \in S /\ Rank(S, A[i]) = i - 1
  <2>1. \A r \in S : P(r, i) <=> Rank(S, r) = i - 1
    BY SameCodecSets DEF Rank
  <2>2. \E r \in S : Rank(S, r) = i - 1
    BY RankOnto
  <2> HIDE DEF A, P
  <2>3. A[i] = CHOOSE r \in S : P(r, i)
    BY <1>2
  <2>4. A[i] \in S /\ P(A[i], i)
    BY <2>1, <2>2, <2>3
  <2> QED
    BY <2>1, <2>4
<1> HIDE DEF A, P
<1>4. A \in [1 .. n -> S]
  <2> HIDE DEF n
  <2> QED
    BY <1>2, <1>3
<1> QED
  BY <1>1, <1>3, <1>4 DEF A

-----------------------------------------------------------------------------
(* Scores as bytes.                                                        *)

\* Power is what its recursion says.
LEMMA PowerResult ==
  ASSUME Codec!CodecAssumption
  PROVE  /\ Codec!Power \in [0 .. Bytes -> Nat] /\ Codec!Power[0] = 1
         /\ \A i \in 1 .. Bytes : Codec!Power[i] = Base * Codec!Power[i - 1]
<1> DEFINE F == [i \in 1 .. Bytes |-> [v \in Nat |-> Base * v]]
           G(g) == [i \in 0 .. Bytes |-> IF i = 0 THEN 1 ELSE Base * g[i - 1]]
<1>1. Bytes \in Nat /\ Base \in Nat
  BY DEF Codec!CodecAssumption
<1>2. \A v \in Nat : Base * v \in Nat
  BY <1>1
<1>3. F \in [1 .. Bytes -> [Nat -> Nat]]
  BY <1>2
<1> HIDE DEF F
<1>4. PICK g : Iterates(g, Bytes, Nat, 1, F)
  <2>1. 1 \in Nat
    OBVIOUS
  <2> QED
    BY <1>1, <1>3, <2>1, IterationExists, Zenon
<1>5. \A i \in 1 .. Bytes : i - 1 \in 0 .. Bytes /\ g[i] = Base * g[i - 1]
  <2>1. \A i \in 1 .. Bytes : i - 1 \in 0 .. Bytes /\ g[i - 1] \in Nat
    BY <1>1, <1>4 DEF Iterates
  <2> QED
    BY <1>4, <2>1 DEF F, Iterates
<1>6. g = G(g)
  <2>1. \A i \in 0 .. Bytes : g[i] = G(g)[i]
    BY <1>1, <1>4, <1>5 DEF Iterates
  <2> QED
    BY <1>4, <2>1 DEF Iterates
<1>7. Codec!Power = G(Codec!Power)
  BY <1>6 DEF Codec!Power
<1>8. \A i \in 0 .. Bytes : Codec!Power[i] = IF i = 0 THEN 1 ELSE Base * Codec!Power[i - 1]
  BY <1>7
<1> DEFINE S == {i \in 0 .. Bytes : Codec!Power[i] \in Nat}
<1>9. \A i \in 0 .. Bytes : i \in S
  <2>1. 0 \in S
    BY <1>1, <1>8
  <2>2. \A i \in 1 .. Bytes : i - 1 \in S => i \in S
    <3> SUFFICES ASSUME NEW i \in 1 .. Bytes, i - 1 \in S PROVE i \in S
      OBVIOUS
    <3>1. i \in 0 .. Bytes /\ i # 0 /\ Codec!Power[i - 1] \in Nat
      BY <1>1
    <3>2. Codec!Power[i] \in Nat
      BY <1>2, <1>8, <3>1
    <3> QED
      BY <3>1, <3>2
  <2> HIDE DEF S
  <2> QED
    BY <1>1, <2>1, <2>2, InductionTo
<1>10. Codec!Power \in [0 .. Bytes -> Nat]
  BY <1>7, <1>9
<1>11. \A i \in 1 .. Bytes : i \in 0 .. Bytes /\ i # 0
  BY <1>1
<1> QED
  BY <1>1, <1>8, <1>10, <1>11

\* Shifted is what its recursion says.
LEMMA ShiftedResult ==
  ASSUME Codec!CodecAssumption, NEW u \in Nat
  PROVE  LET sh == Codec!Shifted(u)
         IN  /\ sh \in [0 .. Bytes -> Nat] /\ sh[0] = u
             /\ \A i \in 1 .. Bytes : sh[i] = sh[i - 1] \div Base
<1> DEFINE F == [i \in 1 .. Bytes |-> [v \in Nat |-> v \div Base]]
           G(g) == [i \in 0 .. Bytes |-> IF i = 0 THEN u ELSE g[i - 1] \div Base]
           sh == Codec!Shifted(u)
<1>1. Bytes \in Nat /\ Base \in Nat /\ Base > 0
  BY DEF Codec!CodecAssumption
<1>2. \A v \in Nat : v \div Base \in Nat
  BY <1>1
<1>3. F \in [1 .. Bytes -> [Nat -> Nat]]
  BY <1>2
<1> HIDE DEF F
<1>4. PICK g : Iterates(g, Bytes, Nat, u, F)
  <2>1. u \in Nat
    OBVIOUS
  <2> QED
    BY <1>1, <1>3, <2>1, IterationExists, Zenon
<1>5. \A i \in 1 .. Bytes : i - 1 \in 0 .. Bytes /\ g[i] = g[i - 1] \div Base
  <2>1. \A i \in 1 .. Bytes : i - 1 \in 0 .. Bytes /\ g[i - 1] \in Nat
    BY <1>1, <1>4 DEF Iterates
  <2> QED
    BY <1>4, <2>1 DEF F, Iterates
<1>6. g = G(g)
  <2>1. \A i \in 0 .. Bytes : g[i] = G(g)[i]
    BY <1>1, <1>4, <1>5 DEF Iterates
  <2> QED
    BY <1>4, <2>1 DEF Iterates
<1>7. sh = G(sh)
  BY <1>6 DEF Codec!Shifted
<1> HIDE DEF sh
<1>8. \A i \in 0 .. Bytes : sh[i] = IF i = 0 THEN u ELSE sh[i - 1] \div Base
  BY <1>7
<1> DEFINE S == {i \in 0 .. Bytes : sh[i] \in Nat}
<1>9. \A i \in 0 .. Bytes : i \in S
  <2>1. 0 \in S
    BY <1>1, <1>8
  <2>2. \A i \in 1 .. Bytes : i - 1 \in S => i \in S
    <3> SUFFICES ASSUME NEW i \in 1 .. Bytes, i - 1 \in S PROVE i \in S
      OBVIOUS
    <3>1. i \in 0 .. Bytes /\ i # 0 /\ sh[i - 1] \in Nat
      BY <1>1
    <3>2. sh[i] \in Nat
      BY <1>2, <1>8, <3>1
    <3> QED
      BY <3>1, <3>2
  <2> HIDE DEF S
  <2> QED
    BY <1>1, <2>1, <2>2, InductionTo
<1>10. sh \in [0 .. Bytes -> Nat]
  BY <1>7, <1>9
<1>11. \A i \in 1 .. Bytes : i \in 0 .. Bytes /\ i # 0
  BY <1>1
<1> QED
  BY <1>1, <1>8, <1>10, <1>11 DEF sh

\* Quotient and remainder.
LEMMA Division ==
  ASSUME NEW a \in Nat, NEW b \in Nat, b > 0
  PROVE  /\ a \div b \in Nat /\ a % b \in 0 .. b - 1
         /\ a = b * (a \div b) + (a % b)
<1> DEFINE q == a \div b
           c == b * q
           r == a % b
<1>1. q \in Nat
  OBVIOUS
<1>2. r \in 0 .. b - 1
  OBVIOUS
<1>3. r = a - c
  OBVIOUS
<1>4. c \in Int
  BY <1>1
<1> HIDE DEF c, r
<1>5. a = c + r
  BY <1>2, <1>3, <1>4
<1>6. a = b * (a \div b) + (a % b)
  BY <1>5, Zenon DEF c, r
<1> QED
  BY <1>1, <1>2, <1>6, Zenon DEF r

\* A product grows with its factor.
LEMMA TimesMonotone ==
  ASSUME NEW a \in Nat, NEW p \in Nat, NEW q \in Nat, p <= q
  PROVE  a * p <= a * q
<1>1. a * q = a * p + a * (q - p)
  OBVIOUS
<1>2. a * (q - p) >= 0
  OBVIOUS
<1>3. a * p \in Int /\ a * q \in Int /\ a * (q - p) \in Int
  OBVIOUS
<1> QED
  BY <1>1, <1>2, <1>3

\* The quotient of a number below a multiple.
LEMMA DivisionBound ==
  ASSUME NEW a \in Nat, NEW b \in Nat, b > 0, NEW p \in Nat, a < b * p
  PROVE  a \div b < p
<1> DEFINE q == a \div b
<1>1. q \in Nat /\ a % b \in 0 .. b - 1 /\ a = b * q + (a % b)
  BY Division
<1> HIDE DEF q
<1>2. ASSUME p <= q PROVE FALSE
  <2> DEFINE c == b * p
             d == b * q
             r == a % b
  <2>1. c <= d
    BY <1>1, <1>2, TimesMonotone
  <2>2. c \in Int /\ d \in Int
    BY <1>1
  <2>3. a < c /\ a = d + r /\ r \in 0 .. b - 1
    BY <1>1, Zenon
  <2> HIDE DEF c, d, r
  <2> QED
    BY <2>1, <2>2, <2>3
<1> QED
  BY <1>1, <1>2 DEF q

\* A quotient grows with its dividend.
LEMMA DivisionMonotone ==
  ASSUME NEW a \in Nat, NEW c \in Nat, NEW b \in Nat, b > 0, a <= c
  PROVE  a \div b <= c \div b
<1> DEFINE q == c \div b
<1>1. q \in Nat /\ c % b \in 0 .. b - 1 /\ c = b * q + (c % b)
  BY Division
<1>2. b * (q + 1) = b * q + b
  BY <1>1
<1> HIDE DEF q
<1>3. b * q \in Int
  BY <1>1
<1>4. a < b * (q + 1)
  BY <1>1, <1>2, <1>3
<1>5. a \div b < q + 1
  BY <1>1, <1>4, DivisionBound
<1>6. a \div b \in Nat
  BY Division
<1> QED
  BY <1>1, <1>5, <1>6 DEF q

\* The unsigned values of a score.
Unsigned == 0 .. Codec!Modulus - 1

\* There are finitely many scores.
LEMMA ModulusType ==
  ASSUME Codec!CodecAssumption
  PROVE  Codec!Modulus \in Nat
<1>1. Bytes \in 0 .. Bytes
  BY DEF Codec!CodecAssumption
<1> QED
  BY <1>1, PowerResult DEF Codec!Modulus

\* Nothing is left of a value after all of its bytes.
LEMMA ShiftedOut ==
  ASSUME Codec!CodecAssumption, NEW u \in Unsigned
  PROVE  Codec!Shifted(u)[Bytes] = 0
<1> DEFINE sh == Codec!Shifted(u)
           S == {i \in 0 .. Bytes : sh[i] < Codec!Power[Bytes - i]}
<1>1. Bytes \in Nat /\ Base \in Nat /\ Base > 0
  BY DEF Codec!CodecAssumption
<1>2. u \in Nat
  BY ModulusType DEF Unsigned
<1>3. sh \in [0 .. Bytes -> Nat] /\ sh[0] = u /\ \A i \in 1 .. Bytes : sh[i] = sh[i - 1] \div Base
  BY <1>2, ShiftedResult
<1> HIDE DEF sh
<1>4. 0 \in S
  BY <1>1, <1>3, ModulusType DEF Codec!Modulus, Unsigned
<1>5. ASSUME NEW i \in 1 .. Bytes, i - 1 \in S PROVE i \in S
  <2> DEFINE p == Codec!Power[Bytes - i]
             a == sh[i - 1]
  <2>1. a < Codec!Power[Bytes - (i - 1)]
    BY <1>5
  <2>2. Bytes - (i - 1) \in 1 .. Bytes /\ Bytes - (i - 1) - 1 = Bytes - i /\ Bytes - i \in 0 .. Bytes
        /\ i - 1 \in 0 .. Bytes /\ i \in 0 .. Bytes
    BY <1>1
  <2>3. Codec!Power[Bytes - (i - 1)] = Base * p /\ p \in Nat /\ a \in Nat
    BY <1>3, <2>2, PowerResult
  <2> HIDE DEF p, a
  <2>4. a \div Base < p
    BY <1>1, <2>1, <2>3, DivisionBound
  <2>5. sh[i] = a \div Base
    BY <1>3 DEF a
  <2> QED
    BY <2>2, <2>4, <2>5 DEF p
<1> HIDE DEF S
<1>6. \A i \in 0 .. Bytes : i \in S
  BY <1>1, <1>4, <1>5, InductionTo
<1>7. Bytes \in S /\ Bytes \in 0 .. Bytes
  BY <1>1, <1>6
<1>8. sh[Bytes] < Codec!Power[Bytes - Bytes] /\ sh[Bytes] \in Nat
  BY <1>3, <1>7 DEF S
<1>9. Codec!Power[Bytes - Bytes] = 1
  BY <1>1, PowerResult
<1> QED
  BY <1>8, <1>9 DEF sh

\* Dropping bytes keeps the order of two values.
LEMMA ShiftedMonotone ==
  ASSUME Codec!CodecAssumption, NEW u \in Nat, NEW v \in Nat, u <= v
  PROVE  \A i \in 0 .. Bytes : Codec!Shifted(u)[i] <= Codec!Shifted(v)[i]
<1> DEFINE a == Codec!Shifted(u)
           b == Codec!Shifted(v)
           S == {i \in 0 .. Bytes : a[i] <= b[i]}
<1>1. Bytes \in Nat /\ Base \in Nat /\ Base > 0
  BY DEF Codec!CodecAssumption
<1>2. a \in [0 .. Bytes -> Nat] /\ a[0] = u /\ \A i \in 1 .. Bytes : a[i] = a[i - 1] \div Base
  BY ShiftedResult
<1>3. b \in [0 .. Bytes -> Nat] /\ b[0] = v /\ \A i \in 1 .. Bytes : b[i] = b[i - 1] \div Base
  BY ShiftedResult
<1> HIDE DEF a, b
<1>4. 0 \in S
  BY <1>1, <1>2, <1>3
<1>5. ASSUME NEW i \in 1 .. Bytes, i - 1 \in S PROVE i \in S
  <2>1. i \in 0 .. Bytes /\ i - 1 \in 0 .. Bytes /\ a[i - 1] <= b[i - 1]
    BY <1>1, <1>5
  <2>2. a[i - 1] \in Nat /\ b[i - 1] \in Nat
    BY <1>2, <1>3, <2>1
  <2>3. a[i - 1] \div Base <= b[i - 1] \div Base
    BY <1>1, <2>1, <2>2, DivisionMonotone
  <2>4. a[i] <= b[i]
    BY <1>2, <1>3, <2>3
  <2> QED
    BY <2>1, <2>4
<1> HIDE DEF S
<1>6. \A i \in 0 .. Bytes : i \in S
  BY <1>1, <1>4, <1>5, InductionTo
<1> QED
  BY <1>6 DEF S, a, b

\* big_endian of an unsigned value.
Digits(u) == [i \in 1 .. Bytes |-> Codec!Shifted(u)[Bytes - i] % Base]

\* As many bytes as a score has, each of them a byte.
LEMMA DigitsType ==
  ASSUME Codec!CodecAssumption, NEW u \in Unsigned
  PROVE  /\ Digits(u) \in Seq(Int) /\ Len(Digits(u)) = Bytes /\ Bytes \in Nat
         /\ \A i \in 1 .. Bytes : /\ Codec!Shifted(u)[Bytes - i] \in Nat
                                  /\ Digits(u)[i] = Codec!Shifted(u)[Bytes - i] % Base
                                  /\ Digits(u)[i] \in Codec!Byte
<1> DEFINE sh == Codec!Shifted(u)
<1>1. Bytes \in Nat /\ Base \in Nat /\ Base > 0
  BY DEF Codec!CodecAssumption
<1>2. sh \in [0 .. Bytes -> Nat]
  BY ModulusType, ShiftedResult DEF Unsigned
<1> HIDE DEF sh
<1>3. \A i \in 1 .. Bytes : Bytes - i \in 0 .. Bytes /\ sh[Bytes - i] \in Nat
  BY <1>1, <1>2
<1>4. \A i \in 1 .. Bytes : sh[Bytes - i] % Base \in Codec!Byte
  BY <1>1, <1>3, Division DEF Codec!Byte
<1>5. Codec!Byte \subseteq Int
  BY DEF Codec!Byte
<1>6. Digits(u) = [i \in 1 .. Bytes |-> sh[Bytes - i] % Base]
  BY DEF Digits, sh
<1>7. Digits(u) \in [1 .. Bytes -> Int]
  BY <1>4, <1>5, <1>6
<1>8. Digits(u) \in Seq(Int) /\ Len(Digits(u)) = Bytes
  BY <1>1, <1>7
<1> QED
  BY <1>1, <1>3, <1>4, <1>6, <1>8 DEF sh

(***************************************************************************)
(* The bytes of a smaller value come first: look at the lowest byte from   *)
(* which on upwards the two values are the same.                           *)
(***************************************************************************)
LEMMA DigitsOrder ==
  ASSUME Codec!CodecAssumption, NEW u \in Unsigned, NEW v \in Unsigned, u < v
  PROVE  \E n \in 0 .. Bytes - 1 : /\ \A i \in 1 .. n : Digits(u)[i] = Digits(v)[i]
                                   /\ Digits(u)[n + 1] < Digits(v)[n + 1]
<1> DEFINE a == Codec!Shifted(u)
           b == Codec!Shifted(v)
           T == {k \in 0 .. Bytes : \A j \in k .. Bytes : a[j] = b[j]}
<1>1. Bytes \in Nat /\ Base \in Nat /\ Base > 0
  BY DEF Codec!CodecAssumption
<1>2. u \in Nat /\ v \in Nat
  BY ModulusType DEF Unsigned
<1>3. /\ a \in [0 .. Bytes -> Nat] /\ a[0] = u /\ \A i \in 1 .. Bytes : a[i] = a[i - 1] \div Base
      /\ b \in [0 .. Bytes -> Nat] /\ b[0] = v /\ \A i \in 1 .. Bytes : b[i] = b[i - 1] \div Base
  BY <1>2, ShiftedResult
<1>4. a[Bytes] = b[Bytes]
  BY ShiftedOut
<1>5. \A i \in 0 .. Bytes : a[i] <= b[i]
  BY <1>2, ShiftedMonotone
<1>6. \A i \in 1 .. Bytes : Digits(u)[i] = a[Bytes - i] % Base /\ Digits(v)[i] = b[Bytes - i] % Base
  BY DigitsType
<1> HIDE DEF a, b
<1>7. Bytes \in T /\ 0 \notin T
  BY <1>1, <1>2, <1>3, <1>4
<1>8. PICK k \in T : \A m \in T : k <= m
  <2>1. T \in SUBSET Nat
    OBVIOUS
  <2> HIDE DEF T
  <2> QED
    BY <1>7, <2>1, NatMin
<1>9. k \in 1 .. Bytes /\ \A j \in k .. Bytes : a[j] = b[j]
  BY <1>1, <1>7, <1>8
<1>10. k - 1 \in 0 .. Bytes /\ k - 1 \notin T
  <2> HIDE DEF T
  <2> QED
    BY <1>1, <1>8, <1>9
<1>11. a[k - 1] # b[k - 1]
  BY <1>1, <1>9, <1>10
<1> DEFINE c == a[k - 1]
           d == b[k - 1]
<1>12. c \in Nat /\ d \in Nat /\ c < d
  BY <1>3, <1>5, <1>10, <1>11
<1>13. c \div Base = d \div Base
  <2>1. k \in k .. Bytes /\ a[k] = b[k]
    BY <1>1, <1>9
  <2> QED
    BY <1>3, <1>9, <2>1
<1> HIDE DEF c, d
<1>14. c % Base < d % Base
  <2> DEFINE e == Base * (c \div Base)
             r == c % Base
             s == d % Base
  <2>1. c = e + r /\ r \in Int /\ c \div Base \in Nat
    BY <1>1, <1>12, Division
  <2>2. d = e + s /\ s \in Int
    BY <1>1, <1>12, <1>13, Division
  <2>3. e \in Int
    BY <1>1, <2>1
  <2> HIDE DEF e, r, s
  <2>4. r < s
    BY <1>12, <2>1, <2>2, <2>3
  <2> QED
    BY <2>4 DEF r, s
<1> DEFINE n == Bytes - k
<1>15. n \in 0 .. Bytes - 1 /\ n + 1 \in 1 .. Bytes /\ Bytes - (n + 1) = k - 1
  BY <1>1, <1>9
<1>16. \A i \in 1 .. n : i \in 1 .. Bytes /\ Bytes - i \in k .. Bytes
  BY <1>1, <1>9
<1>17. \A i \in 1 .. n : Digits(u)[i] = Digits(v)[i]
  BY <1>6, <1>9, <1>16
<1>18. Digits(u)[n + 1] < Digits(v)[n + 1]
  BY <1>6, <1>14, <1>15 DEF c, d
<1> HIDE DEF n
<1> QED
  BY <1>15, <1>17, <1>18

\* Reading the bytes gives the value back.
LEMMA JoinedDigits ==
  ASSUME Codec!CodecAssumption, NEW u \in Unsigned
  PROVE  Codec!Joined(Digits(u))[Bytes] = u
<1> DEFINE b == Digits(u)
           sh == Codec!Shifted(u)
           F == [i \in 1 .. Bytes |-> [v \in Nat |-> v * Base + b[i]]]
           G(g) == [i \in 0 .. Bytes |-> IF i = 0 THEN 0 ELSE g[i - 1] * Base + b[i]]
           w == Codec!Joined(b)
           S == {i \in 0 .. Bytes : w[i] = sh[Bytes - i]}
<1>1. Bytes \in Nat /\ Base \in Nat /\ Base > 0
  BY DEF Codec!CodecAssumption
<1>2. \A i \in 1 .. Bytes : b[i] \in Nat
  BY <1>1, DigitsType DEF Codec!Byte
<1>3. /\ sh \in [0 .. Bytes -> Nat] /\ sh[0] = u /\ \A i \in 1 .. Bytes : sh[i] = sh[i - 1] \div Base
      /\ sh[Bytes] = 0
  BY ModulusType, ShiftedResult, ShiftedOut DEF Unsigned
<1>4. \A i \in 1 .. Bytes : b[i] = sh[Bytes - i] % Base
  BY DigitsType
<1> HIDE DEF b, sh
<1>5. \A v \in Nat, i \in 1 .. Bytes : v * Base + b[i] \in Nat
  BY <1>1, <1>2
<1>6. F \in [1 .. Bytes -> [Nat -> Nat]]
  BY <1>5
<1> HIDE DEF F
<1>7. PICK g : Iterates(g, Bytes, Nat, 0, F)
  <2>1. 0 \in Nat
    OBVIOUS
  <2> QED
    BY <1>1, <1>6, <2>1, IterationExists, Zenon
<1>8. \A i \in 1 .. Bytes : i - 1 \in 0 .. Bytes /\ g[i] = g[i - 1] * Base + b[i]
  <2>1. \A i \in 1 .. Bytes : i - 1 \in 0 .. Bytes /\ g[i - 1] \in Nat
    BY <1>1, <1>7 DEF Iterates
  <2> QED
    BY <1>7, <2>1 DEF F, Iterates
<1>9. g = G(g)
  <2>1. \A i \in 0 .. Bytes : g[i] = G(g)[i]
    BY <1>1, <1>7, <1>8 DEF Iterates
  <2> QED
    BY <1>7, <2>1 DEF Iterates
<1>10. w = G(w)
  BY <1>9 DEF Codec!Joined
<1> HIDE DEF w
<1>11. \A i \in 0 .. Bytes : w[i] = IF i = 0 THEN 0 ELSE w[i - 1] * Base + b[i]
  BY <1>10
<1>12. 0 \in S
  BY <1>1, <1>3, <1>11
<1>13. ASSUME NEW i \in 1 .. Bytes, i - 1 \in S PROVE i \in S
  <2> DEFINE k == Bytes - i
             c == sh[k]
  <2>1. k \in 0 .. Bytes /\ k + 1 \in 1 .. Bytes /\ Bytes - (i - 1) = k + 1 /\ k + 1 - 1 = k /\ i \in 0 .. Bytes
    BY <1>1
  <2>2. w[i - 1] = sh[k + 1]
    BY <1>13, <2>1
  <2>3. sh[k + 1] = c \div Base /\ c \in Nat
    BY <1>3, <2>1
  <2>4. w[i] = w[i - 1] * Base + b[i] /\ b[i] = c % Base
    BY <1>4, <1>11, <2>1
  <2> HIDE DEF c
  <2>5. c = Base * (c \div Base) + (c % Base) /\ c \div Base \in Nat
    BY <1>1, <2>3, Division
  <2>6. Base * (c \div Base) = (c \div Base) * Base
    BY <1>1, <2>5
  <2>7. w[i] = c
    BY <2>2, <2>3, <2>4, <2>5, <2>6, Zenon
  <2> QED
    BY <2>1, <2>7 DEF c
<1> HIDE DEF S
<1>14. \A i \in 0 .. Bytes : i \in S
  BY <1>1, <1>12, <1>13, InductionTo
<1>15. Bytes \in S
  BY <1>1, <1>14
<1>16. w[Bytes] = sh[0]
  BY <1>1, <1>15 DEF S
<1> QED
  BY <1>3, <1>16 DEF w, b

\* There are scores of both signs.
LEMMA ModulusSize ==
  ASSUME Codec!CodecAssumption
  PROVE  Codec!Modulus \in Nat /\ Codec!Modulus >= 4
<1> DEFINE S == {i \in 0 .. Bytes : Codec!Power[i] >= 1}
<1>1. Bytes \in Nat /\ Bytes # 0 /\ Base \in Nat /\ Base >= 4
  BY DEF Codec!CodecAssumption
<1>2. 0 \in S
  BY <1>1, PowerResult
<1>3. ASSUME NEW i \in 1 .. Bytes, i - 1 \in S PROVE i \in S
  <2> DEFINE p == Codec!Power[i - 1]
  <2>1. i \in 0 .. Bytes /\ i - 1 \in 0 .. Bytes /\ p \in Nat /\ p >= 1 /\ Codec!Power[i] = Base * p
    BY <1>1, <1>3, PowerResult
  <2> HIDE DEF p
  <2>2. Base * 1 <= Base * p /\ Base * p \in Nat
    BY <1>1, <2>1, TimesMonotone
  <2> QED
    BY <1>1, <2>1, <2>2
<1> HIDE DEF S
<1>4. \A i \in 0 .. Bytes : i \in S
  BY <1>1, <1>2, <1>3, InductionTo
<1> DEFINE p == Codec!Power[Bytes - 1]
<1>5. p \in Nat /\ p >= 1 /\ Codec!Modulus = Base * p
  BY <1>1, <1>4, PowerResult DEF S, Codec!Modulus
<1> HIDE DEF p
<1>6. Base * 1 <= Base * p /\ Base * p \in Nat
  BY <1>1, <1>5, TimesMonotone
<1> QED
  BY <1>1, <1>5, <1>6

\* The deadlines an int64_t may hold.
Scorable == (-(Codec!Modulus \div 2)) .. Codec!ScoreMax

\* A score as an unsigned value: the negative ones come after the others.
LEMMA ScoreUnsigned ==
  ASSUME Codec!CodecAssumption, NEW s \in Scorable
  PROVE  /\ s \in Int /\ Codec!ScoreMax \in Nat /\ Codec!ScoreMax < Codec!Modulus
         /\ s % Codec!Modulus \in Unsigned
         /\ s >= 0 => s % Codec!Modulus = s
         /\ s < 0 => s % Codec!Modulus > Codec!ScoreMax
<1> DEFINE M == Codec!Modulus
           h == M \div 2
<1>1. M \in Nat /\ M >= 4
  BY ModulusSize
<1>2. Codec!ScoreMax = h - 1
  BY DEF Codec!ScoreMax
<1> HIDE DEF M
<1>3. h \in Nat /\ h >= 1 /\ 2 * h <= M
  BY <1>1
<1> HIDE DEF h
<1>4. s \in Int /\ -h <= s /\ s <= h - 1
  BY <1>2, <1>3 DEF Scorable, M, h
<1>5. ASSUME s >= 0 PROVE s % M = s
  <2>1. s \in Nat /\ s < M
    BY <1>1, <1>3, <1>4, <1>5
  <2> QED
    BY <1>1, <2>1
<1>6. ASSUME s < 0 PROVE s % M = s + M
  <2>1. -M < s
    BY <1>1, <1>3, <1>4
  <2> QED
    BY <1>1, <1>4, <1>6, <2>1
<1>7. s % M \in 0 .. M - 1
  BY <1>1, <1>3, <1>4, <1>5, <1>6
<1>8. s < 0 => s % M > h - 1
  BY <1>1, <1>3, <1>4, <1>6
<1>9. h - 1 \in Nat /\ h - 1 < M
  BY <1>1, <1>3
<1> QED
  BY <1>2, <1>4, <1>5, <1>7, <1>8, <1>9 DEF Unsigned, M
-----------------------------------------------------------------------------
(* The rows.                                                               *)

\* Names, and what the rows are put together from.
LEMMA NamesType ==
  ASSUME Codec!CodecAssumption
  PROVE  /\ Names \subseteq Seq(Int) /\ Members \subseteq Seq(Int) /\ ExpireKey \in Seq(Int)
         /\ KV \in Int /\ ZSET \in Int /\ ZSCORE \in Int /\ Colon \in Int /\ Base \in Nat
         /\ KV < ZSET /\ ZSET < ZSCORE
         /\ IsFiniteSet(Names \cup Members)
<1>1. Codec!Byte \subseteq Int
  BY DEF Codec!Byte
<1>2. ASSUME NEW s \in Seq(Codec!Byte) PROVE s \in Seq(Int)
  <2>1. Len(s) \in Nat /\ s \in [1 .. Len(s) -> Codec!Byte]
    BY <1>2
  <2>2. s \in [1 .. Len(s) -> Int]
    BY <1>1, <2>1
  <2> QED
    BY <2>1, <2>2
<1>3. Names \subseteq Seq(Int) /\ Members \subseteq Seq(Int) /\ ExpireKey \in Seq(Int)
  BY <1>2 DEF Codec!CodecAssumption
<1>4. KV \in Int /\ ZSET \in Int /\ ZSCORE \in Int /\ Colon \in Int /\ Base \in Nat
  BY <1>1 DEF Codec!CodecAssumption
<1>5. KV < ZSET /\ ZSET < ZSCORE
  BY DEF Codec!CodecAssumption
<1>6. IsFiniteSet(Names \cup Members)
  BY SameCodecSets DEF Codec!CodecAssumption
<1> QED
  BY <1>3, <1>4, <1>5, <1>6

\* The row of a value.
LEMMA StringRow ==
  ASSUME Codec!CodecAssumption, NEW k \in Seq(Int)
  PROVE  LET r == Codec!EncodeString(k)
         IN  /\ r \in Seq(Int) /\ Len(r) = 1 + Len(k) /\ r[1] = KV
             /\ \A i \in 1 .. Len(k) : r[1 + i] = k[i]
             /\ Codec!DecodeString(r) = k
<1> DEFINE r == Codec!EncodeString(k)
<1>1. KV \in Int
  BY NamesType
<1>2. r \in Seq(Int) /\ Len(r) = 1 + Len(k) /\ r[1] = KV /\ \A i \in 1 .. Len(k) : r[1 + i] = k[i]
  BY <1>1 DEF Codec!EncodeString
<1> HIDE DEF r
<1>3. Tail(r) = k
  <2>1. r # <<>> /\ Tail(r) \in Seq(Int) /\ Len(Tail(r)) = Len(k)
    BY <1>2
  <2>2. \A i \in 1 .. Len(k) : Tail(r)[i] = k[i]
    BY <1>2, <2>1
  <2> QED
    BY <2>1, <2>2, SeqEqual
<1> QED
  BY <1>2, <1>3 DEF r, Codec!DecodeString

\* The row of a member's deadline.
LEMMA ZsetRow ==
  ASSUME Codec!CodecAssumption, NEW m \in Seq(Int)
  PROVE  LET r == Codec!EncodeZset(m)
             e == Len(ExpireKey)
         IN  /\ r \in Seq(Int) /\ Len(r) = 3 + e + Len(m) /\ r[1] = ZSET
             /\ \A i \in 1 .. Len(m) : r[3 + e + i] = m[i]
<1> DEFINE e == Len(ExpireKey)
           l == Len(m) % Base
<1>1. ExpireKey \in Seq(Int) /\ ZSET \in Int /\ e \in Nat
  BY NamesType
<1>2. l \in Int
  BY DEF Codec!CodecAssumption
<1>3. Codec!EncodeZset(m) = <<ZSET, e>> \o ExpireKey \o <<l>> \o m
  BY DEF Codec!EncodeZset
<1> HIDE DEF l
<1> QED
  BY <1>1, <1>2, <1>3, SMTT(30)

\* The two parts of a concatenation.
LEMMA ConcatParts ==
  ASSUME NEW a \in Seq(Int), NEW b \in Seq(Int)
  PROVE  /\ a \o b \in Seq(Int) /\ Len(a \o b) = Len(a) + Len(b)
         /\ \A i \in 1 .. Len(a) : (a \o b)[i] = a[i]
         /\ \A i \in 1 .. Len(b) : (a \o b)[Len(a) + i] = b[i]
OBVIOUS

\* What all rows of the index begin with.
IndexPrefix == <<ZSCORE, Len(ExpireKey)>> \o ExpireKey

\* The row of a member in the index, for the score whose unsigned value is u.
LEMMA ZscoreRow ==
  ASSUME Codec!CodecAssumption, NEW m \in Seq(Int), NEW s \in Scorable
  PROVE  LET r == Codec!EncodeZscore(m, s)
             p == 2 + Len(ExpireKey)
         IN  /\ r \in Seq(Int) /\ p \in Nat /\ Bytes \in Nat /\ Len(r) = p + Bytes + 1 + Len(m)
             /\ r[1] = ZSCORE /\ \A i \in 1 .. p : r[i] = IndexPrefix[i]
             /\ \A i \in 1 .. Bytes : r[p + i] = Digits(s % Codec!Modulus)[i]
             /\ r[p + Bytes + 1] = Colon
             /\ \A i \in 1 .. Len(m) : r[p + Bytes + 1 + i] = m[i]
<1> DEFINE e == Len(ExpireKey)
           b == Codec!encode_score(s)
           p == 2 + e
           r == IndexPrefix \o b \o <<Colon>> \o m
<1>1. ExpireKey \in Seq(Int) /\ ZSCORE \in Int /\ e \in Nat /\ Colon \in Int
  BY NamesType
<1>2. s % Codec!Modulus \in Unsigned
  BY ScoreUnsigned
<1>3. b = Digits(s % Codec!Modulus)
  BY DEF Codec!encode_score, Digits
<1>4. b \in Seq(Int) /\ Len(b) = Bytes /\ Bytes \in Nat
  BY <1>2, <1>3, DigitsType
<1>5. IndexPrefix \in Seq(Int) /\ Len(IndexPrefix) = p /\ IndexPrefix[1] = ZSCORE /\ p \in Nat /\ p >= 1
  BY <1>1 DEF IndexPrefix
<1>6. Codec!EncodeZscore(m, s) = r
  BY DEF Codec!EncodeZscore, IndexPrefix
<1> HIDE DEF b, p
<1> DEFINE t == IndexPrefix \o b
           w == t \o <<Colon>>
<1>7. /\ t \in Seq(Int) /\ Len(t) = p + Bytes
      /\ \A i \in 1 .. p : t[i] = IndexPrefix[i]
      /\ \A i \in 1 .. Bytes : t[p + i] = b[i]
  <2>1. /\ t \in Seq(Int) /\ Len(t) = Len(IndexPrefix) + Len(b)
        /\ \A i \in 1 .. Len(IndexPrefix) : t[i] = IndexPrefix[i]
        /\ \A i \in 1 .. Len(b) : t[Len(IndexPrefix) + i] = b[i]
    BY <1>4, <1>5, ConcatParts, Zenon
  <2> HIDE DEF t
  <2> QED
    BY <1>4, <1>5, <2>1
<1> HIDE DEF t
<1>8. /\ w \in Seq(Int) /\ Len(w) = p + Bytes + 1 /\ w[p + Bytes + 1] = Colon
      /\ \A i \in 1 .. p + Bytes : w[i] = t[i]
  <2> DEFINE c == <<Colon>>
  <2>1. c \in Seq(Int) /\ Len(c) = 1 /\ c[1] = Colon
    BY <1>1
  <2> HIDE DEF c
  <2>2. w = t \o c
    BY DEF c
  <2> HIDE DEF w
  <2>3. /\ w \in Seq(Int) /\ Len(w) = Len(t) + Len(c)
        /\ \A i \in 1 .. Len(t) : w[i] = t[i]
        /\ \A i \in 1 .. Len(c) : w[Len(t) + i] = c[i]
    BY <1>7, <2>1, <2>2, ConcatParts, Zenon
  <2> QED
    BY <1>4, <1>5, <1>7, <2>1, <2>3
<1> HIDE DEF w
<1>9. r = w \o m
  BY DEF t, w
<1> HIDE DEF r
<1>10. /\ r \in Seq(Int) /\ Len(r) = p + Bytes + 1 + Len(m)
       /\ \A i \in 1 .. p + Bytes + 1 : r[i] = w[i]
       /\ \A i \in 1 .. Len(m) : r[p + Bytes + 1 + i] = m[i]
  <2>1. /\ r \in Seq(Int) /\ Len(r) = Len(w) + Len(m)
        /\ \A i \in 1 .. Len(w) : r[i] = w[i]
        /\ \A i \in 1 .. Len(m) : r[Len(w) + i] = m[i]
    BY <1>8, <1>9, ConcatParts, Zenon
  <2> QED
    BY <1>4, <1>5, <1>8, <2>1
<1>11. /\ \A i \in 1 .. p : r[i] = IndexPrefix[i]
       /\ \A i \in 1 .. Bytes : r[p + i] = b[i]
       /\ r[p + Bytes + 1] = Colon
  <2>1. ASSUME NEW i \in 1 .. p + Bytes PROVE r[i] = t[i]
    <3>1. i \in 1 .. p + Bytes + 1
      BY <1>4, <1>5
    <3> QED
      BY <1>8, <1>10, <3>1
  <2>2. ASSUME NEW i \in 1 .. p PROVE r[i] = IndexPrefix[i]
    <3>1. i \in 1 .. p + Bytes
      BY <1>4, <1>5
    <3> QED
      BY <1>7, <2>1, <3>1
  <2>3. ASSUME NEW i \in 1 .. Bytes PROVE r[p + i] = b[i]
    <3>1. p + i \in 1 .. p + Bytes
      BY <1>4, <1>5
    <3> QED
      BY <1>7, <2>1, <3>1
  <2>4. p + Bytes + 1 \in 1 .. p + Bytes + 1
    BY <1>4, <1>5
  <2> QED
    BY <1>8, <1>10, <2>2, <2>3, <2>4
<1>12. r[1] = ZSCORE
  BY <1>5, <1>11
<1> QED
  BY <1>3, <1>4, <1>5, <1>6, <1>10, <1>11, <1>12 DEF p

\* No two rows are the same.
LEMMA RowsApart ==
  ASSUME Codec!CodecAssumption
  PROVE  /\ \A k, l \in Names : Codec!EncodeString(k) = Codec!EncodeString(l) => k = l
         /\ \A k \in Names, m \in Members : Codec!EncodeString(k) # Codec!EncodeZset(m)
         /\ \A k \in Names, m \in Members, s \in Scorable :
              Codec!EncodeString(k) # Codec!EncodeZscore(m, s)
         /\ \A m, n \in Members : Codec!EncodeZset(m) = Codec!EncodeZset(n) => m = n
         /\ \A m, n \in Members, s \in Scorable : Codec!EncodeZset(m) # Codec!EncodeZscore(n, s)
         /\ \A m, n \in Members, s, t \in Scorable :
              Codec!EncodeZscore(m, s) = Codec!EncodeZscore(n, t) => m = n
<1> DEFINE e == Len(ExpireKey)
<1>1. /\ Names \subseteq Seq(Int) /\ Members \subseteq Seq(Int) /\ e \in Nat
      /\ KV # ZSET /\ KV # ZSCORE /\ ZSET # ZSCORE
  BY NamesType
<1>2. \A k, l \in Names : Codec!EncodeString(k) = Codec!EncodeString(l) => k = l
  BY <1>1, StringRow
<1>3. ASSUME NEW m \in Members, NEW n \in Members, Codec!EncodeZset(m) = Codec!EncodeZset(n)
      PROVE  m = n
  <2>1. m \in Seq(Int) /\ n \in Seq(Int)
    BY <1>1
  <2> DEFINE r == Codec!EncodeZset(m)
  <2>2. Len(r) = 3 + e + Len(m) /\ \A i \in 1 .. Len(m) : r[3 + e + i] = m[i]
    BY <2>1, ZsetRow
  <2>3. Len(r) = 3 + e + Len(n) /\ \A i \in 1 .. Len(n) : r[3 + e + i] = n[i]
    BY <1>3, <2>1, ZsetRow, ZenonT(30)
  <2> HIDE DEF r
  <2>4. Len(m) = Len(n) /\ \A i \in 1 .. Len(m) : m[i] = n[i]
    BY <1>1, <2>1, <2>2, <2>3
  <2> QED
    BY <2>1, <2>4, SeqEqual
<1>4. ASSUME NEW m \in Members, NEW n \in Members, NEW s \in Scorable, NEW t \in Scorable,
             Codec!EncodeZscore(m, s) = Codec!EncodeZscore(n, t)
      PROVE  m = n
  <2>1. m \in Seq(Int) /\ n \in Seq(Int)
    BY <1>1
  <2> DEFINE r == Codec!EncodeZscore(m, s)
             q == Codec!EncodeZscore(n, t)
             p == 2 + e
  <2>2. /\ p \in Nat /\ Bytes \in Nat /\ Len(r) = p + Bytes + 1 + Len(m)
        /\ \A i \in 1 .. Len(m) : r[p + Bytes + 1 + i] = m[i]
    BY <2>1, ZscoreRow, Zenon
  <2>3. /\ Len(q) = p + Bytes + 1 + Len(n)
        /\ \A i \in 1 .. Len(n) : q[p + Bytes + 1 + i] = n[i]
    BY <2>1, ZscoreRow, Zenon
  <2>4. r = q
    BY <1>4
  <2> HIDE DEF r, p, q
  <2>5. Len(m) = Len(n) /\ \A i \in 1 .. Len(m) : m[i] = n[i]
    BY <2>1, <2>2, <2>3, <2>4
  <2> QED
    BY <2>1, <2>5, SeqEqual
<1>5. /\ \A k \in Names : Codec!EncodeString(k)[1] = KV
      /\ \A m \in Members : Codec!EncodeZset(m)[1] = ZSET
      /\ \A m \in Members, s \in Scorable : Codec!EncodeZscore(m, s)[1] = ZSCORE
  BY <1>1, StringRow, ZsetRow, ZscoreRow
<1>6. /\ \A k \in Names, m \in Members : Codec!EncodeString(k) # Codec!EncodeZset(m)
      /\ \A k \in Names, m \in Members, s \in Scorable :
           Codec!EncodeString(k) # Codec!EncodeZscore(m, s)
      /\ \A m, n \in Members, s \in Scorable : Codec!EncodeZset(m) # Codec!EncodeZscore(n, s)
  BY <1>1, <1>5, Zenon
<1> QED
  BY <1>2, <1>3, <1>4, <1>6

\* The members with a deadline, and the rows there are for keys K and deadlines d.
Dated(d) == {m \in Members : d[m] # Codec!None}

RowsOf(K, d) ==
  {Codec!EncodeString(k) : k \in K} \cup {Codec!EncodeZset(m) : m \in Dated(d)}
    \cup {Codec!EncodeZscore(m, d[m][1]) : m \in Dated(d)}

(***************************************************************************)
(* The table has the rows of the keys with a value, of the deadlines and   *)
(* of their index, and no other.                                           *)
(***************************************************************************)
TableInv ==
  /\ CodecInv
  /\ stored \subseteq Names
  /\ DOMAIN table = RowsOf(stored, deadline)

\* What Put and Delete do to the set of rows.
LEMMA PutDeleteRows ==
  ASSUME NEW t, NEW r, NEW v
  PROVE  /\ DOMAIN Codec!Put(t, r, v) = DOMAIN t \cup {r}
         /\ DOMAIN Codec!Delete(t, r) = DOMAIN t \ {r}
BY DEF Codec!Put, Codec!Delete

\* The rows without the index row of a member.
LEMMA UnindexedRows ==
  ASSUME Codec!CodecAssumption, TableInv, NEW m \in Members
  PROVE  DOMAIN Codec!Unindexed(m, deadline[m]) =
           {Codec!EncodeString(k) : k \in stored} \cup {Codec!EncodeZset(n) : n \in Dated(deadline)}
             \cup {Codec!EncodeZscore(n, deadline[n][1]) : n \in Dated(deadline) \ {m}}
<1> DEFINE K == {Codec!EncodeString(k) : k \in stored}
           Z == {Codec!EncodeZset(n) : n \in Dated(deadline)}
           X == {Codec!EncodeZscore(n, deadline[n][1]) : n \in Dated(deadline)}
           Y == {Codec!EncodeZscore(n, deadline[n][1]) : n \in Dated(deadline) \ {m}}
           old == deadline[m]
<1>1. DOMAIN table = K \cup Z \cup X
  BY DEF TableInv, RowsOf
<1>2. CASE old = Codec!None
  <2>1. m \notin Dated(deadline)
    BY <1>2 DEF Dated
  <2>2. X = Y
    BY <2>1
  <2> HIDE DEF K, Z, X, Y
  <2>3. DOMAIN Codec!Unindexed(m, old) = K \cup Z \cup X
    BY <1>1, <1>2 DEF Codec!Unindexed
  <2> QED
    BY <2>2, <2>3 DEF K, Z, Y
<1>3. CASE old # Codec!None
  <2> DEFINE r == Codec!EncodeZscore(m, old[1])
  <2>1. m \in Dated(deadline) /\ stored \subseteq Names
    BY <1>3 DEF Dated, TableInv
  <2>2. \A n \in Dated(deadline) : n \in Members /\ deadline[n][1] \in Scorable
    BY DEF TableInv, CodecInv, Dated, Codec!CodecAssumption, Scorable
  <2>3. r \notin K /\ r \notin Z
    BY <2>1, <2>2, RowsApart
  <2>4. r \notin Y
    BY <2>1, <2>2, RowsApart
  <2>5. X = Y \cup {r}
    BY <2>1
  <2>6. DOMAIN Codec!Unindexed(m, old) = DOMAIN table \ {r}
    BY <1>3, PutDeleteRows DEF Codec!Unindexed
  <2> HIDE DEF K, Z, X, Y, r
  <2>7. DOMAIN Codec!Unindexed(m, old) = K \cup Z \cup Y
    BY <1>1, <2>3, <2>4, <2>5, <2>6
  <2> QED
    BY <2>7 DEF K, Z, Y
<1> QED
  BY <1>2, <1>3

\* Every call leaves the rows of the keys and deadlines that it leaves.
LEMMA NextTableInv ==
  ASSUME Codec!CodecAssumption, TableInv, [Codec!Next]_(Codec!vars)
  PROVE  TableInv'
<1> DEFINE K == {Codec!EncodeString(k) : k \in stored}
           Z == {Codec!EncodeZset(n) : n \in Dated(deadline)}
           X == {Codec!EncodeZscore(n, deadline[n][1]) : n \in Dated(deadline)}
<1>1. CodecInv'
  BY NextCodecInv DEF TableInv
<1>2. stored \subseteq Names /\ DOMAIN table = K \cup Z \cup X
  BY DEF TableInv, RowsOf
<1>3. \A n \in Dated(deadline) : n \in Members /\ deadline[n][1] \in Scorable
  BY DEF TableInv, CodecInv, Dated, Codec!CodecAssumption, Scorable
<1>4. SUFFICES stored' \subseteq Names /\ DOMAIN table' = RowsOf(stored', deadline')
  BY <1>1 DEF TableInv
<1>5. ASSUME NEW k \in Names, Codec!Set(k) PROVE DOMAIN table' = RowsOf(stored', deadline')
  <2> DEFINE r == Codec!EncodeString(k)
             K1 == {Codec!EncodeString(l) : l \in stored \cup {k}}
  <2>1. DOMAIN table' = DOMAIN table \cup {r}
    BY <1>5, PutDeleteRows DEF Codec!Set
  <2>2. K1 = K \cup {r}
    OBVIOUS
  <2>3. RowsOf(stored', deadline') = K1 \cup Z \cup X
    BY <1>5 DEF Codec!Set, RowsOf
  <2> HIDE DEF K, Z, X, K1, r
  <2> QED
    BY <1>2, <2>1, <2>2, <2>3
<1>6. ASSUME NEW k \in Names, Codec!Del(k) PROVE DOMAIN table' = RowsOf(stored', deadline')
  <2> DEFINE r == Codec!EncodeString(k)
             K1 == {Codec!EncodeString(l) : l \in stored \ {k}}
  <2>1. DOMAIN table' = DOMAIN table \ {r}
    BY <1>6, PutDeleteRows DEF Codec!Del
  <2>2. K1 = K \ {r} /\ r \notin Z /\ r \notin X
    BY <1>2, <1>3, RowsApart
  <2>3. RowsOf(stored', deadline') = K1 \cup Z \cup X
    BY <1>6 DEF Codec!Del, RowsOf
  <2> HIDE DEF K, Z, X, K1, r
  <2> QED
    BY <1>2, <2>1, <2>2, <2>3
<1>7. ASSUME NEW m \in Members, Codec!Zdel(m) PROVE DOMAIN table' = RowsOf(stored', deadline')
  <2> DEFINE r == Codec!EncodeZset(m)
             Y == {Codec!EncodeZscore(n, deadline[n][1]) : n \in Dated(deadline) \ {m}}
             Z1 == {Codec!EncodeZset(n) : n \in Dated(deadline')}
             X1 == {Codec!EncodeZscore(n, deadline'[n][1]) : n \in Dated(deadline')}
  <2>1. Codec!Zget(m) = deadline[m] /\ deadline' = [deadline EXCEPT ![m] = Codec!None] /\ stored' = stored
    BY <1>7 DEF Codec!Zdel, TableInv, CodecInv
  <2>2. DOMAIN Codec!Unindexed(m, deadline[m]) = K \cup Z \cup Y
    BY UnindexedRows
  <2>3. DOMAIN table' = DOMAIN Codec!Unindexed(m, deadline[m]) \ {r}
    BY <1>7, <2>1, PutDeleteRows DEF Codec!Zdel
  <2>4. /\ Dated(deadline') = Dated(deadline) \ {m}
        /\ \A n \in Dated(deadline') : deadline'[n] = deadline[n]
    BY <2>1 DEF Dated, TableInv, CodecInv
  <2>5. Z1 = Z \ {r} /\ r \notin K /\ r \notin Y
    BY <1>2, <1>3, <2>4, RowsApart
  <2>6. X1 = Y
    BY <2>4
  <2>7. RowsOf(stored', deadline') = K \cup Z1 \cup X1
    BY <2>1 DEF RowsOf
  <2> HIDE DEF K, Z, X, Y, Z1, X1, r
  <2> QED
    BY <2>2, <2>3, <2>5, <2>6, <2>7
<1>8. ASSUME NEW m \in Members, NEW s \in Deadlines, Codec!Zset(m, s)
      PROVE  DOMAIN table' = RowsOf(stored', deadline')
  <2> DEFINE r == Codec!EncodeZset(m)
             z == Codec!EncodeZscore(m, s)
             Y == {Codec!EncodeZscore(n, deadline[n][1]) : n \in Dated(deadline) \ {m}}
             Z1 == {Codec!EncodeZset(n) : n \in Dated(deadline')}
             X1 == {Codec!EncodeZscore(n, deadline'[n][1]) : n \in Dated(deadline')}
  <2>1. Codec!Zget(m) = deadline[m] /\ deadline' = [deadline EXCEPT ![m] = <<s>>] /\ stored' = stored
    BY <1>8 DEF Codec!Zset, TableInv, CodecInv
  <2>2. DOMAIN Codec!Unindexed(m, deadline[m]) = K \cup Z \cup Y
    BY UnindexedRows
  <2>3. DOMAIN table' = (DOMAIN Codec!Unindexed(m, deadline[m]) \cup {z}) \cup {r}
    <3> DEFINE u == Codec!Unindexed(m, deadline[m])
               w == Codec!Put(u, z, Codec!None)
    <3>1. table' = Codec!Put(w, r, <<s>>)
      BY <1>8, <2>1 DEF Codec!Zset
    <3>2. DOMAIN w = DOMAIN u \cup {z}
      BY PutDeleteRows
    <3> HIDE DEF u, w
    <3>3. DOMAIN table' = DOMAIN w \cup {r}
      BY <3>1, PutDeleteRows
    <3> QED
      BY <3>2, <3>3 DEF u
  <2>4. /\ Dated(deadline') = Dated(deadline) \cup {m} /\ deadline'[m][1] = s
        /\ \A n \in Dated(deadline) \ {m} : deadline'[n] = deadline[n]
    BY <2>1 DEF Dated, TableInv, CodecInv, Codec!None
  <2>5. Z1 = Z \cup {r}
    BY <2>4
  <2>6. X1 = Y \cup {z}
    BY <2>4
  <2>7. RowsOf(stored', deadline') = K \cup Z1 \cup X1
    BY <2>1 DEF RowsOf
  <2> HIDE DEF K, Z, X, Y, Z1, X1, r, z
  <2> QED
    BY <2>2, <2>3, <2>5, <2>6, <2>7
<1>9. CASE UNCHANGED Codec!vars
  BY <1>9 DEF Codec!vars, TableInv
<1>10. CASE \E k \in Names : Codec!Set(k) \/ Codec!Del(k)
  BY <1>2, <1>5, <1>6, <1>10 DEF Codec!Set, Codec!Del
<1>11. CASE \E m \in Members : Codec!Zdel(m) \/ \E s \in Deadlines : Codec!Zset(m, s)
  BY <1>2, <1>7, <1>8, <1>11 DEF Codec!Zdel, Codec!Zset
<1> QED
  BY <1>9, <1>10, <1>11 DEF Codec!Next

\* An empty table has the rows of no key and of no deadline.
LEMMA InitTableInv == Codec!Init => TableInv
<1> SUFFICES ASSUME Codec!Init PROVE TableInv
  OBVIOUS
<1>1. CodecInv
  BY DEF Codec!Init, CodecInv, Codec!Zget
<1>2. Dated(deadline) = {}
  BY DEF Codec!Init, Dated
<1>3. DOMAIN table = {}
  BY DEF Codec!Init
<1> QED
  BY <1>1, <1>2, <1>3 DEF Codec!Init, TableInv, RowsOf

-----------------------------------------------------------------------------
(* ScanKey.                                                                *)

\* The flag in front decides between rows of two kinds.
LEMMA FlagOrder ==
  ASSUME NEW r \in Seq(Int), NEW q \in Seq(Int), Len(r) > 0, Len(q) > 0, q[1] < r[1]
  PROVE  Codec!Less(q, r) /\ ~Codec!Less(r, q)
<1>1. Len(r) \in Nat /\ Len(q) \in Nat /\ r[1] \in Int /\ q[1] \in Int
  OBVIOUS
<1>2. Parting(q, r, 0)
  BY <1>1 DEF Parting
<1>3. \A n \in Nat : ~Parting(r, q, n)
  <2> SUFFICES ASSUME NEW n \in Nat, Parting(r, q, n) PROVE FALSE
    OBVIOUS
  <2>1. CASE n = 0
    BY <1>1, <2>1 DEF Parting
  <2>2. CASE n # 0
    BY <1>1, <2>2 DEF Parting
  <2> QED
    BY <2>1, <2>2
<1> QED
  BY <1>2, <1>3, LessParting

\* The rows of values are in the order of their keys.
LEMMA StringOrder ==
  ASSUME Codec!CodecAssumption, NEW a \in Seq(Int), NEW b \in Seq(Int)
  PROVE  Codec!Less(Codec!EncodeString(a), Codec!EncodeString(b)) <=> Codec!Less(a, b)
<1> DEFINE r == Codec!EncodeString(a)
           q == Codec!EncodeString(b)
<1>1. /\ r \in Seq(Int) /\ Len(r) = 1 + Len(a) /\ r[1] = KV /\ \A i \in 1 .. Len(a) : r[1 + i] = a[i]
      /\ q \in Seq(Int) /\ Len(q) = 1 + Len(b) /\ q[1] = KV /\ \A i \in 1 .. Len(b) : q[1 + i] = b[i]
      /\ Len(a) \in Nat /\ Len(b) \in Nat /\ KV \in Int
  <2>1. r \in Seq(Int) /\ Len(r) = 1 + Len(a) /\ r[1] = KV /\ \A i \in 1 .. Len(a) : r[1 + i] = a[i]
    BY StringRow, Zenon
  <2>2. q \in Seq(Int) /\ Len(q) = 1 + Len(b) /\ q[1] = KV /\ \A i \in 1 .. Len(b) : q[1 + i] = b[i]
    BY StringRow, Zenon
  <2>3. Len(a) \in Nat /\ Len(b) \in Nat /\ KV \in Int
    BY NamesType
  <2> QED
    BY <2>1, <2>2, <2>3, Zenon
<1> HIDE DEF r, q
<1>2. ASSUME NEW n \in Nat, Parting(a, b, n) PROVE Parting(r, q, n + 1)
  <2>0. n <= Len(a) /\ n < Len(b)
    BY <1>2 DEF Parting
  <2>1. n + 1 <= Len(r) /\ n + 1 < Len(q)
    BY <1>1, <2>0
  <2>2. ASSUME NEW i \in 1 .. n + 1 PROVE r[i] = q[i]
    <3>1. CASE i = 1
      BY <1>1, <3>1
    <3>2. CASE i # 1
      <4>0. Len(a) \in Nat /\ Len(b) \in Nat
        BY <1>1
      <4>1. i - 1 \in 1 .. n /\ i - 1 \in 1 .. Len(a) /\ i - 1 \in 1 .. Len(b) /\ 1 + (i - 1) = i
        BY <2>0, <3>2, <4>0
      <4>2. r[i] = a[i - 1] /\ q[i] = b[i - 1]
        BY <1>1, <4>1
      <4> QED
        BY <1>2, <4>1, <4>2 DEF Parting
    <3> QED
      BY <3>1, <3>2
  <2>3. n + 1 = Len(r) \/ r[n + 1 + 1] < q[n + 1 + 1]
    <3> SUFFICES ASSUME n # Len(a) PROVE r[n + 1 + 1] < q[n + 1 + 1]
      BY <1>1
    <3>0. a[n + 1] < b[n + 1]
      BY <1>2 DEF Parting
    <3>1. n + 1 \in 1 .. Len(a) /\ n + 1 \in 1 .. Len(b) /\ 1 + (n + 1) = n + 1 + 1
      <4>1. Len(a) \in Nat /\ Len(b) \in Nat
        BY <1>1
      <4> QED
        BY <2>0, <4>1
    <3>2. r[1 + (n + 1)] = a[n + 1] /\ q[1 + (n + 1)] = b[n + 1]
      BY <1>1, <3>1, Zenon
    <3> QED
      BY <3>0, <3>1, <3>2
  <2> QED
    BY <2>1, <2>2, <2>3 DEF Parting
<1>3. ASSUME NEW n \in Nat, Parting(r, q, n) PROVE Parting(a, b, n - 1) /\ n - 1 \in Nat
  <2>1. n # 0
    BY <1>1, <1>3 DEF Parting
  <2>2. n - 1 <= Len(a) /\ n - 1 < Len(b) /\ n - 1 \in Nat
    BY <1>1, <1>3, <2>1 DEF Parting
  <2>3. ASSUME NEW i \in 1 .. n - 1 PROVE a[i] = b[i]
    <3>0. Len(a) \in Nat /\ Len(b) \in Nat
      BY <1>1
    <3>1. 1 + i \in 1 .. n /\ i \in 1 .. Len(a) /\ i \in 1 .. Len(b)
      BY <2>2, <3>0
    <3>2. r[1 + i] = q[1 + i]
      BY <1>3, <3>1 DEF Parting
    <3> QED
      BY <1>1, <3>1, <3>2
  <2>4. n - 1 = Len(a) \/ a[n] < b[n]
    <3> SUFFICES ASSUME n - 1 # Len(a) PROVE a[n] < b[n]
      OBVIOUS
    <3>1. n \in 1 .. Len(a) /\ n \in 1 .. Len(b) /\ r[n + 1] < q[n + 1] /\ n + 1 = 1 + n
      BY <1>1, <1>3, <2>1, <2>2 DEF Parting
    <3>2. r[1 + n] = a[n] /\ q[1 + n] = b[n]
      BY <1>1, <3>1
    <3> QED
      BY <3>1, <3>2
  <2>5. n - 1 + 1 = n
    OBVIOUS
  <2> QED
    BY <2>2, <2>3, <2>4, <2>5 DEF Parting
<1>4. (\E n \in Nat : Parting(a, b, n)) => \E n \in Nat : Parting(r, q, n)
  BY <1>2
<1>5. (\E n \in Nat : Parting(r, q, n)) => \E n \in Nat : Parting(a, b, n)
  BY <1>3
<1> QED
  BY <1>1, <1>4, <1>5, LessParting DEF r, q

\* As many rows as keys.
LEMMA StringRowsSize ==
  ASSUME Codec!CodecAssumption, NEW T \in SUBSET Seq(Int), IsFiniteSet(T)
  PROVE  LET U == {Codec!EncodeString(k) : k \in T}
         IN  U \in SUBSET Seq(Int) /\ IsFiniteSet(U) /\ Cardinality(U) = Cardinality(T)
<1> DEFINE U == {Codec!EncodeString(k) : k \in T}
           f == [k \in T |-> Codec!EncodeString(k)]
<1>1. \A k \in T : Codec!EncodeString(k) \in Seq(Int) /\ Codec!DecodeString(Codec!EncodeString(k)) = k
  BY StringRow
<1>2. \A k, l \in T : Codec!EncodeString(k) = Codec!EncodeString(l) => k = l
  BY <1>1
<1>3. f \in Injection(T, U) /\ f \in Surjection(T, U)
  BY <1>2 DEF Injection, IsInjective, Surjection
<1>4. ExistsBijection(T, U)
  BY <1>3 DEF ExistsBijection, Bijection
<1>5. U \in SUBSET Seq(Int)
  BY <1>1
<1> HIDE DEF U
<1>6. IsFiniteSet(U) /\ Cardinality(U) = Cardinality(T)
  BY <1>4, FS_Bijection
<1> QED
  BY <1>5, <1>6 DEF U

\* The list of the rows is that of the keys.
LEMMA StringRowsAscending ==
  ASSUME Codec!CodecAssumption, NEW S \in SUBSET Seq(Int), IsFiniteSet(S),
         NEW i \in 1 .. Cardinality(S)
  PROVE  LET U == {Codec!EncodeString(k) : k \in S}
         IN  Codec!Ascending(U)[i] = Codec!EncodeString(Codec!Ascending(S)[i])
<1> DEFINE U == {Codec!EncodeString(k) : k \in S}
           A == Codec!Ascending(S)
           B == Codec!Ascending(U)
<1>1. U \in SUBSET Seq(Int) /\ IsFiniteSet(U) /\ Cardinality(U) = Cardinality(S)
  BY StringRowsSize
<1>2. A[i] \in S /\ Rank(S, A[i]) = i - 1
  BY AscendingRows
<1>3. B[i] \in U /\ Rank(U, B[i]) = i - 1
  <2> HIDE DEF U
  <2> QED
    BY <1>1, AscendingRows
<1>4. PICK k \in S : B[i] = Codec!EncodeString(k)
  BY <1>3
<1>5. Rank(U, Codec!EncodeString(k)) = Rank(S, k)
  <2> DEFINE T == {l \in S : Codec!Less(l, k)}
             V == {Codec!EncodeString(l) : l \in T}
  <2>1. V = {q \in U : Codec!Less(q, Codec!EncodeString(k))}
    BY StringOrder
  <2>2. T \in SUBSET Seq(Int) /\ IsFiniteSet(T)
    BY FS_Subset
  <2> HIDE DEF T
  <2>3. Cardinality(V) = Cardinality(T)
    BY <2>2, StringRowsSize
  <2> QED
    BY <2>1, <2>3 DEF Rank, T
<1>6. Rank(S, k) = Rank(S, A[i])
  BY <1>2, <1>3, <1>4, <1>5
<1> HIDE DEF A, B, U
<1>7. k = A[i]
  BY <1>2, <1>6, RankInjective
<1> QED
  BY <1>4, <1>7 DEF A, B, U

\* The rows between two keys are those of values, whatever the names.
LEMMA ScannedRows ==
  ASSUME Codec!CodecAssumption, TableInv, NEW from \in Seq(Int), NEW to \in Seq(Int)
  PROVE  {r \in DOMAIN table : ~Codec!Less(r, Codec!EncodeString(from)) /\ Codec!Less(r, Codec!EncodeString(to))}
           = {Codec!EncodeString(k) : k \in {l \in stored : ~Codec!Less(l, from) /\ Codec!Less(l, to)}}
<1> DEFINE In(r) == ~Codec!Less(r, Codec!EncodeString(from)) /\ Codec!Less(r, Codec!EncodeString(to))
<1>1. stored \subseteq Seq(Int) /\ Members \subseteq Seq(Int)
  BY NamesType DEF TableInv
<1>2. \A k \in stored : In(Codec!EncodeString(k)) <=> ~Codec!Less(k, from) /\ Codec!Less(k, to)
  BY <1>1, StringOrder
<1>3. ASSUME NEW r \in Seq(Int), Len(r) > 0, KV < r[1] PROVE ~In(r)
  <2> DEFINE q == Codec!EncodeString(to)
  <2>1. q \in Seq(Int) /\ Len(q) > 0 /\ q[1] = KV
    <3>1. q \in Seq(Int) /\ Len(q) = 1 + Len(to) /\ q[1] = KV
      BY StringRow
    <3>2. Len(to) \in Nat
      OBVIOUS
    <3> QED
      BY <3>1, <3>2
  <2> HIDE DEF q
  <2>2. ~Codec!Less(r, q)
    BY <1>3, <2>1, FlagOrder
  <2> QED
    BY <2>2 DEF q
<1>4. ASSUME NEW m \in Dated(deadline) PROVE ~In(Codec!EncodeZset(m))
  <2> DEFINE r == Codec!EncodeZset(m)
  <2>1. m \in Seq(Int) /\ Len(m) \in Nat /\ Len(ExpireKey) \in Nat
    BY <1>1, NamesType DEF Dated
  <2>2. r \in Seq(Int) /\ Len(r) = 3 + Len(ExpireKey) + Len(m) /\ r[1] = ZSET
    BY <2>1, ZsetRow
  <2>3. KV < ZSET
    BY NamesType
  <2>4. Len(r) > 0 /\ KV < r[1]
    BY <2>1, <2>2, <2>3
  <2> HIDE DEF r, In
  <2>5. ~In(r)
    BY <1>3, <2>2, <2>4
  <2> QED
    BY <2>5 DEF r
<1>5. ASSUME NEW m \in Dated(deadline) PROVE ~In(Codec!EncodeZscore(m, deadline[m][1]))
  <2> DEFINE r == Codec!EncodeZscore(m, deadline[m][1])
  <2>1. m \in Seq(Int) /\ Len(m) \in Nat
    BY <1>1 DEF Dated
  <2>2. deadline[m][1] \in Scorable
    BY DEF TableInv, CodecInv, Dated, Codec!CodecAssumption, Scorable
  <2>3. r \in Seq(Int) /\ r[1] = ZSCORE
    BY <2>1, <2>2, ZscoreRow
  <2>4. Len(r) = 2 + Len(ExpireKey) + Bytes + 1 + Len(m) /\ Bytes \in Nat
    BY <2>1, <2>2, ZscoreRow
  <2>5. KV < ZSCORE /\ Len(ExpireKey) \in Nat
    BY NamesType
  <2>6. Len(r) > 0 /\ KV < r[1]
    BY <2>1, <2>3, <2>4, <2>5
  <2> HIDE DEF r, In
  <2>7. ~In(r)
    BY <1>3, <2>3, <2>6
  <2> QED
    BY <2>7 DEF r
<1>6. DOMAIN table = RowsOf(stored, deadline)
  BY DEF TableInv
<1> HIDE DEF In
<1>7. {r \in DOMAIN table : In(r)}
        = {Codec!EncodeString(k) : k \in {l \in stored : ~Codec!Less(l, from) /\ Codec!Less(l, to)}}
  BY <1>2, <1>4, <1>5, <1>6 DEF RowsOf
<1> QED
  BY <1>7 DEF In

\* At most limit elements of a sequence.
Capped(n, limit) == IF limit < n THEN limit ELSE n

\* b is the beginning of a, a list of n elements of D.
IsUpTo(b, a, n, limit, D) ==
  /\ Capped(n, limit) \in 0 .. n
  /\ b \in Seq(D) /\ Len(b) = Capped(n, limit) /\ DOMAIN b = 1 .. Capped(n, limit)
  /\ \A i \in 1 .. Capped(n, limit) : b[i] = a[i]

\* UpTo is the beginning of a list.
LEMMA UpToResult ==
  ASSUME NEW D, NEW n \in Nat, NEW a \in [1 .. n -> D], NEW limit \in Nat
  PROVE  IsUpTo(Codec!UpTo(a, limit), a, n, limit, D)
<1> DEFINE j == Capped(n, limit)
<1>1. a \in Seq(D) /\ Len(a) = n
  OBVIOUS
<1>2. j \in 0 .. n
  BY DEF Capped
<1>3. Codec!UpTo(a, limit) = SubSeq(a, 1, j)
  BY <1>1 DEF Codec!UpTo, Capped
<1> HIDE DEF j
<1>4. SubSeq(a, 1, j) \in Seq(D) /\ Len(SubSeq(a, 1, j)) = j /\ \A i \in 1 .. j : SubSeq(a, 1, j)[i] = a[i]
  BY <1>1, <1>2
<1> QED
  BY <1>2, <1>3, <1>4 DEF j, IsUpTo

\* The rows of TableInv are all that the answer of a scan depends on.
LEMMA TableScans ==
  ASSUME Codec!CodecAssumption, TableInv
  PROVE  Codec!ScanListsKeys
<1> SUFFICES ASSUME NEW from \in Names \cup {<<>>}, NEW limit \in Codec!Limits
             PROVE  Codec!ScanKey(from, <<Base - 1>>, limit)
                      = Codec!UpTo(Codec!Ascending({k \in stored : ~Codec!Less(k, from) /\ Codec!Less(k, <<Base - 1>>)}), limit)
  BY DEF Codec!ScanListsKeys
<1> DEFINE to == <<Base - 1>>
           S == {k \in stored : ~Codec!Less(k, from) /\ Codec!Less(k, to)}
           U == {Codec!EncodeString(k) : k \in S}
           A == Codec!Ascending(S)
           B == Codec!Ascending(U)
           n == Cardinality(S)
           j == Capped(n, limit)
           R == Codec!UpTo(B, limit)
           L == Codec!UpTo(A, limit)
<1>1. from \in Seq(Int) /\ to \in Seq(Int) /\ Base \in Nat
  <2>1. Names \subseteq Seq(Int) /\ Base \in Nat
    BY NamesType
  <2>2. <<>> \in Seq(Int) /\ Base - 1 \in Int
    BY <2>1
  <2>3. to \in Seq(Int)
    BY <2>2
  <2> QED
    BY <2>1, <2>2, <2>3
<1>2. limit \in Nat
  <2>1. Codec!Cardinality(Names \cup Members) \in Nat
    BY NamesType, SameCodecSets, FS_CardinalityType
  <2> QED
    BY <2>1 DEF Codec!Limits
<1>3. S \in SUBSET Seq(Int) /\ IsFiniteSet(S)
  <2>1. S \subseteq Names \cup Members
    BY DEF TableInv
  <2>2. S \subseteq Seq(Int)
    BY NamesType DEF TableInv
  <2> HIDE DEF S
  <2> QED
    BY <2>1, <2>2, NamesType, FS_Subset
<1>4. {r \in DOMAIN table : ~Codec!Less(r, Codec!EncodeString(from)) /\ Codec!Less(r, Codec!EncodeString(to))} = U
  BY <1>1, ScannedRows
<1> HIDE DEF to, S
<1>5. U \in SUBSET Seq(Int) /\ IsFiniteSet(U) /\ Cardinality(U) = n
  BY <1>3, StringRowsSize
<1>6. n \in Nat /\ A \in [1 .. n -> S]
  BY <1>3, AscendingRows
<1>7. B \in [1 .. n -> U]
  <2> HIDE DEF U
  <2> QED
    BY <1>5, AscendingRows
<1>8. \A i \in 1 .. n : B[i] = Codec!EncodeString(A[i])
  BY <1>3, StringRowsAscending
<1>9. Codec!ScanKey(from, to, limit) = [i \in DOMAIN R |-> Codec!DecodeString(R[i])]
  BY <1>4 DEF Codec!ScanKey, Codec!RowsIn
<1> HIDE DEF U, A, B, n
<1>10. j \in 0 .. n /\ L \in Seq(S) /\ DOMAIN L = 1 .. j /\ Len(L) = j /\ \A i \in 1 .. j : L[i] = A[i]
  <2>1. IsUpTo(L, A, n, limit, S)
    BY <1>2, <1>6, UpToResult, Zenon
  <2> HIDE DEF L
  <2> QED
    BY <2>1 DEF IsUpTo
<1>11. DOMAIN R = 1 .. j /\ \A i \in 1 .. j : R[i] = B[i]
  <2>1. IsUpTo(R, B, n, limit, U)
    BY <1>2, <1>6, <1>7, UpToResult, Zenon
  <2> HIDE DEF R
  <2> QED
    BY <2>1 DEF IsUpTo
<1> HIDE DEF j, R, L
<1>12. ASSUME NEW i \in 1 .. j PROVE Codec!DecodeString(R[i]) = L[i]
  <2>1. i \in 1 .. n
    BY <1>6, <1>10
  <2>2. R[i] = Codec!EncodeString(A[i]) /\ A[i] \in Seq(Int) /\ L[i] = A[i]
    BY <1>3, <1>6, <1>8, <1>10, <1>11, <2>1
  <2> QED
    BY <2>2, StringRow
<1>13. [i \in DOMAIN R |-> Codec!DecodeString(R[i])] = L
  <2>1. L = [i \in 1 .. j |-> L[i]]
    BY <1>10
  <2> QED
    BY <1>11, <1>12, <2>1
<1> QED
  BY <1>9, <1>13 DEF L, A, S, to

(***************************************************************************)
(* For any finite set of names: a scan lists the keys with a value that    *)
(* are in its range, in order, and none of the rows around them.           *)
(***************************************************************************)
THEOREM CodecScanListsKeys ==
  Codec!CodecAssumption => (Codec!Spec => []ScanListsKeys)
<1> SUFFICES ASSUME Codec!CodecAssumption PROVE Codec!Spec => []ScanListsKeys
  OBVIOUS
<1>1. Codec!Init => TableInv
  BY InitTableInv
<1>2. TableInv /\ [Codec!Next]_(Codec!vars) => TableInv'
  BY NextTableInv
<1>3. TableInv => ScanListsKeys
  BY TableScans DEF ScanListsKeys
<1> QED
  BY <1>1, <1>2, <1>3, PTL DEF Codec!Spec

-----------------------------------------------------------------------------
(* LoadExpirationKeys.                                                     *)

\* The order of the index is that of the unsigned scores.
LEMMA IndexOrder ==
  ASSUME Codec!CodecAssumption, NEW m \in Seq(Int), NEW n \in Seq(Int),
         NEW s \in Scorable, NEW t \in Scorable, s % Codec!Modulus < t % Codec!Modulus
  PROVE  Codec!Less(Codec!EncodeZscore(m, s), Codec!EncodeZscore(n, t))
<1> DEFINE r == Codec!EncodeZscore(m, s)
           q == Codec!EncodeZscore(n, t)
           p == 2 + Len(ExpireKey)
           a == Digits(s % Codec!Modulus)
           b == Digits(t % Codec!Modulus)
<1>1. /\ r \in Seq(Int) /\ p \in Nat /\ Bytes \in Nat /\ Len(r) = p + Bytes + 1 + Len(m)
      /\ \A i \in 1 .. p : r[i] = IndexPrefix[i]
      /\ \A i \in 1 .. Bytes : r[p + i] = a[i]
  BY ZscoreRow, Zenon
<1>2. /\ q \in Seq(Int) /\ Len(q) = p + Bytes + 1 + Len(n)
      /\ \A i \in 1 .. p : q[i] = IndexPrefix[i]
      /\ \A i \in 1 .. Bytes : q[p + i] = b[i]
  BY ZscoreRow, Zenon
<1>3. PICK k \in 0 .. Bytes - 1 : (\A i \in 1 .. k : a[i] = b[i]) /\ a[k + 1] < b[k + 1]
  <2>1. s % Codec!Modulus \in Unsigned /\ t % Codec!Modulus \in Unsigned
    BY ScoreUnsigned
  <2> QED
    BY <2>1, DigitsOrder
<1> HIDE DEF r, q, p, a, b
<1>4. Len(m) \in Nat /\ Len(n) \in Nat /\ p \in Nat /\ Bytes \in Nat
  BY <1>1
<1>5. p + k \in Nat /\ p + k < Len(r) /\ p + k < Len(q) /\ k + 1 \in 1 .. Bytes /\ p + k + 1 = p + (k + 1)
  <2>1. Len(r) = p + Bytes + 1 + Len(m) /\ Len(q) = p + Bytes + 1 + Len(n)
    BY <1>1, <1>2
  <2> QED
    BY <1>4, <2>1
<1>6. ASSUME NEW i \in 1 .. p + k PROVE r[i] = q[i]
  <2>1. CASE i <= p
    <3>1. i \in 1 .. p
      BY <1>4, <2>1
    <3> QED
      BY <1>1, <1>2, <3>1
  <2>2. CASE i > p
    <3>1. i - p \in 1 .. k /\ i - p \in 1 .. Bytes /\ p + (i - p) = i
      BY <1>4, <2>2
    <3> QED
      BY <1>1, <1>2, <1>3, <3>1, ZenonT(30)
  <2> QED
    BY <1>4, <2>1, <2>2
<1>7. r[p + k + 1] < q[p + k + 1]
  BY <1>1, <1>2, <1>3, <1>5
<1>8. Parting(r, q, p + k)
  BY <1>5, <1>6, <1>7 DEF Parting
<1>9. Codec!Less(r, q)
  BY <1>1, <1>2, <1>5, <1>8, LessParting
<1> QED
  BY <1>9 DEF r, q

\* No row comes before the row without a member that has its score.
LEMMA IndexFirst ==
  ASSUME Codec!CodecAssumption, NEW m \in Seq(Int), NEW s \in Scorable
  PROVE  ~Codec!Less(Codec!EncodeZscore(m, s), Codec!EncodeZscore(<<>>, s))
<1> DEFINE r == Codec!EncodeZscore(m, s)
           o == <<>>
           q == Codec!EncodeZscore(o, s)
           p == 2 + Len(ExpireKey)
           a == Digits(s % Codec!Modulus)
<1>1. o \in Seq(Int) /\ Len(o) = 0
  OBVIOUS
<1> HIDE DEF o
<1>2. /\ r \in Seq(Int) /\ p \in Nat /\ Bytes \in Nat /\ Len(r) = p + Bytes + 1 + Len(m)
      /\ \A i \in 1 .. p : r[i] = IndexPrefix[i]
      /\ \A i \in 1 .. Bytes : r[p + i] = a[i]
      /\ r[p + Bytes + 1] = Colon
  BY ZscoreRow, Zenon
<1>3. /\ q \in Seq(Int) /\ Len(q) = p + Bytes + 1 + Len(o)
      /\ \A i \in 1 .. p : q[i] = IndexPrefix[i]
      /\ \A i \in 1 .. Bytes : q[p + i] = a[i]
      /\ q[p + Bytes + 1] = Colon
  BY <1>1, ZscoreRow, Zenon
<1> HIDE DEF r, q, p, a
<1>4. p \in Nat /\ Bytes \in Nat /\ Len(m) \in Nat /\ Len(q) = p + Bytes + 1 /\ Len(r) >= p + Bytes + 1
  BY <1>1, <1>2, <1>3
<1>5. ASSUME NEW i \in 1 .. p + Bytes + 1 PROVE r[i] = q[i]
  <2>1. CASE i <= p
    <3>1. i \in 1 .. p
      BY <1>4, <2>1
    <3> QED
      BY <1>2, <1>3, <3>1
  <2>2. CASE i > p /\ i <= p + Bytes
    <3>1. i - p \in 1 .. Bytes /\ p + (i - p) = i
      BY <1>4, <2>2
    <3> QED
      BY <1>2, <1>3, <3>1
  <2>3. CASE i > p + Bytes
    <3>1. i = p + Bytes + 1
      BY <1>4, <2>3
    <3> QED
      BY <1>2, <1>3, <3>1
  <2> QED
    BY <1>4, <2>1, <2>2, <2>3
<1>6. ASSUME NEW k \in Nat, Parting(r, q, k) PROVE FALSE
  <2>1. k < p + Bytes + 1 /\ (k = Len(r) \/ r[k + 1] < q[k + 1])
    BY <1>4, <1>6 DEF Parting
  <2>2. k + 1 \in 1 .. p + Bytes + 1 /\ k # Len(r) /\ k + 1 \in 1 .. Len(q)
    BY <1>2, <1>4, <2>1
  <2>3. r[k + 1] = q[k + 1] /\ q[k + 1] \in Int
    BY <1>3, <1>5, <2>2
  <2> QED
    BY <2>1, <2>2, <2>3
<1>7. ~Codec!Less(r, q)
  BY <1>2, <1>3, <1>6, LessParting
<1> QED
  BY <1>7 DEF r, q, o

\* LoadExpirationKeys reads the scores from 0 on and below SCORE_MAX.
LEMMA IndexRange ==
  ASSUME Codec!CodecAssumption, NEW m \in Seq(Int), NEW s \in Scorable
  PROVE  LET r == Codec!EncodeZscore(m, s)
         IN  /\ ~Codec!Less(r, Codec!EncodeZscore(<<>>, 0))
             /\ Codec!Less(r, Codec!EncodeZscore(<<>>, Codec!ScoreMax)) <=> s \in 0 .. Codec!ScoreMax - 1
<1> DEFINE r == Codec!EncodeZscore(m, s)
           M == Codec!Modulus
           x0 == Codec!ScoreMax
           o == <<>>
           lo == Codec!EncodeZscore(o, 0)
           hi == Codec!EncodeZscore(o, x0)
<1>1. /\ s \in Int /\ x0 \in Nat /\ s % M \in 0 .. M - 1 /\ M \in Nat
      /\ s >= 0 => s % M = s
      /\ s < 0 => s % M > x0
  BY ScoreUnsigned, ModulusType DEF Unsigned
<1>2. 0 \in Scorable /\ x0 \in Scorable
  BY <1>1, ModulusSize DEF Scorable
<1>3. 0 % M = 0 /\ x0 % M = x0
  BY <1>1, <1>2, ScoreUnsigned
<1>4. o \in Seq(Int)
  OBVIOUS
<1> HIDE DEF M, x0, o
<1>5. r \in Seq(Int) /\ lo \in Seq(Int) /\ hi \in Seq(Int)
  BY <1>2, <1>4, ZscoreRow
<1>6. ~Codec!Less(r, lo)
  <2>1. CASE s % M = 0
    <3>1. s = 0
      BY <1>1, <2>1
    <3> QED
      BY <1>2, <3>1, IndexFirst DEF o
  <2>2. CASE s % M # 0
    <3>1. 0 % M < s % M
      BY <1>1, <1>3, <2>2
    <3>2. Codec!Less(lo, r)
      BY <1>2, <1>4, <3>1, IndexOrder DEF M
    <3> HIDE DEF r, lo
    <3> QED
      BY <1>5, <3>2, LessTransitive, LessIrreflexive
  <2> QED
    BY <2>1, <2>2
<1>7. ASSUME s \in 0 .. x0 - 1 PROVE Codec!Less(r, hi)
  <2>1. s % M < x0 % M
    BY <1>1, <1>3, <1>7
  <2> QED
    BY <1>2, <1>4, <2>1, IndexOrder DEF M
<1>8. ASSUME s \notin 0 .. x0 - 1 PROVE ~Codec!Less(r, hi)
  <2>1. s % M >= x0
    BY <1>1, <1>8
  <2>2. CASE s % M = x0
    <3>1. s = x0
      BY <1>1, <2>2
    <3> QED
      BY <1>2, <3>1, IndexFirst DEF o
  <2>3. CASE s % M # x0
    <3>1. x0 % M < s % M
      BY <1>1, <1>3, <2>1, <2>3
    <3>2. Codec!Less(hi, r)
      BY <1>2, <1>4, <3>1, IndexOrder DEF M
    <3> HIDE DEF r, hi
    <3> QED
      BY <1>5, <3>2, LessTransitive, LessIrreflexive
  <2> QED
    BY <2>2, <2>3
<1> QED
  BY <1>6, <1>7, <1>8 DEF x0, o

\* A row of the index is read as the member and the deadline it was written for.
LEMMA ZscoreDecoded ==
  ASSUME Codec!CodecAssumption, NEW m \in Seq(Int), NEW s \in Scorable, s >= 0
  PROVE  Codec!DecodeZscore(Codec!EncodeZscore(m, s)) = [score |-> s, member |-> m]
<1> DEFINE r == Codec!EncodeZscore(m, s)
           e == Len(ExpireKey)
           p == 2 + e
           d == Digits(s % Codec!Modulus)
           t == Tail(r)
           b == Codec!After_8_data(t)
<1>1. /\ r \in Seq(Int) /\ p \in Nat /\ Bytes \in Nat /\ Len(r) = p + Bytes + 1 + Len(m)
      /\ \A i \in 1 .. p : r[i] = IndexPrefix[i]
      /\ \A i \in 1 .. Bytes : r[p + i] = d[i]
      /\ \A i \in 1 .. Len(m) : r[p + Bytes + 1 + i] = m[i]
  BY ZscoreRow, Zenon
<1>2. e \in Nat /\ Len(m) \in Nat
  BY NamesType
<1>3. IndexPrefix[2] = e
  BY NamesType DEF IndexPrefix
<1>4. s % Codec!Modulus = s /\ s \in Unsigned /\ s <= Codec!ScoreMax
  BY ScoreUnsigned DEF Scorable
<1>5. d \in Seq(Int) /\ Len(d) = Bytes
  BY <1>4, DigitsType
<1>6. Codec!decode_score(d) = s
  BY <1>4, JoinedDigits, ScoreUnsigned DEF Codec!decode_score
<1> HIDE DEF r, d, e
<1>7. Bytes \in Nat /\ Len(r) = 3 + e + Bytes + Len(m)
  BY <1>1, <1>2
<1>8. t \in Seq(Int) /\ Len(t) = Len(r) - 1 /\ \A i \in 1 .. Len(r) - 1 : t[i] = r[i + 1]
  <2>1. r # <<>> /\ Len(r) \in Nat /\ Len(r) >= 1
    BY <1>1, <1>2, <1>7
  <2>2. r \in Seq(Int)
    BY <1>1
  <2> QED
    BY <2>1, <2>2
<1>9. t[1] = e
  BY <1>1, <1>2, <1>3, <1>7, <1>8
<1> HIDE DEF t
<1>10. b = SubSeq(t, 2 + e, Len(t))
  BY <1>9 DEF Codec!After_8_data
<1>11. b \in Seq(Int) /\ Len(b) = Bytes + 1 + Len(m) /\ \A i \in 1 .. Bytes + 1 + Len(m) : b[i] = r[p + i]
  <2>1. 2 + e \in 1 .. Len(t) + 1 /\ Len(t) \in Nat /\ Len(t) - (2 + e) + 1 = Bytes + 1 + Len(m)
    BY <1>2, <1>7, <1>8
  <2>2. b \in Seq(Int) /\ Len(b) = Len(t) - (2 + e) + 1
        /\ \A i \in 1 .. Len(t) - (2 + e) + 1 : b[i] = t[2 + e + i - 1]
    BY <1>2, <1>8, <1>10, <2>1
  <2>3. ASSUME NEW i \in 1 .. Bytes + 1 + Len(m) PROVE b[i] = r[p + i]
    <3>1. 2 + e + i - 1 \in 1 .. Len(r) - 1 /\ (2 + e + i - 1) + 1 = p + i
      BY <1>2, <1>7
    <3> QED
      BY <1>8, <2>1, <2>2, <3>1
  <2> QED
    BY <2>1, <2>2, <2>3
<1> HIDE DEF b
<1>12. SubSeq(b, 1, Bytes) = d
  <2> DEFINE c == SubSeq(b, 1, Bytes)
  <2>1. c \in Seq(Int) /\ Len(c) = Bytes /\ \A i \in 1 .. Bytes : c[i] = b[i]
    BY <1>2, <1>7, <1>11
  <2>2. \A i \in 1 .. Bytes : i \in 1 .. Bytes + 1 + Len(m)
    BY <1>2, <1>7
  <2>3. \A i \in 1 .. Bytes : b[i] = d[i]
    BY <1>1, <1>11, <2>2
  <2> HIDE DEF c
  <2>4. c = d
    BY <1>5, <2>1, <2>3, SeqEqual
  <2> QED
    BY <2>4 DEF c
<1>13. SubSeq(b, Bytes + 2, Len(b)) = m
  <2> DEFINE c == SubSeq(b, Bytes + 2, Len(b))
  <2>0. Bytes + 2 \in 1 .. Len(b) + 1 /\ Len(b) \in Nat /\ Len(b) - (Bytes + 2) + 1 = Len(m)
    <3>1. Len(b) = Bytes + 1 + Len(m) /\ Len(m) \in Nat /\ Bytes \in Nat
      BY <1>2, <1>7, <1>11
    <3> QED
      BY <3>1
  <2>1. c \in Seq(Int) /\ Len(c) = Len(m) /\ \A i \in 1 .. Len(m) : c[i] = b[Bytes + 2 + i - 1]
    <3> DEFINE k == Bytes + 2
    <3>1. b \in Seq(Int) /\ k \in 1 .. Len(b) + 1 /\ Len(b) \in Nat /\ Len(b) - k + 1 = Len(m)
      BY <1>11, <2>0
    <3> HIDE DEF k
    <3>2. LET z == SubSeq(b, k, Len(b))
          IN  z \in Seq(Int) /\ Len(z) = Len(m) /\ \A i \in 1 .. Len(m) : z[i] = b[k + i - 1]
      BY <3>1, SMTT(30)
    <3> QED
      BY <3>2 DEF k
  <2>2. ASSUME NEW i \in 1 .. Len(m) PROVE c[i] = m[i]
    <3>1. Bytes + 2 + i - 1 \in 1 .. Bytes + 1 + Len(m) /\ p + (Bytes + 2 + i - 1) = p + Bytes + 1 + i
      BY <1>2, <1>7
    <3> QED
      BY <1>1, <1>11, <2>1, <3>1
  <2> HIDE DEF c
  <2>3. c = m
    BY <2>1, <2>2, SeqEqual
  <2> QED
    BY <2>3 DEF c
<1> QED
  BY <1>6, <1>12, <1>13 DEF Codec!DecodeZscore, b, t, r

\* A row with fewer rows before it comes first.
LEMMA RankOrder ==
  ASSUME NEW S \in SUBSET Seq(Int), IsFiniteSet(S), NEW r \in S, NEW q \in S,
         Rank(S, r) < Rank(S, q)
  PROVE  Codec!Less(r, q)
<1>1. Rank(S, r) \in Int /\ Rank(S, q) \in Int
  BY RankType
<1>2. r # q
  BY <1>1
<1>3. ~Codec!Less(q, r)
  BY <1>1, RankLess
<1> QED
  BY <1>2, <1>3, LessTotal

\* The members with a deadline that LoadExpirationKeys is to find.
Loadable == {m \in Members : deadline[m] # Codec!None /\ deadline[m][1] \in 0 .. Codec!ScoreMax - 1}

\* The row of a member in the index.
IndexRow(m) == Codec!EncodeZscore(m, deadline[m][1])

\* The rows LoadExpirationKeys reads are those of the deadlines it is to find.
LEMMA LoadedRows ==
  ASSUME Codec!CodecAssumption, TableInv
  PROVE  {r \in DOMAIN table : /\ ~Codec!Less(r, Codec!EncodeZscore(<<>>, 0))
                               /\ Codec!Less(r, Codec!EncodeZscore(<<>>, Codec!ScoreMax))}
           = {IndexRow(m) : m \in Loadable}
<1> DEFINE lo == Codec!EncodeZscore(<<>>, 0)
           hi == Codec!EncodeZscore(<<>>, Codec!ScoreMax)
           In(r) == ~Codec!Less(r, lo) /\ Codec!Less(r, hi)
<1>1. stored \subseteq Seq(Int) /\ Members \subseteq Seq(Int)
  BY NamesType DEF TableInv
<1>2. \A m \in Dated(deadline) : m \in Members /\ deadline[m][1] \in Scorable
  BY DEF TableInv, CodecInv, Dated, Codec!CodecAssumption, Scorable
<1>3. ASSUME NEW m \in Dated(deadline)
      PROVE  In(Codec!EncodeZscore(m, deadline[m][1])) <=> m \in Loadable
  <2>1. m \in Seq(Int) /\ deadline[m][1] \in Scorable
    BY <1>1, <1>2
  <2>2. In(Codec!EncodeZscore(m, deadline[m][1])) <=> deadline[m][1] \in 0 .. Codec!ScoreMax - 1
    BY <2>1, IndexRange
  <2> QED
    BY <2>2 DEF Loadable, Dated
<1>4. lo \in Seq(Int) /\ Len(lo) > 0 /\ lo[1] = ZSCORE
  <2> DEFINE o == <<>>
  <2>1. o \in Seq(Int) /\ Len(o) = 0
    OBVIOUS
  <2> HIDE DEF o
  <2>2. 0 \in Scorable
    <3>1. Codec!Modulus \in Nat /\ Codec!Modulus >= 4
      BY ModulusSize
    <3> QED
      BY <3>1 DEF Scorable, Codec!ScoreMax
  <2> DEFINE q == Codec!EncodeZscore(o, 0)
             p == 2 + Len(ExpireKey)
  <2>3. q \in Seq(Int) /\ p \in Nat /\ Bytes \in Nat /\ Len(q) = p + Bytes + 1 + Len(o) /\ q[1] = ZSCORE
    BY <2>1, <2>2, ZscoreRow, Zenon
  <2> HIDE DEF q, p
  <2>4. Len(q) > 0
    BY <2>1, <2>3
  <2> QED
    BY <2>3, <2>4 DEF q, o
<1> HIDE DEF lo
<1>5. ASSUME NEW r \in Seq(Int), Len(r) > 0, r[1] < ZSCORE PROVE ~In(r)
  <2>1. Codec!Less(r, lo)
    BY <1>4, <1>5, FlagOrder
  <2> QED
    BY <2>1
<1> HIDE DEF In
<1>6. ASSUME NEW m \in Dated(deadline) PROVE ~In(Codec!EncodeZset(m))
  <2> DEFINE r == Codec!EncodeZset(m)
  <2>1. m \in Seq(Int) /\ Len(m) \in Nat /\ Len(ExpireKey) \in Nat
    BY <1>1, NamesType DEF Dated
  <2>2. r \in Seq(Int) /\ Len(r) = 3 + Len(ExpireKey) + Len(m) /\ r[1] = ZSET
    BY <2>1, ZsetRow
  <2>3. ZSET < ZSCORE
    BY NamesType
  <2>4. Len(r) > 0 /\ r[1] < ZSCORE
    BY <2>1, <2>2, <2>3
  <2> HIDE DEF r
  <2>5. ~In(r)
    BY <1>5, <2>2, <2>4
  <2> QED
    BY <2>5 DEF r
<1>7. ASSUME NEW k \in stored PROVE ~In(Codec!EncodeString(k))
  <2> DEFINE r == Codec!EncodeString(k)
  <2>1. k \in Seq(Int) /\ Len(k) \in Nat
    BY <1>1
  <2>2. r \in Seq(Int) /\ Len(r) = 1 + Len(k) /\ r[1] = KV
    BY <2>1, StringRow
  <2>3. KV < ZSCORE
    BY NamesType
  <2>4. Len(r) > 0 /\ r[1] < ZSCORE
    BY <2>1, <2>2, <2>3
  <2> HIDE DEF r
  <2>5. ~In(r)
    BY <1>5, <2>2, <2>4
  <2> QED
    BY <2>5 DEF r
<1>8. DOMAIN table = RowsOf(stored, deadline) /\ Loadable \subseteq Dated(deadline)
  BY DEF TableInv, Loadable, Dated
<1>9. {r \in DOMAIN table : In(r)} = {IndexRow(m) : m \in Loadable}
  BY <1>3, <1>6, <1>7, <1>8 DEF RowsOf, IndexRow
<1> QED
  BY <1>9 DEF In, lo

\* The rows of the index, one for each member and read back as it.
LEMMA LoadedSize ==
  ASSUME Codec!CodecAssumption, TableInv
  PROVE  LET S == {IndexRow(m) : m \in Loadable}
         IN  /\ S \in SUBSET Seq(Int) /\ IsFiniteSet(S) /\ Cardinality(S) = Cardinality(Loadable)
             /\ \A m, n \in Loadable : IndexRow(m) = IndexRow(n) => m = n
             /\ \A m \in Loadable :
                  /\ Codec!DecodeZscore(IndexRow(m)) = [score |-> deadline[m][1], member |-> m]
                  /\ m \in Members /\ deadline[m][1] \in Int /\ deadline[m] = <<deadline[m][1]>>
             /\ \A m, n \in Loadable :
                  deadline[m][1] < deadline[n][1] => Codec!Less(IndexRow(m), IndexRow(n))
<1> DEFINE S == {IndexRow(m) : m \in Loadable}
           f == [m \in Loadable |-> IndexRow(m)]
<1>1. ASSUME NEW m \in Loadable
      PROVE  /\ m \in Members /\ m \in Seq(Int) /\ deadline[m][1] \in Scorable /\ deadline[m][1] >= 0
             /\ deadline[m][1] \in Int /\ deadline[m] = <<deadline[m][1]>>
  <2>1. m \in Members /\ deadline[m] # Codec!None /\ deadline[m][1] \in 0 .. Codec!ScoreMax - 1
    BY DEF Loadable
  <2>2. m \in Seq(Int)
    BY <2>1, NamesType
  <2>3. PICK s \in Deadlines : deadline[m] = <<s>>
    BY <2>1 DEF TableInv, CodecInv
  <2>4. deadline[m][1] = s /\ s \in Scorable
    BY <2>3 DEF Codec!CodecAssumption, Scorable
  <2>5. s \in Int
    BY <2>4, ScoreUnsigned
  <2>6. s >= 0
    BY <2>1, <2>4, <2>5, ScoreUnsigned
  <2> QED
    BY <2>1, <2>2, <2>3, <2>4, <2>5, <2>6
<1>2. \A m, n \in Loadable : IndexRow(m) = IndexRow(n) => m = n
  BY <1>1, RowsApart DEF IndexRow
<1>3. \A m \in Loadable : IndexRow(m) \in Seq(Int)
  BY <1>1, ZscoreRow DEF IndexRow
<1>4. \A m \in Loadable : Codec!DecodeZscore(IndexRow(m)) = [score |-> deadline[m][1], member |-> m]
  BY <1>1, ZscoreDecoded DEF IndexRow
<1>5. ASSUME NEW m \in Loadable, NEW n \in Loadable, deadline[m][1] < deadline[n][1]
      PROVE  Codec!Less(IndexRow(m), IndexRow(n))
  <2> DEFINE s == deadline[m][1]
             t == deadline[n][1]
  <2>1. /\ m \in Seq(Int) /\ s \in Scorable /\ s >= 0 /\ n \in Seq(Int) /\ t \in Scorable /\ t >= 0
        /\ s < t
    BY <1>1, <1>5
  <2> HIDE DEF s, t
  <2>2. s % Codec!Modulus = s /\ t % Codec!Modulus = t
    BY <2>1, ScoreUnsigned
  <2>3. Codec!Less(Codec!EncodeZscore(m, s), Codec!EncodeZscore(n, t))
    BY <2>1, <2>2, IndexOrder
  <2> QED
    BY <2>3 DEF s, t, IndexRow
<1>6. S \in SUBSET Seq(Int)
  BY <1>3
<1>7. IsFiniteSet(Loadable)
  <2>1. Loadable \subseteq Names \cup Members
    BY DEF Loadable
  <2> QED
    BY <2>1, NamesType, FS_Subset
<1>8. f \in Injection(Loadable, S) /\ f \in Surjection(Loadable, S)
  BY <1>2 DEF Injection, IsInjective, Surjection
<1>9. ExistsBijection(Loadable, S)
  BY <1>8 DEF ExistsBijection, Bijection
<1> HIDE DEF S
<1>10. IsFiniteSet(S) /\ Cardinality(S) = Cardinality(Loadable)
  BY <1>7, <1>9, FS_Bijection
<1> QED
  BY <1>1, <1>2, <1>4, <1>5, <1>6, <1>10 DEF S

\* The rows of TableInv are all that LoadExpirationKeys depends on.
LEMMA TableLoads ==
  ASSUME Codec!CodecAssumption, TableInv
  PROVE  Codec!LoadsEarliest
<1> SUFFICES ASSUME NEW limit \in Codec!Limits
             PROVE  LET L == Codec!LoadExpirationKeys(limit)
                        D == Loadable
                    IN  /\ Len(L) = (IF limit < Codec!Cardinality(D) THEN limit ELSE Codec!Cardinality(D))
                        /\ Codec!IsInjective([i \in DOMAIN L |-> L[i].member])
                        /\ \A i \in DOMAIN L : L[i].member \in D /\ deadline[L[i].member] = <<L[i].score>>
                        /\ \A i \in DOMAIN L, m \in D :
                             m \in {L[j].member : j \in DOMAIN L} \/ L[i].score <= deadline[m][1]
                        /\ \A i, j \in DOMAIN L : i < j => L[i].score <= L[j].score
  BY DEF Codec!LoadsEarliest, Loadable
<1> DEFINE D == Loadable
           S == {IndexRow(m) : m \in D}
           A == Codec!Ascending(S)
           n == Cardinality(S)
           c == Capped(n, limit)
           R == Codec!UpTo(A, limit)
           L == Codec!LoadExpirationKeys(limit)
<1>1. limit \in Nat
  <2>1. Codec!Cardinality(Names \cup Members) \in Nat
    BY NamesType, SameCodecSets, FS_CardinalityType
  <2> QED
    BY <2>1 DEF Codec!Limits
<1>2. /\ S \in SUBSET Seq(Int) /\ IsFiniteSet(S) /\ n = Codec!Cardinality(D)
      /\ \A l, m \in D : IndexRow(l) = IndexRow(m) => l = m
      /\ \A m \in D : /\ Codec!DecodeZscore(IndexRow(m)) = [score |-> deadline[m][1], member |-> m]
                      /\ deadline[m][1] \in Int /\ deadline[m] = <<deadline[m][1]>>
      /\ \A l, m \in D : deadline[l][1] < deadline[m][1] => Codec!Less(IndexRow(l), IndexRow(m))
  BY LoadedSize, SameCodecSets
<1>3. L = [i \in DOMAIN R |-> Codec!DecodeZscore(R[i])]
  BY LoadedRows DEF Codec!LoadExpirationKeys, Codec!RowsIn
<1>4. \A r \in S : \E m \in D : r = IndexRow(m)
  OBVIOUS
<1>5. \A m \in D : IndexRow(m) \in S
  OBVIOUS
<1> HIDE DEF D, S, L
<1>6. n \in Nat /\ A \in [1 .. n -> S] /\ \A i \in 1 .. n : Rank(S, A[i]) = i - 1
  BY <1>2, AscendingRows
<1> HIDE DEF A, n
<1>7. c \in 0 .. n /\ DOMAIN R = 1 .. c /\ \A i \in 1 .. c : R[i] = A[i]
  <2>1. IsUpTo(R, A, n, limit, S)
    BY <1>1, <1>6, UpToResult, Zenon
  <2> HIDE DEF R
  <2> QED
    BY <2>1 DEF IsUpTo
<1>8. c = IF limit < Codec!Cardinality(D) THEN limit ELSE Codec!Cardinality(D)
  BY <1>2 DEF Capped
<1> HIDE DEF c, R
<1>9. DOMAIN L = 1 .. c /\ Len(L) = c /\ c \in Nat
  <2>1. DOMAIN L = 1 .. c /\ c \in Nat
    BY <1>3, <1>6, <1>7
  <2>2. L = [i \in 1 .. c |-> L[i]]
    BY <1>3, <2>1
  <2> QED
    BY <2>1, <2>2
<1>10. ASSUME NEW i \in 1 .. c
       PROVE  \E m \in D : A[i] = IndexRow(m) /\ L[i] = [score |-> deadline[m][1], member |-> m]
  <2>1. i \in 1 .. n /\ L[i] = Codec!DecodeZscore(A[i])
    BY <1>3, <1>6, <1>7, <1>9
  <2>2. A[i] \in S
    BY <1>6, <2>1
  <2>3. PICK m \in D : A[i] = IndexRow(m)
    BY <1>4, <2>2
  <2> QED
    BY <1>2, <2>1, <2>3
<1>11. ASSUME NEW i \in 1 .. c
       PROVE  /\ L[i].member \in D /\ A[i] = IndexRow(L[i].member)
              /\ L[i].score = deadline[L[i].member][1] /\ L[i].score \in Int
              /\ deadline[L[i].member] = <<L[i].score>> /\ A[i] \in S /\ Rank(S, A[i]) = i - 1 /\ i \in 1 .. n
  <2>1. PICK m \in D : A[i] = IndexRow(m) /\ L[i] = [score |-> deadline[m][1], member |-> m]
    BY <1>10
  <2>2. L[i].member = m /\ L[i].score = deadline[m][1]
    BY <2>1
  <2>3. i \in 1 .. n
    BY <1>6, <1>7
  <2> QED
    BY <1>2, <1>6, <2>1, <2>2, <2>3
<1>12. ASSUME NEW i \in 1 .. c, NEW m \in D, i - 1 < Rank(S, IndexRow(m))
       PROVE  L[i].score <= deadline[m][1]
  <2>1. A[i] \in S /\ IndexRow(m) \in S /\ Rank(S, A[i]) < Rank(S, IndexRow(m))
    BY <1>5, <1>11, <1>12
  <2>2. Codec!Less(A[i], IndexRow(m))
    BY <1>2, <2>1, RankOrder
  <2>3. ~Codec!Less(IndexRow(m), A[i])
    BY <1>2, <2>1, <2>2, LessTransitive, LessIrreflexive
  <2>4. ~(deadline[m][1] < deadline[L[i].member][1])
    BY <1>2, <1>11, <2>3
  <2> QED
    BY <1>2, <1>11, <2>4
<1>13. Codec!IsInjective([i \in DOMAIN L |-> L[i].member])
  <2> SUFFICES ASSUME NEW i \in 1 .. c, NEW j \in 1 .. c, L[i].member = L[j].member PROVE i = j
    BY <1>9 DEF Codec!IsInjective
  <2>1. i - 1 = j - 1
    BY <1>11
  <2> QED
    BY <2>1
<1>14. \A i, j \in 1 .. c : i < j => L[i].score <= L[j].score
  <2> SUFFICES ASSUME NEW i \in 1 .. c, NEW j \in 1 .. c, i < j PROVE L[i].score <= L[j].score
    OBVIOUS
  <2>1. L[j].member \in D /\ Rank(S, IndexRow(L[j].member)) = j - 1 /\ L[j].score = deadline[L[j].member][1]
    BY <1>11
  <2>2. i - 1 < j - 1
    BY <1>9
  <2> QED
    BY <1>12, <2>1, <2>2
<1>15. ASSUME NEW i \in 1 .. c, NEW m \in D
       PROVE  m \in {L[j].member : j \in 1 .. c} \/ L[i].score <= deadline[m][1]
  <2> DEFINE k == Rank(S, IndexRow(m)) + 1
  <2>1. IndexRow(m) \in S
    BY <1>5
  <2>2. k \in 1 .. n /\ k - 1 = Rank(S, IndexRow(m))
    BY <1>2, <1>6, <2>1, RankType DEF n
  <2> HIDE DEF k
  <2>3. CASE k <= c
    <3>1. k \in 1 .. c
      BY <1>9, <2>2, <2>3
    <3>2. Rank(S, A[k]) = Rank(S, IndexRow(m)) /\ A[k] \in S
      BY <1>11, <2>2, <3>1
    <3>3. A[k] = IndexRow(m)
      BY <1>2, <2>1, <3>2, RankInjective
    <3>4. L[k].member = m
      BY <1>2, <1>11, <3>1, <3>3
    <3> QED
      BY <3>1, <3>4
  <2>4. CASE k > c
    <3>1. i - 1 < Rank(S, IndexRow(m))
      BY <1>6, <1>9, <2>2, <2>4
    <3> QED
      BY <1>12, <3>1
  <2> QED
    BY <1>6, <1>9, <2>2, <2>3, <2>4
<1> QED
  BY <1>8, <1>9, <1>11, <1>13, <1>14, <1>15 DEF D, L

(***************************************************************************)
(* For any width and base of the bytes, any deadlines of that width and    *)
(* any finite set of names: LoadExpirationKeys reads the earliest          *)
(* deadlines, each once, with the member and the number that were written. *)
(***************************************************************************)
THEOREM CodecLoadsEarliest ==
  Codec!CodecAssumption => (Codec!Spec => []LoadsEarliest)
<1> SUFFICES ASSUME Codec!CodecAssumption PROVE Codec!Spec => []LoadsEarliest
  OBVIOUS
<1>1. Codec!Init => TableInv
  BY InitTableInv
<1>2. TableInv /\ [Codec!Next]_(Codec!vars) => TableInv'
  BY NextTableInv
<1>3. TableInv => LoadsEarliest
  BY TableLoads DEF LoadsEarliest
<1> QED
  BY <1>1, <1>2, <1>3, PTL DEF Codec!Spec
=============================================================================
