------------------------------ MODULE RowCodec ------------------------------
(***************************************************************************)
(* The rows of xDataBase as RocksDB sees them (xDataBase.cpp, sorted_set.h,*)
(* util.h): byte strings in lexicographic order, in which EncodeKey puts   *)
(* values, deadlines and the index by deadline side by side, and from      *)
(* which scans read ranges.  The other modules hold the three kinds of     *)
(* rows as tables of their own; here the tables are ghosts.                *)
(***************************************************************************)
EXTENDS Integers, Sequences, FiniteSets, Functions

CONSTANTS
    Base,              \* values of a byte (256)
    Width,             \* bytes of an int64_t (8)
    KV, ZSET, ZSCORE,  \* DataTypeFlag
    Colon,             \* ':'
    ExpireKey,         \* the name of the sorted set of deadlines
    Keys, Members,     \* names of values and of keys with a deadline
    Scores             \* deadlines

Byte == 0 .. (Base - 1)

\* The powers of Base, as a recursive function that proofs can unfold.
Power[n \in 0 .. Width] == IF n = 0 THEN 1 ELSE Base * Power[n - 1]

Modulus == Power[Width]
ScoreMax == (Modulus \div 2) - 1      \* SCORE_MAX, INT64_MAX
None == <<>>                          \* no deadline

CodecAssumption ==
    /\ Base \in Nat /\ Base > 3 /\ Base % 2 = 0 /\ Width \in Nat \ {0}
    /\ {KV, ZSET, ZSCORE, Colon} \subseteq Byte
    /\ KV < ZSET /\ ZSET < ZSCORE /\ ZSCORE < Base - 1
    /\ IsFiniteSet(Keys \cup Members)
    /\ \A s \in Keys \cup Members \cup {ExpireKey} : s # <<>> /\ s \in Seq(Byte)
    /\ Len(ExpireKey) < Base
    /\ Scores \subseteq (-(Modulus \div 2)) .. ScoreMax

VARIABLES
    rows,        \* RocksDB: row key -> value
    stored,      \* history: the keys with a value
    deadline     \* history: the deadline of each member, <<score>> or None

vars == <<rows, stored, deadline>>

\* The order of RocksDB's BytewiseComparator.
Less(a, b) ==
    \E n \in 0 .. Len(a) :
        /\ n < Len(b) /\ SubSeq(a, 1, n) = SubSeq(b, 1, n)
        /\ n = Len(a) \/ a[n + 1] < b[n + 1]

\* The rows of S in this order: the i-th has i - 1 rows of S before it.
Ascending(S) ==
    [i \in 1 .. Cardinality(S) |->
        CHOOSE r \in S : Cardinality({q \in S : Less(q, r)}) = i - 1]

\* The first elements of a sequence, at most limit of them.
UpTo(seq, limit) == SubSeq(seq, 1, IF limit < Len(seq) THEN limit ELSE Len(seq))

\* An unsigned value shifted right by each number of bytes.
Shifted(u) ==
    LET sh[n \in 0 .. Width] == IF n = 0 THEN u ELSE sh[n - 1] \div Base IN sh
-----------------------------------------------------------------------------
(* Faulty variants of the operations.                                      *)

\* encode_score without the change of byte order on a little-endian machine.
encode_score_native(s) ==
    [i \in 1 .. Width |-> Shifted(s % Modulus)[i - 1] % Base]

\* EncodeKey that puts the length of the member before it into the k rows.
EncodeStringLength(key) == <<KV, Len(key) % Base>> \o key

\* EncodeKey of an s row that leaves out the end of the member.
EncodeZsetShort(member) ==
    <<ZSET, Len(ExpireKey)>> \o ExpireKey \o <<Len(member) % Base>> \o SubSeq(member, 1, 1)
-----------------------------------------------------------------------------
(* EncodeKey and DecodeKey.                                                *)

\* big_endian of the unsigned value.
encode_score(s) ==
    [i \in 1 .. Width |-> Shifted(s % Modulus)[Width - i] % Base]

\* The value of the first bytes of b, for each number of them.
Joined(b) ==
    LET u[i \in 0 .. Width] == IF i = 0 THEN 0 ELSE u[i - 1] * Base + b[i] IN u

decode_score(b) ==
    LET u == Joined(b)[Width] IN IF u > ScoreMax THEN u - Modulus ELSE u

EncodeString(key) == <<KV>> \o key

\* The length of the member is one byte.
EncodeZset(member) ==
    <<ZSET, Len(ExpireKey)>> \o ExpireKey \o <<Len(member) % Base>> \o member

EncodeZscore(member, s) ==
    <<ZSCORE, Len(ExpireKey)>> \o ExpireKey \o encode_score(s) \o <<Colon>> \o member

\* Decoder: a string behind its length; what comes after it.
read_8_data(b) == SubSeq(b, 2, 1 + b[1])
After_8_data(b) == SubSeq(b, 2 + b[1], Len(b))

DecodeString(row) == Tail(row)

DecodeZscore(row) ==
    LET b == After_8_data(Tail(row))
    IN  [score  |-> decode_score(SubSeq(b, 1, Width)),
         member |-> SubSeq(b, Width + 2, Len(b))]
-----------------------------------------------------------------------------
(* Iterators.                                                              *)

\* The first rows from start on and before end, at most limit of them.
RowsIn(start, end, limit) ==
    UpTo(Ascending({r \in DOMAIN rows : ~Less(r, start) /\ Less(r, end)}), limit)

ScanKey(start, end, limit) ==
    LET R == RowsIn(EncodeString(start), EncodeString(end), limit)
    IN  [i \in DOMAIN R |-> DecodeString(R[i])]

LoadExpirationKeys(limit) ==
    LET R == RowsIn(EncodeZscore(<<>>, 0), EncodeZscore(<<>>, ScoreMax), limit)
    IN  [i \in DOMAIN R |-> DecodeZscore(R[i])]
-----------------------------------------------------------------------------
(* The operations that change rows.                                        *)

Put(t, r, v) == [x \in DOMAIN t \cup {r} |-> IF x = r THEN v ELSE t[x]]
Delete(t, r) == [x \in DOMAIN t \ {r} |-> t[x]]

Set(k) ==
    /\ rows' = Put(rows, EncodeString(k), None)
    /\ stored' = stored \cup {k}
    /\ UNCHANGED deadline

Del(k) ==
    /\ rows' = Delete(rows, EncodeString(k))
    /\ stored' = stored \ {k}
    /\ UNCHANGED deadline

\* The old score, <<score>>, or None.
Zget(m) == IF EncodeZset(m) \in DOMAIN rows THEN rows[EncodeZset(m)] ELSE None

\* The rows without the index row of the score old.
Unindexed(m, old) == IF old = None THEN rows ELSE Delete(rows, EncodeZscore(m, old[1]))

Zset(m, s) ==
    /\ Zget(m) # <<s>>
    /\ rows' = Put(Put(Unindexed(m, Zget(m)), EncodeZscore(m, s), None),
                   EncodeZset(m), <<s>>)
    /\ deadline' = [deadline EXCEPT ![m] = <<s>>]
    /\ UNCHANGED stored

Zdel(m) ==
    /\ Zget(m) # None
    /\ rows' = Delete(Unindexed(m, Zget(m)), EncodeZset(m))
    /\ deadline' = [deadline EXCEPT ![m] = None]
    /\ UNCHANGED stored

Init ==
    /\ rows = <<>>
    /\ stored = {}
    /\ deadline = [m \in Members |-> None]

Next ==
    \/ \E k \in Keys : Set(k) \/ Del(k)
    \/ \E m \in Members : Zdel(m) \/ \E s \in Scores : Zset(m, s)

Spec == Init /\ [][Next]_vars
-----------------------------------------------------------------------------
(* Properties.                                                             *)

Limits == 0 .. (Cardinality(Keys \cup Members) + 1)

\* Each member has the deadline it was last given, whatever other names are
\* like it: no two of them share an s row, and no row of another kind is one.
DeadlinesKept == \A m \in Members : Zget(m) = deadline[m]

\* A scan from any key lists, in order, the keys that have a value, however
\* the rows of deadlines lie around them, up to its limit.
ScanListsKeys ==
    \A start \in Keys \cup {<<>>}, limit \in Limits :
        ScanKey(start, <<Base - 1>>, limit)
            = UpTo(Ascending({k \in stored : ~Less(k, start) /\ Less(k, <<Base - 1>>)}), limit)

\* The rows that LoadExpirationKeys reads for the cache are the deadlines from
\* the epoch to SCORE_MAX, each once and the earliest first: the byte order of
\* the index is the order of the numbers.
LoadsEarliest ==
    \A limit \in Limits :
        LET L == LoadExpirationKeys(limit)
            D == {m \in Members : deadline[m] # None
                                  /\ deadline[m][1] \in 0 .. (ScoreMax - 1)}
        IN  /\ Len(L) = (IF limit < Cardinality(D) THEN limit ELSE Cardinality(D))
            /\ IsInjective([i \in DOMAIN L |-> L[i].member])
            /\ \A i \in DOMAIN L : L[i].member \in D /\ deadline[L[i].member] = <<L[i].score>>
            /\ \A i \in DOMAIN L, m \in D :
                   m \in {L[j].member : j \in DOMAIN L} \/ L[i].score <= deadline[m][1]
            /\ \A i, j \in DOMAIN L : i < j => L[i].score <= L[j].score
=============================================================================
