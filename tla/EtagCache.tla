----------------------------- MODULE EtagCache -----------------------------
(***************************************************************************)
(* The ETag cache (xEtagManager.cpp): `count` shards, each a list of tags  *)
(* with the last used in front and a map from a tag to its place in the    *)
(* list, an iterator.  Iterators stay valid while their node is in the     *)
(* list and dangle when it was freed, so that the nodes of the lists are   *)
(* modelled and may be allocated again.  Each shard has a lock, the        *)
(* counters of the hit rate have none.                                     *)
(***************************************************************************)
EXTENDS Integers, Sequences, FiniteSets, SequencesExt

CONSTANTS
    Threads,       \* the threads of the HTTP servers
    Hashes,        \* MurmurHash64A of the keys
    Timestamps,    \* of their values
    Width,         \* 2^64
    count,         \* etag_cache_count
    capacity,      \* etag_cache_size
    Nodes,         \* the addresses list nodes are allocated at
    NoNode,        \* etagmap.end()
    MaxLookups     \* bound: calls of GetKey

CacheAssumption ==
    /\ count \in Nat \ {0} /\ capacity \in Nat \ {0} /\ Width \in Nat \ {0}
    /\ Hashes \cup Timestamps \subseteq 0 .. Width - 1
    /\ NoNode \notin Nodes /\ MaxLookups \in Nat
    /\ IsFiniteSet(Nodes) /\ Cardinality(Nodes) >= count * capacity

VARIABLES
    value,         \* the tag in each node
    etaglist,      \* EtagCache::etaglist of each shard, as nodes
    etagmap,       \* EtagCache::etagmap of each shard
    get_hit, total_times,  \* the counters of xEtagManager
    pc, tag, reg,  \* of each thread in GetKey: where it is, its hashkey, and
                   \* the counter it read
    lookups,       \* history: calls of GetKey, bounded by MaxLookups
    last           \* history: the tag used last, NoNode before the first use

cache == <<value, etaglist, etagmap>>
counters == <<get_hit, total_times>>
threads == <<pc, tag, reg>>
vars == <<cache, counters, threads, lookups, last>>

Shards == 0 .. count - 1

\* hash + timestamp, in 64 bits.
HashKey(h, ts) == (h + ts) % Width

Tags == {HashKey(h, ts) : h \in Hashes, ts \in Timestamps}

Shard(x) == x % count

Full(i) == Len(etaglist[i]) = capacity

\* The nodes of the other lists, and of this one less the last of a full list.
InUse(i) ==
    (UNION {Range(etaglist[j]) : j \in Shards \ {i}})
        \cup Range(IF Full(i) THEN Front(etaglist[i]) ELSE etaglist[i])
-----------------------------------------------------------------------------
(* Faulty variants of the operations.                                      *)

\* Set that drops the last tag and leaves it in the map.
InsertKeepsEntry(i, x, n) ==
    LET kept == IF Full(i) THEN Front(etaglist[i]) ELSE etaglist[i]
    IN  /\ value' = [value EXCEPT ![n] = x]
        /\ etaglist' = [etaglist EXCEPT ![i] = <<n>> \o kept]
        /\ etagmap' = [etagmap EXCEPT ![i][x] = n]

\* splice without effect: a tag that is used keeps its place.
MoveToFrontNot(i, x) == UNCHANGED cache
-----------------------------------------------------------------------------
(* EtagCache, under etaglock.                                              *)

Found(i, x) == etagmap[i][x] # NoNode

\* A new node n for a tag that is not in the map: the last one leaves a full
\* list and the map.
Insert(i, x, n) ==
    LET old  == IF Full(i) THEN {value[Last(etaglist[i])]} ELSE {}
        kept == IF Full(i) THEN Front(etaglist[i]) ELSE etaglist[i]
    IN  /\ value' = [value EXCEPT ![n] = x]
        /\ etaglist' = [etaglist EXCEPT ![i] = <<n>> \o kept]
        /\ etagmap' = [etagmap EXCEPT ![i] =
                          [y \in Tags |-> IF y = x THEN n
                                          ELSE IF y \in old THEN NoNode ELSE @[y]]]

\* splice: the node the map names moves to the front.
MoveToFront(i, x) ==
    LET n == etagmap[i][x]
    IN  /\ etaglist' = [etaglist EXCEPT ![i] = <<n>> \o RemoveFirst(@, n)]
        /\ UNCHANGED <<value, etagmap>>

Set(i, x) ==
    \/ Found(i, x) /\ MoveToFront(i, x)
    \/ ~Found(i, x) /\ \E n \in Nodes \ InUse(i) : Insert(i, x, n)

Get(i, x) == IF Found(i, x) THEN MoveToFront(i, x) ELSE UNCHANGED cache
-----------------------------------------------------------------------------
(* xEtagManager.                                                           *)

SetKey(t, h, ts) ==
    LET x == HashKey(h, ts)
    IN  /\ pc[t] = "idle"
        /\ Set(Shard(x), x)
        /\ last' = x
        /\ UNCHANGED <<counters, threads, lookups>>

\* GetKey reads total_times to add 1 to it, writes it, looks the tag up, and
\* for a hit reads and writes get_hit.
GetKey(t, h, ts) ==
    /\ pc[t] = "idle"
    /\ lookups < MaxLookups
    /\ lookups' = lookups + 1
    /\ tag' = [tag EXCEPT ![t] = HashKey(h, ts)]
    /\ reg' = [reg EXCEPT ![t] = total_times]
    /\ pc' = [pc EXCEPT ![t] = "total"]
    /\ UNCHANGED <<cache, counters, last>>

CountTotal(t) ==
    /\ pc[t] = "total"
    /\ total_times' = reg[t] + 1
    /\ pc' = [pc EXCEPT ![t] = "get"]
    /\ UNCHANGED <<cache, get_hit, tag, reg, lookups, last>>

LookUp(t) ==
    LET i == Shard(tag[t])
        found == Found(i, tag[t])
    IN  /\ pc[t] = "get"
        /\ Get(i, tag[t])
        /\ reg' = [reg EXCEPT ![t] = IF found THEN get_hit ELSE 0]
        /\ tag' = [tag EXCEPT ![t] = 0]
        /\ last' = IF found THEN tag[t] ELSE last
        /\ pc' = [pc EXCEPT ![t] = IF found THEN "hit" ELSE "idle"]
        /\ UNCHANGED <<counters, lookups>>

CountHit(t) ==
    /\ pc[t] = "hit"
    /\ get_hit' = reg[t] + 1
    /\ reg' = [reg EXCEPT ![t] = 0]
    /\ pc' = [pc EXCEPT ![t] = "idle"]
    /\ UNCHANGED <<cache, total_times, tag, lookups, last>>

Init ==
    /\ value = [n \in Nodes |-> 0]
    /\ etaglist = [i \in Shards |-> <<>>]
    /\ etagmap = [i \in Shards |-> [x \in Tags |-> NoNode]]
    /\ get_hit = 0
    /\ total_times = 0
    /\ pc = [t \in Threads |-> "idle"]
    /\ tag = [t \in Threads |-> 0]
    /\ reg = [t \in Threads |-> 0]
    /\ lookups = 0
    /\ last = NoNode

Next ==
    \E t \in Threads :
        \/ \E h \in Hashes, ts \in Timestamps : SetKey(t, h, ts) \/ GetKey(t, h, ts)
        \/ CountTotal(t)
        \/ LookUp(t)
        \/ CountHit(t)

Spec == Init /\ [][Next]_vars
-----------------------------------------------------------------------------
(***************************************************************************)
(* The map and the list of a shard name each other: every iterator in the  *)
(* map is a node of the list that holds its tag, and every node of the     *)
(* list is in the map.  An iterator to a freed node would be followed by   *)
(* the next splice.                                                        *)
(***************************************************************************)
IteratorsValid ==
    \A i \in Shards :
        /\ \A x \in Tags : Found(i, x) => /\ etagmap[i][x] \in Range(etaglist[i])
                                          /\ value[etagmap[i][x]] = x
        /\ \A n \in Range(etaglist[i]) : etagmap[i][value[n]] = n

Lru == INSTANCE LruCache
    WITH recent <- [i \in Shards |-> [j \in DOMAIN etaglist[i] |-> value[etaglist[i][j]]]]

(***************************************************************************)
(* Each shard is an LRU cache: Set evicts the tag used least recently and  *)
(* nothing else, and Get renews a tag it finds.                            *)
(***************************************************************************)
ImplementsLru == Lru!LruSpec
=============================================================================
