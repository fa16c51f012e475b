------------------------------ MODULE LruCache ------------------------------
(***************************************************************************)
(* What a shard of the ETag cache promises: it knows the `capacity` tags   *)
(* used last, where a use is a Set, or a Get that found its tag.           *)
(***************************************************************************)
EXTENDS Naturals, Sequences, SequencesExt

CONSTANTS
    Shards,        \* the independent caches
    Tags,          \* what they hold
    Shard(_),      \* the shard of a tag
    capacity,      \* of each shard
    NoNode         \* no tag

VARIABLES
    recent,        \* recent[i]: the tags of shard i, the last used first
    last           \* the tag used last

LruInit == recent = [i \in Shards |-> <<>>] /\ last = NoNode

\* x moves to the front, and what does not fit leaves at the back.
Used(s, x) ==
    LET t == <<x>> \o RemoveFirst(s, x)
    IN  SubSeq(t, 1, IF Len(t) < capacity THEN Len(t) ELSE capacity)

Use(x) ==
    /\ recent' = [recent EXCEPT ![Shard(x)] = Used(@, x)]
    /\ last' = x

LruNext == \E x \in Tags : Use(x)

LruSpec == LruInit /\ [][LruNext]_<<recent, last>>
=============================================================================
