------------------------------ MODULE MCStorage ------------------------------
(***************************************************************************)
(* One model of the containers (SortedSet, EtagCache, IniFile) and of the  *)
(* tables (RowCodec, FlushRows).  They have no state in common: Init       *)
(* chooses which part moves and the others stay as they are.               *)
(***************************************************************************)
EXTENDS SortedSet

CONSTANTS
    Threads, Hashes, Timestamps, Width, count, capacity, Nodes, NoNode, MaxLookups,
    Sections, ValueNames, CheckCase, Values, UserFiles, MaxSections, MaxCalls,
    Base, Bytes, KV, ZSET, ZSCORE, Colon, ExpireKey, Names, Members, Deadlines,
    FlushKeys, Dues, MaxAsked, MaxFaults

VARIABLES
    part,          \* the part that moves
    value, etaglist, etagmap, get_hit, total_times, pc, tag, reg, lookups, last,
    ini, file, calls,
    table, stored, deadline,
    rows, rpc, arg, rold, todo, range, flushed, fresh, answered,
    xpc, x, xold, asked, faults, crashes

etags == <<value, etaglist, etagmap, get_hit, total_times, pc, tag, reg, lookups, last>>
ini_file == <<ini, file, calls>>
codec == <<table, stored, deadline>>
flush == <<rows, rpc, arg, rold, todo, range, flushed, fresh, answered,
           xpc, x, xold, asked, faults, crashes>>

Etags == INSTANCE EtagCache
Ini == INSTANCE IniFile
Codec == INSTANCE RowCodec
    WITH rows <- table, Width <- Bytes, Keys <- Names, Scores <- Deadlines
Flush == INSTANCE FlushRows WITH Keys <- FlushKeys, Deadlines <- Dues

ASSUME Etags!CacheAssumption /\ Ini!IniAssumption /\ Ini!CallsAssumption
ASSUME Codec!CodecAssumption /\ Flush!FlushAssumption

\* Bytes with six values; names that are prefixes of each other, hold the
\* flags and the colon, and one too long for its length byte.
MCExpireKey == <<3>>
MCNames == {<<0>>, <<0, 1>>, <<3, 1>>, <<5>>}
MCMembers == {<<0>>, <<0, 1>>, <<0, 1, 1, 1, 1, 1, 1>>}
MCDeadlines == {-2, 0, 1, 6, 16, 17}

\* Two spellings of a section and of a value.
MCSections == {"", "a", "A"}

MCValueNames == {"x", "X"}

MCCheckCase == [n \in MCSections \cup MCValueNames |->
                    CASE n = "A" -> "a" [] n = "X" -> "x" [] OTHER -> n]

Line(kind, n, text) == [kind |-> kind, name |-> n, text |-> text]
Section(s) == Line("section", s, "")
Value(n, v) == Line("value", n, v)
Comment(c) == Line("comment", "", c)

\* A value before any section, a section twice, a value twice, and a line
\* that is not text.
MCUserFiles ==
    { <<Section("a")>>,
      <<Value("x", "1"), Section("a"), Value("x", "2")>>,
      <<Comment("1"), Section("a"), Value("x", "1"), Section("A"), Comment("2"), Value("X", "2")>>,
      <<Section("A"), Value("X", "1"), Line("binary", "", ""), Value("x", "2")>> }
-----------------------------------------------------------------------------
MCInit ==
    /\ part \in {"set", "etags", "ini", "codec", "flush"}
    /\ Init /\ Etags!Init /\ Ini!Init /\ Codec!Init /\ Flush!Init
    /\ part # "ini" => file = <<Section("a")>>

MCNext ==
    /\ UNCHANGED part
    /\ \/ part = "set"   /\ Next       /\ UNCHANGED <<etags, ini_file, codec, flush>>
       \/ part = "etags" /\ Etags!Next /\ UNCHANGED <<vars, ini_file, codec, flush>>
       \/ part = "ini"   /\ Ini!Next   /\ UNCHANGED <<vars, etags, codec, flush>>
       \/ part = "codec" /\ Codec!Next /\ UNCHANGED <<vars, etags, ini_file, flush>>
       \/ part = "flush" /\ Flush!Next /\ UNCHANGED <<vars, etags, ini_file, codec>>

MCSpec == MCInit /\ [][MCNext]_<<part, vars, etags, ini_file, codec, flush>>
-----------------------------------------------------------------------------
(* The properties of the parts, see their modules.                         *)

\* The list and the iterators of every shard of the ETag cache stay consistent.
IteratorsValid == Etags!IteratorsValid

\* Every shard of the ETag cache evicts the tag used least recently.
ImplementsLru == Etags!ImplementsLru

\* WriteFile and ReadFile give every value back.
RoundTrip == Ini!RoundTrip

\* No call of CIniFile leaves a value that another one hides.
NothingShadowed == Ini!NothingShadowed

\* No two members share the row of their deadline, Zget finds each one's own.
DeadlinesKept == Codec!DeadlinesKept

\* ScanKey lists the keys with a value, in order, between the other rows.
ScanListsKeys == Codec!ScanListsKeys

\* LoadExpirationKeys reads the deadlines in the order of time.
LoadsEarliest == Codec!LoadsEarliest

\* FLUSHALL and SCAN DEL leave nothing of what was there before them.
FlushedGone == Flush!FlushedGone

\* Wherever FLUSHALL is stopped, no value has lost its deadline to it.
ValueGoesFirst == Flush!ValueGoesFirst
=============================================================================
