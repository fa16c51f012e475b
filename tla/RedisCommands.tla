--------------------------- MODULE RedisCommands ---------------------------
(***************************************************************************)
(* The Redis commands with their replies, on a RocksDB whose calls may     *)
(* fail (xRedisServer.cpp, xDataBase.cpp).  ExpireManager has the same     *)
(* commands on a database that never fails; here a handler meets a set of  *)
(* failing calls, and what it ignores of their results shows in what the   *)
(* client is told.  Deadlines are 64-bit numbers and wrap.                 *)
(***************************************************************************)
EXTENDS ExpireManager

CONSTANT MaxFaults     \* bound: handlers in which RocksDB calls fail, and FLUSHALLs

ASSUME FaultsAssumption == MaxFaults \in Nat

VARIABLES
    reply,         \* the last command and its answer, or NoCommand
    promised,      \* history: the last deadline granted to each key
    asked,         \* history: the earliest deadline asked for it
    faults         \* the handlers that met a failing call, and the FLUSHALLs

allvars == <<vars, reply, promised, asked, faults>>
-----------------------------------------------------------------------------
(* Replies: <<"status">> (OK), <<"int", n>>, <<"nil">>, <<"bulk">>,        *)
(* <<"multi">>, <<"error">>, or <<"none">> when the handler returns        *)
(* without one.  The answer to a command that only reads carries no key.   *)

NoCommand == [cmd |-> "", key |-> NoScore, at |-> 0, answer |-> <<"error">>]

Reply(c, k, e, a) == reply' = [cmd |-> c, key |-> k, at |-> e, answer |-> a]

IntReply(b) == <<"int", IF b THEN 1 ELSE 0>>

\* The handler meets the failing calls F.
Meets(F) ==
    /\ faults' = IF F = {} THEN faults ELSE faults + 1
    /\ faults' <= MaxFaults

\* FLUSHALL leaves the cache behind (see ExpireManager) and is counted too.
Flushes == faults' = faults + 1 /\ faults' <= MaxFaults

\* int64_t arithmetic, with Never as INT64_MAX.
Wrap(n) == ((n + Never + 1) % (2 * (Never + 1))) - (Never + 1)

Expired(t) == Wrap(now + Wrap(t * MsPerSec))

\* What a client that asks for e expects, in unbounded time.
Grant(k, t) == promised' = [promised EXCEPT ![k] = now + t * MsPerSec]

Ask(k, e) ==
    asked' = [asked EXCEPT ![k] = IF @ = NoScore \/ e < @ THEN e ELSE @]
-----------------------------------------------------------------------------
(* Faulty variants of the operations.                                      *)

\* Zset that does not look at the result of its last put.
ZsetOkHalf(k, e, F) == ("sget" \in F \/ zset[k] # e) /\ "zput" \notin F

\* Zset that leaves the z row of the deadline it replaces.
LessOldNever(k, F) == zscore

\* ExpireLoop that also takes the keys due before its next look at the clock.
DueSoon(s) == s <= now + 1
-----------------------------------------------------------------------------
(* xDataBase, with the failing calls F.                                    *)

\* Set and Del, which change the k row unless their one call fails.
SetRow(k, F) == IF "put" \in F THEN UNCHANGED <<kv, timed_out>> ELSE Write(k)

DelRow(k, F) == kv' = IF "delete" \in F THEN kv ELSE kv \ {k}

\* Zset returns db_ok.
ZsetOk(k, e, F) ==
    /\ "sget" \in F \/ zset[k] # e
    /\ {"zput", "sput"} \cap F = {}

\* The z row Zset and Zdel delete: when the s row could not be read, the
\* empty score is encoded as 0.
OldRow(k, F) == <<IF "sget" \in F THEN 0 ELSE zset[k], k>>

LessOld(k, F) == IF "zdelete" \in F THEN zscore ELSE zscore \ {OldRow(k, F)}

\* The rows Zset leaves: it deletes the old z row, puts the new one, then the
\* s row, and returns at the first put that fails.
ZsetRows(k, e, F) ==
    IF "sget" \notin F /\ zset[k] = e THEN UNCHANGED <<zset, zscore>>
    ELSE /\ zscore' = LessOld(k, F) \cup (IF "zput" \in F THEN {} ELSE {<<e, k>>})
         /\ zset' = [zset EXCEPT ![k] = IF {"zput", "sput"} \cap F = {} THEN e ELSE @]

\* The rows Zdel leaves; without an s row it returns before any delete.
ZdelRows(k, F) ==
    IF "sget" \notin F /\ zset[k] = NoScore THEN UNCHANGED <<zset, zscore>>
    ELSE /\ zscore' = LessOld(k, F)
         /\ zset' = [zset EXCEPT ![k] = IF "sdelete" \in F THEN @ ELSE NoScore]

\* SetTTL is called once, and by SET a second time when Zset wrote.
TellOnce(k, e) ==
    /\ first_timeout' = Earlier(e)
    /\ sort_set' \in SetTTL(sort_set, k, e)

TellTwice(k, e, again) ==
    /\ first_timeout' = Earlier(e)
    /\ \E m \in SetTTL(sort_set, k, e) :
        sort_set' \in IF again THEN SetTTL(m, k, e) ELSE {m}
-----------------------------------------------------------------------------
(* xRedisServer: the handlers.                                             *)

\* GET answers nothing when the read fails.
ProcessCmd_get(k, F) ==
    /\ Reply("get", NoScore, 0, IF "get" \in F THEN <<"none">>
                          ELSE IF k \in kv THEN <<"bulk">> ELSE <<"nil">>)
    /\ UNCHANGED <<vars, promised, asked>>

\* SET key value answers OK whatever Set returned.
ProcessCmd_set(k, F) ==
    /\ SetRow(k, F)
    /\ Reply("set", k, 0, <<"status">>)
    /\ UNCHANGED <<now, zset, zscore, sort_set, first_timeout, promised, asked>>

\* SET key value EX t.
ProcessCmd_setex(k, t, F) ==
    LET e  == Expired(t)
        ok == ZsetOk(k, e, F)
    IN  /\ SetRow(k, F)
        /\ ZsetRows(k, e, F)
        /\ TellTwice(k, e, ok)
        /\ Reply("setex", k, e, IF ok THEN <<"status">> ELSE <<"nil">>)
        /\ IF ok THEN Grant(k, t) ELSE UNCHANGED promised
        /\ Ask(k, e)
        /\ UNCHANGED now

ProcessCmd_del(k, F) ==
    /\ DelRow(k, F)
    /\ Reply("del", NoScore, 0, IntReply("delete" \notin F))
    /\ UNCHANGED <<now, zset, zscore, sort_set, first_timeout, timed_out,
                   promised, asked>>

\* EXPIRE key t on a key that is read, and on one that is not.
ProcessCmd_expire(k, t, F) ==
    LET e  == Expired(t)
        ok == ZsetOk(k, e, F)
    IN  /\ k \in kv /\ "get" \notin F
        /\ ZsetRows(k, e, F)
        /\ IF ok THEN TellOnce(k, e) /\ Grant(k, t)
                 ELSE UNCHANGED <<first_timeout, sort_set, promised>>
        /\ Reply("expire", k, e, IntReply(ok))
        /\ Ask(k, e)
        /\ UNCHANGED <<now, kv, timed_out>>

ProcessCmd_expire_none(k, t, F) ==
    /\ k \notin kv \/ "get" \in F
    /\ Reply("expire", k, Expired(t), IntReply(FALSE))
    /\ UNCHANGED <<vars, promised, asked>>

\* C's division rounds toward zero.
Div(a, b) == IF a < 0 THEN -((-a) \div b) ELSE a \div b

ProcessCmd_ttl(k, F) ==
    /\ Reply("ttl", NoScore, 0,
             <<"int", CASE "sget" \in F -> 0
                        [] "sget" \notin F /\ zset[k] = NoScore -> -2
                        [] OTHER -> Div(zset[k] - now, MsPerSec)>>)
    /\ UNCHANGED <<vars, promised, asked>>

\* The keys ScanKey finds from start up to but excluding end: db_err is
\* positive, so that SCAN takes a failing iterator for no keys.
ScanKey(start, end, F) ==
    IF "iterator" \in F THEN {} ELSE {k \in kv : start <= k /\ k < end}

ProcessCmd_scan(F) ==
    /\ Reply("scan", NoScore, 0, <<"multi">>)
    /\ UNCHANGED <<vars, promised, asked>>

\* SCAN start end DEL counts the keys it found; kept are those whose delete
\* failed.
ProcessCmd_scandel(start, end, kept, F) ==
    /\ kept \subseteq ScanKey(start, end, F)
    /\ (kept # {}) = ("delete" \in F)
    /\ kv' = kv \ (ScanKey(start, end, F) \ kept)
    /\ Reply("scan", NoScore, 0, <<"int", Cardinality(ScanKey(start, end, F))>>)
    /\ UNCHANGED <<now, zset, zscore, sort_set, first_timeout, timed_out,
                   promised, asked>>

\* FLUSHALL skips the rows it cannot delete: the k rows ks, the s rows ss
\* and the z rows zs.
ProcessCmd_flushall(ks, ss, zs, F) ==
    /\ (ks \cup ss # {} \/ zs # {}) = ("delete" \in F)
    /\ kv' = ks
    /\ zset' = [k \in Keys |-> IF k \in ss THEN zset[k] ELSE NoScore]
    /\ zscore' = zs
    /\ promised' = NoKeys
    /\ Reply("flushall", NoScore, 0, <<"status">>)
    /\ UNCHANGED <<now, sort_set, first_timeout, timed_out, asked>>

\* Without an iterator it returns before its reply.
ProcessCmd_flushall_err ==
    /\ Reply("flushall", NoScore, 0, <<"none">>)
    /\ UNCHANGED <<vars, promised, asked>>

\* A command that is not in the table, or has the wrong number of arguments.
BadCommand ==
    /\ Reply("bad", NoScore, 0, <<"error">>)
    /\ UNCHANGED <<vars, promised, asked>>
-----------------------------------------------------------------------------
(* The expire thread.  ExpireLoop ignores what Del and Zdel return, and     *)
(* pops the key.                                                           *)

Due(s) == s <= now

ExpireDue(m, k, F) ==
    /\ IsFront(m, k)
    /\ Due(m[k])
    /\ first_timeout' = m[k]
    /\ DelRow(k, F)
    /\ timed_out' = timed_out \cup (kv \ kv')
    /\ ZdelRows(k, F)
    /\ sort_set' \in pop_front(m)
    /\ promised' = [promised EXCEPT ![k] = IF "delete" \in F THEN @ ELSE NoScore]
    /\ UNCHANGED now

\* LoadExpirationKeys adds nothing when it gets no iterator.
LoadedWith(F) == IF empty(sort_set) /\ "iterator" \in F THEN {NoKeys} ELSE Cached

ExpirePass(F) ==
    /\ first_timeout <= now
    /\ \E m \in LoadedWith(F) :
        \/ PassEmpty(m) /\ UNCHANGED promised
        \/ \E k \in Keys :
            \/ PassEarly(m, k) /\ UNCHANGED promised
            \/ ExpireDue(m, k, F)
    /\ reply' = NoCommand
    /\ UNCHANGED asked

Environment ==
    /\ Tick \/ Restart
    /\ reply' = NoCommand
    /\ UNCHANGED <<promised, asked, faults>>
-----------------------------------------------------------------------------
CommandsInit ==
    /\ Init
    /\ reply = NoCommand
    /\ promised = NoKeys
    /\ asked = NoKeys
    /\ faults = 0

ZsetCalls == {"sget", "zdelete", "zput", "sput"}

Command ==
    \/ \E k \in Keys, F \in SUBSET {"get"} : Meets(F) /\ ProcessCmd_get(k, F)
    \/ \E k \in Keys, F \in SUBSET {"put"} : Meets(F) /\ ProcessCmd_set(k, F)
    \/ \E k \in Keys, F \in SUBSET {"delete"} : Meets(F) /\ ProcessCmd_del(k, F)
    \/ \E k \in Keys, F \in SUBSET {"sget"} : Meets(F) /\ ProcessCmd_ttl(k, F)
    \/ \E k \in Keys, t \in TTLs, F \in SUBSET (ZsetCalls \cup {"put"}) :
        Meets(F) /\ ProcessCmd_setex(k, t, F)
    \/ \E k \in Keys, t \in TTLs, F \in SUBSET ZsetCalls :
        Meets(F) /\ ProcessCmd_expire(k, t, F)
    \/ \E k \in Keys, t \in TTLs, F \in SUBSET {"get"} :
        Meets(F) /\ ProcessCmd_expire_none(k, t, F)
    \/ \E F \in SUBSET {"iterator"} : Meets(F) /\ ProcessCmd_scan(F)
    \/ \E start, end \in Keys, kept \in SUBSET Keys,
          F \in SUBSET {"iterator", "delete"} :
        Meets(F) /\ ProcessCmd_scandel(start, end, kept, F)
    \/ Meets({}) /\ BadCommand

FlushCommand ==
    \/ \E ks \in SUBSET kv, ss \in SUBSET Held(zset), zs \in SUBSET zscore,
          F \in SUBSET {"delete"} :
        Flushes /\ ProcessCmd_flushall(ks, ss, zs, F)
    \/ Flushes /\ ProcessCmd_flushall_err

ExpireThread ==
    \E F \in SUBSET {"iterator", "delete", "sget", "zdelete", "sdelete"} :
        Meets(F) /\ ExpirePass(F)

CommandsNext == Environment \/ ExpireThread \/ Command \/ FlushCommand

CommandsSpec == CommandsInit /\ [][CommandsNext]_allvars
-----------------------------------------------------------------------------
Granted ==
    \/ reply.cmd = "setex" /\ reply.answer = <<"status">>
    \/ reply.cmd = "expire" /\ reply.answer = <<"int", 1>>

(***************************************************************************)
(* A deadline that SET EX answered with OK or EXPIRE with 1 will be found, *)
(* whichever RocksDB calls failed on the way: it is in both rows, the      *)
(* expire thread wakes for it, and it is cached or behind all that is.     *)
(***************************************************************************)
GrantedIsFound ==
    Granted =>
        /\ zset[reply.key] = reply.at
        /\ <<reply.at, reply.key>> \in zscore
        /\ first_timeout <= reply.at
        /\ \/ sort_set[reply.key] = reply.at
           \/ \A j \in Held(sort_set) \ {reply.key} : sort_set[j] <= reply.at

(***************************************************************************)
(* The expire thread removes a value no earlier than some deadline a       *)
(* client asked for that key, also when Zset or Zdel stopped half-way and  *)
(* rows of replaced or refused deadlines are left.                         *)
(***************************************************************************)
NotBeforeAsked ==
    [][\A k \in timed_out' \ timed_out : asked[k] # NoScore /\ asked[k] <= now]_allvars

(***************************************************************************)
(* As long as no call has failed and nothing was flushed, the expire       *)
(* thread removes a value only when the deadline last granted to its key,  *)
(* by OK or by 1, has passed.                                              *)
(***************************************************************************)
KeepsPromise ==
    [][faults' = 0 => \A k \in timed_out' \ timed_out :
            promised[k] # NoScore /\ promised[k] <= now]_allvars
=============================================================================
