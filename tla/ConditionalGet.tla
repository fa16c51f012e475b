--------------------------- MODULE ConditionalGet ---------------------------
(***************************************************************************)
(* The conditional GET of the HTTP frontend: GetCallbackPro of             *)
(* src/xevHtpdFrontend.cpp on the threads of the frontend, beside the      *)
(* writers of the backend and of the redis port, with toGMT of             *)
(* common/util.cpp and xDataBase::Set and Get.                             *)
(*                                                                         *)
(* A stored value has the time of its writing in front of it.  The time in *)
(* milliseconds is its ETag, the time in seconds its Last-Modified date,   *)
(* which toGMT prints into a buffer that all threads share.                *)
(*                                                                         *)
(* Each thread serves one client.  The client keeps the last value that it *)
(* was given for each key, with the validators that came with it, and      *)
(* sends those validators when it asks again.                              *)
(*                                                                         *)
(* CheckEtag is not modelled: it looks the ETag up in the ETag cache,      *)
(* which is never filled, because SetEtag is called without its second     *)
(* argument (src/xHttpCache.cpp:98).                                       *)
(***************************************************************************)
EXTENDS Integers

CONSTANTS
  Keys, Threads, Writers,
  MsPerSecond,   \* milliseconds in a second
  MaxTime,       \* bound: the clock stops there
  MaxWrites,     \* bound: values written
  MaxErrors,     \* bound: reads that RocksDB refuses
  Validators,    \* the validators that each client keeps: "date", "etag"
  Probing,       \* whether a client without a validator makes one up
  etag_enable    \* frontend.etag of the configuration

FrontendAssumption ==
  /\ Keys # {} /\ MsPerSecond \in Nat \ {0} /\ MaxTime \in Nat
  /\ MaxWrites \in Nat /\ MaxErrors \in Nat
  /\ Validators \in [Threads -> SUBSET {"date", "etag"}]
  /\ Probing \in BOOLEAN /\ etag_enable \in BOOLEAN

Times == 0 .. MaxTime

Second(ms) == ms \div MsPerSecond

Dates == {Second(ms) : ms \in Times}

None == -1    \* a header that is missing
Probe == -2   \* a validator that no value has
Mixed == -3   \* what is in asctime's buffer while a thread writes it

\* A row: which write it is and its time.  Version 0 is the empty string.
Rows == [ver : 0 .. MaxWrites, ts : Times]

Absent == [ver |-> -1, ts |-> 0]

\* What a client keeps of a key.
NoCopy == [row |-> Absent, date |-> None, etag |-> None]

NoRequest == [key |-> CHOOSE k \in Keys : TRUE, ims |-> None, inm |-> None]

NoReply == [code |-> 0, row |-> Absent, date |-> None, etag |-> None]

VARIABLES
  store,   \* the k row of each key
  now,     \* the clock, in milliseconds
  writes,  \* values written so far
  errors,  \* reads refused so far
  wpc,     \* each writer's place in Set: "idle" or the row it is about to put
  tm,      \* gmtime's static struct tm, in seconds
  buf,     \* asctime's static buffer
  pc,      \* each thread's place in GetCallbackPro
  req,     \* the request: key, If-Modified-Since, If-None-Match
  val,     \* value
  lm,      \* LastModified, and the date inside asctime before that
  reply,   \* what was sent
  copy,    \* what the client of each thread keeps
  during,  \* history: the rows that were stored while the request was served
  torn,    \* history: the threads whose date another one wrote over before its use
  spoilt   \* history: the copies whose validators came with such a date

shared == <<store, now, writes, errors, wpc>>
overlaps == <<torn, spoilt>>
vars == <<shared, tm, buf, pc, req, val, lm, reply, copy, during, overlaps>>

Init ==
  /\ store = [k \in Keys |-> Absent]
  /\ now = 0 /\ writes = 0 /\ errors = 0
  /\ wpc = [w \in Writers |-> Absent]
  /\ tm = 0 /\ buf = 0
  /\ pc = [t \in Threads |-> "idle"]
  /\ req = [t \in Threads |-> NoRequest]
  /\ val = [t \in Threads |-> Absent]
  /\ lm = [t \in Threads |-> None]
  /\ reply = [t \in Threads |-> NoReply]
  /\ copy = [t \in Threads |-> [k \in Keys |-> NoCopy]]
  /\ during = [t \in Threads |-> {}]
  /\ torn = {} /\ spoilt = {}
-----------------------------------------------------------------------------
\* The rows seen by the requests under way, after the store changed.
Witness(k) ==
  during' = [t \in Threads |->
               IF pc[t] \notin {"idle", "sent"} /\ req[t].key = k
               THEN during[t] \cup {store'[k]} ELSE during[t]]

\* Set: the time is taken first, and the row is put later.
Stamp(w) ==
  /\ wpc[w] = Absent /\ writes < MaxWrites
  /\ writes' = writes + 1
  /\ wpc' = [wpc EXCEPT ![w] = [ver |-> writes + 1, ts |-> now]]
  /\ UNCHANGED <<store, now, errors, tm, buf, pc, req, val, lm, reply, copy, during, overlaps>>

Put(w, k) ==
  /\ wpc[w] # Absent
  /\ store' = [store EXCEPT ![k] = wpc[w]]
  /\ wpc' = [wpc EXCEPT ![w] = Absent]
  /\ Witness(k)
  /\ UNCHANGED <<now, writes, errors, tm, buf, pc, req, val, lm, reply, copy, overlaps>>

Del(k) ==
  /\ store[k] # Absent
  /\ store' = [store EXCEPT ![k] = Absent]
  /\ Witness(k)
  /\ UNCHANGED <<now, writes, errors, wpc, tm, buf, pc, req, val, lm, reply, copy, overlaps>>

Tick ==
  /\ now < MaxTime
  /\ now' = now + 1
  /\ UNCHANGED <<store, writes, errors, wpc, tm, buf, pc, req, val, lm, reply, copy, during, overlaps>>
-----------------------------------------------------------------------------
\* The validators a client may send of a kind of which it holds this one.
Sends(t, kind, held) ==
  IF kind \notin Validators[t] THEN {None}
  ELSE IF held # None THEN {held}
  ELSE IF Probing THEN {None, Probe} ELSE {None}

Respond(t, r) ==
  /\ reply' = [reply EXCEPT ![t] = r]
  /\ pc' = [pc EXCEPT ![t] = "sent"]

(***************************************************************************)
(* A faulty variant: CheckEtag with an ETag cache that is filled by every  *)
(* Set and Get and never invalidated.  Each ETag that was given out once   *)
(* is answered with 304 before the store is looked at.                     *)
(***************************************************************************)
RequestHitsCache(t, k) ==
  /\ pc[t] = "idle"
  /\ \E ims \in Sends(t, "date", copy[t][k].date), inm \in Sends(t, "etag", copy[t][k].etag) :
       /\ req' = [req EXCEPT ![t] = [key |-> k, ims |-> ims, inm |-> inm]]
       /\ IF inm >= 0 THEN Respond(t, [NoReply EXCEPT !.code = 304])
          ELSE pc' = [pc EXCEPT ![t] = "get"] /\ UNCHANGED reply
  /\ during' = [during EXCEPT ![t] = {store[k]}]
  /\ UNCHANGED <<shared, tm, buf, val, lm, copy, overlaps>>

\* A thread takes a GET of its client.
Request(t, k) ==
  /\ pc[t] = "idle"
  /\ \E ims \in Sends(t, "date", copy[t][k].date), inm \in Sends(t, "etag", copy[t][k].etag) :
       req' = [req EXCEPT ![t] = [key |-> k, ims |-> ims, inm |-> inm]]
  /\ during' = [during EXCEPT ![t] = {store[k]}]
  /\ pc' = [pc EXCEPT ![t] = "get"]
  /\ UNCHANGED <<shared, tm, buf, val, lm, reply, copy, overlaps>>

\* Any other method.
BadRequest(t) ==
  /\ pc[t] = "idle"
  /\ req' = [req EXCEPT ![t] = NoRequest]
  /\ Respond(t, [NoReply EXCEPT !.code = 400])
  /\ UNCHANGED <<shared, tm, buf, val, lm, copy, during, overlaps>>

\* Where GetCallbackPro goes with a value: to toGMT if it has a date to compare.
WithValue(t, row) ==
  /\ val' = [val EXCEPT ![t] = row]
  /\ pc' = [pc EXCEPT ![t] = IF req[t].ims # None THEN "gmtime" ELSE "answer"]

NotFound(t) ==
  /\ pc[t] = "get" /\ store[req[t].key] = Absent
  /\ Respond(t, [NoReply EXCEPT !.code = 404])
  /\ UNCHANGED <<shared, tm, buf, req, val, lm, copy, during, overlaps>>

Get(t) ==
  /\ pc[t] = "get" /\ store[req[t].key] # Absent
  /\ WithValue(t, store[req[t].key])
  /\ UNCHANGED <<shared, tm, buf, req, lm, reply, copy, during, overlaps>>

(***************************************************************************)
(* Only db_null is looked at: after db_err the handler goes on with an     *)
(* empty string and a timestamp that nobody has set.                       *)
(***************************************************************************)
GetFails(t) ==
  /\ pc[t] = "get" /\ errors < MaxErrors
  /\ errors' = errors + 1
  /\ \E ts \in Times : WithValue(t, [ver |-> 0, ts |-> ts])
  /\ UNCHANGED <<store, now, writes, wpc, tm, buf, req, lm, reply, copy, during, overlaps>>

At(place) == {u \in Threads : pc[u] = place}

\* toGMT: gmtime fills the static struct, also when another thread is yet to read it.
Gmtime(t) ==
  /\ pc[t] = "gmtime"
  /\ tm' = Second(val[t].ts)
  /\ pc' = [pc EXCEPT ![t] = "asctime"]
  /\ torn' = torn \cup At("asctime")
  /\ UNCHANGED <<shared, buf, req, val, lm, reply, copy, during, spoilt>>

\* The threads that print at the same time when t begins to.
Colliding(t) == IF At("printing") = {} THEN {} ELSE At("printing") \cup {t}

(***************************************************************************)
(* asctime prints that struct into the static buffer, which takes a while: *)
(* what threads print there at the same time is mixed up, and what another *)
(* one is yet to copy is lost.                                             *)
(***************************************************************************)
AsctimeBegins(t) ==
  /\ pc[t] = "asctime"
  /\ lm' = [u \in Threads |-> IF u \in Colliding(t) THEN Mixed
                              ELSE IF u = t THEN tm ELSE lm[u]]
  /\ buf' = Mixed
  /\ pc' = [pc EXCEPT ![t] = "printing"]
  /\ torn' = torn \cup Colliding(t) \cup At("sprintf")
  /\ UNCHANGED <<shared, tm, req, val, reply, copy, during, spoilt>>

AsctimeEnds(t) ==
  /\ pc[t] = "printing"
  /\ buf' = lm[t]
  /\ pc' = [pc EXCEPT ![t] = "sprintf"]
  /\ UNCHANGED <<shared, tm, req, val, lm, reply, copy, during, overlaps>>

\* sprintf copies the buffer; while another thread prints, it may find any date.
Sprintf(t) ==
  /\ pc[t] = "sprintf"
  /\ \E d \in IF buf = Mixed THEN Dates ELSE {buf} : lm' = [lm EXCEPT ![t] = d]
  /\ pc' = [pc EXCEPT ![t] = "answer"]
  /\ UNCHANGED <<shared, tm, buf, req, val, reply, copy, during, overlaps>>

\* The reply, given the results of the comparisons and the value's validators.
Verdict(t, Modified, etag, date, ts) ==
  /\ Respond(t, [code |-> IF Modified \/ etag THEN 304 ELSE 200,
                 row  |-> val[t],
                 date |-> IF req[t].ims # None THEN date ELSE None,
                 etag |-> IF etag_enable /\ req[t].inm # None THEN ts ELSE None])
  /\ UNCHANGED <<shared, tm, buf, req, val, lm, copy, during, overlaps>>

Matches(t, ts) == etag_enable /\ req[t].inm # None /\ req[t].inm = ts

(***************************************************************************)
(* Faulty variants of the last step.                                       *)
(***************************************************************************)
\* The ETag is taken from a second read.
AnswerRereads(t) ==
  /\ pc[t] = "answer"
  /\ LET ts == store[req[t].key].ts
     IN  Verdict(t, req[t].ims # None /\ req[t].ims = lm[t], Matches(t, ts), lm[t], ts)

(***************************************************************************)
(* The comparison of both validators and the reply.  A reply has a         *)
(* validator of a kind only if the request had one of that kind.           *)
(***************************************************************************)
Answer(t) ==
  /\ pc[t] = "answer"
  /\ Verdict(t, req[t].ims # None /\ req[t].ims = lm[t], Matches(t, val[t].ts), lm[t], val[t].ts)

\* The client: a 304 lets it keep its value and renews the validators.
Kept(t) ==
  LET c == copy[t][req[t].key]
      r == reply[t]
  IN  CASE r.code = 200 -> [row |-> r.row, date |-> r.date, etag |-> r.etag]
        [] r.code = 304 -> [row  |-> c.row,
                            date |-> IF r.date # None THEN r.date ELSE c.date,
                            etag |-> IF r.etag # None THEN r.etag ELSE c.etag]
        [] r.code = 404 -> NoCopy
        [] OTHER        -> c

\* Whether the validators of the copy come from a date written over.
Spoils(t) ==
  CASE reply[t].code = 200 -> t \in torn
    [] reply[t].code = 304 -> t \in torn \/ <<t, req[t].key>> \in spoilt
    [] reply[t].code = 404 -> FALSE
    [] OTHER               -> <<t, req[t].key>> \in spoilt

Receive(t) ==
  /\ pc[t] = "sent"
  /\ copy' = [copy EXCEPT ![t][req[t].key] = Kept(t)]
  /\ pc' = [pc EXCEPT ![t] = "idle"]
  /\ req' = [req EXCEPT ![t] = NoRequest]
  /\ val' = [val EXCEPT ![t] = Absent]
  /\ lm' = [lm EXCEPT ![t] = None]
  /\ reply' = [reply EXCEPT ![t] = NoReply]
  /\ during' = [during EXCEPT ![t] = {}]
  /\ torn' = torn \ {t}
  /\ spoilt' = (spoilt \ {<<t, req[t].key>>})
                 \cup (IF Spoils(t) THEN {<<t, req[t].key>>} ELSE {})
  /\ UNCHANGED <<shared, tm, buf>>

Serve(t) ==
  \/ NotFound(t) \/ Get(t) \/ GetFails(t)
  \/ Gmtime(t) \/ AsctimeBegins(t) \/ AsctimeEnds(t) \/ Sprintf(t)
  \/ Answer(t) \/ Receive(t)

Next ==
  \/ \E t \in Threads : Serve(t) \/ BadRequest(t) \/ \E k \in Keys : Request(t, k)
  \/ \E w \in Writers : Stamp(w) \/ \E k \in Keys : Put(w, k)
  \/ \E k \in Keys : Del(k)
  \/ Tick

Spec == Init /\ [][Next]_vars
-----------------------------------------------------------------------------
Validator == Times \cup {None, Probe}

\* The state of the store, of the handlers and of the clients is well-typed.
TypeOK ==
  /\ store \in [Keys -> Rows \cup {Absent}]
  /\ now \in Times /\ writes \in 0 .. MaxWrites /\ errors \in 0 .. MaxErrors
  /\ wpc \in [Writers -> Rows \cup {Absent}]
  /\ tm \in Dates /\ buf \in Dates \cup {Mixed}
  /\ pc \in [Threads -> {"idle", "get", "gmtime", "asctime", "printing",
                         "sprintf", "answer", "sent"}]
  /\ req \in [Threads -> [key : Keys, ims : Validator, inm : Validator]]
  /\ val \in [Threads -> Rows \cup {Absent}]
  /\ lm \in [Threads -> Dates \cup {None, Mixed}]
  /\ reply \in [Threads -> [code : {0, 200, 304, 400, 404}, row : Rows \cup {Absent},
                            date : Dates \cup {None}, etag : Times \cup {None}]]
  /\ copy \in [Threads -> [Keys -> [row : Rows \cup {Absent}, date : Dates \cup {None},
                                    etag : Times \cup {None}]]]
  /\ during \in [Threads -> SUBSET (Rows \cup {Absent})]
  /\ torn \subseteq Threads /\ spoilt \subseteq Threads \X Keys

\* The same value as far as the validators of a request can tell.
Alike(t, a, b) ==
  /\ a # Absent /\ b # Absent
  /\ IF req[t].ims # None THEN Second(a.ts) = Second(b.ts) ELSE a.ts = b.ts

(***************************************************************************)
(* An answer is true of some moment while the request was served: a 200    *)
(* brings a value that was stored then, a 404 says that there was none,    *)
(* and a 304 lets the client keep a value that the precision of its        *)
(* validators cannot tell from one stored then (GetCallbackPro beside      *)
(* Set, whose timestamps need not grow from one Put to the next).  Reads   *)
(* that RocksDB refused are left out, and so is a 304 if another thread    *)
(* wrote over the static buffers of toGMT between this one's writing and   *)
(* reading them, now or when the client's validators were sent.            *)
(***************************************************************************)
AnswerCurrent ==
  \A t \in Threads : pc[t] = "sent" =>
    LET r == reply[t]
        c == copy[t][req[t].key]
    IN  /\ r.code = 200 /\ r.row.ver # 0 => r.row \in during[t]
        /\ /\ r.code = 304 /\ r.row.ver # 0 /\ c.row.ver # 0
           /\ t \notin torn /\ <<t, req[t].key>> \notin spoilt
           => \E row \in during[t] : Alike(t, row, c.row)
        /\ r.code = 404 => Absent \in during[t]

(***************************************************************************)
(* The validators that a client keeps are those of the value that it keeps *)
(* (the headers GetCallbackPro sends with a 200 and with a 304).  A client *)
(* with a date may have the ETag of another value of the same second: a    *)
(* 304 for the date renews the ETag.  Validators that came with a date     *)
(* that another thread wrote over in toGMT are left out.                   *)
(***************************************************************************)
ValidatorsMatch ==
  \A t \in Threads, k \in Keys :
    LET c == copy[t][k]
    IN  <<t, k>> \notin spoilt =>
          /\ c.date # None => c.date = Second(c.row.ts)
          /\ c.etag # None => IF c.date = None THEN c.etag = c.row.ts
                              ELSE Second(c.etag) = Second(c.row.ts)
=============================================================================
