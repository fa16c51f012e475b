----------------------------- MODULE HttpProofs -----------------------------
(***************************************************************************)
(* Proofs about the HTTP side.  ConditionalGet, for any number of keys,    *)
(* threads, writers and failures: an answer is true of some moment of its  *)
(* request, and a client keeps the validators of the value it keeps.       *)
(* Multipart, for any forms, boundaries, chunks and limits: the cuts do    *)
(* not show, and a well-formed form is read byte by byte.  Backend, for    *)
(* any paths and storable requests: the databases hold what clients were   *)
(* told, and reads tell it.                                                *)
(***************************************************************************)
EXTENDS MCHttp, FiniteSetTheorems, FunctionTheorems, SequenceTheorems, WellFoundedInduction, TLAPS

-----------------------------------------------------------------------------
(* ConditionalGet.                                                         *)


\* Rows as they are stored or missing, and the date of a row.
Row == Rows \cup {Absent}
SecondOf(row) == Second(row.ts)

\* The places of a thread inside GetCallbackPro.
Dating == {"gmtime", "asctime", "printing", "sprintf"}
HasValue == Dating \cup {"answer"}
Serving == HasValue \cup {"get"}

\* A client keeps and sends validators of its kinds only.
HeldBy(t, c) ==
  /\ c.date # None => "date" \in Validators[t]
  /\ c.etag # None => "etag" \in Validators[t]

\* The validators kept with a value: beside a date, the ETag may be another
\* one of the same second.
Fits(c) ==
  /\ c.date # None => c.row # Absent /\ c.date = SecondOf(c.row)
  /\ c.etag # None =>
       /\ c.row # Absent
       /\ IF c.date = None THEN c.etag = c.row.ts ELSE Second(c.etag) = SecondOf(c.row)

\* A request has the validators of the value that its client keeps.
Asked(t, q, c) ==
  /\ q.ims # None => "date" \in Validators[t] /\ (q.ims = Probe \/ q.ims = c.date)
  /\ q.inm # None => "etag" \in Validators[t] /\ (q.inm = Probe \/ q.inm = c.etag)

\* A client with a date sends it.
AskedByDate(t) ==
  pc[t] \in Serving \/ (pc[t] = "sent" /\ reply[t].code = 304) =>
    (copy[t][req[t].key].date # None => req[t].ims # None)

\* The date of the value in the static buffers, while nobody wrote over it.
DateKept(t) ==
  /\ pc[t] = "asctime" => tm = SecondOf(val[t])
  /\ pc[t] = "printing" => lm[t] = SecondOf(val[t])
  /\ pc[t] = "sprintf" => buf = SecondOf(val[t])
  /\ pc[t] = "answer" /\ req[t].ims # None => lm[t] = SecondOf(val[t])

\* How far the date has come through the static buffers.
Dated(t) ==
  /\ pc[t] \in Dating => req[t].ims # None
  /\ pc[t] = "printing" => lm[t] # None
  /\ pc[t] = "answer" /\ req[t].ims # None => lm[t] \in Dates
  /\ t \notin torn => DateKept(t)

\* The value was stored at some moment of the request, or could not be read.
Witnessed(t) ==
  /\ pc[t] \in Serving => store[req[t].key] \in during[t]
  /\ pc[t] \in HasValue => val[t] # Absent /\ (val[t].ver # 0 => val[t] \in during[t])

\* What was sent to a request, with the rows D that were stored meanwhile.
Answered(q, r, D) ==
  /\ r.code = 404 => Absent \in D
  /\ r.code \in {200, 304} =>
       /\ r.row # Absent /\ (r.row.ver # 0 => r.row \in D)
       /\ r.date # None => q.ims # None
       /\ r.etag # None => q.inm # None /\ r.etag = r.row.ts

\* What was sent with a date that nobody wrote over.
Exact(q, r) ==
  /\ r.code \in {200, 304} /\ r.date # None => r.date = SecondOf(r.row)
  /\ r.code = 304 =>
       \/ q.ims # None /\ q.ims = SecondOf(r.row)
       \/ q.inm # None /\ q.inm = r.row.ts

ThreadInv(t) ==
  /\ pc[t] # "idle" => Asked(t, req[t], copy[t][req[t].key])
  /\ AskedByDate(t)
  /\ Dated(t)
  /\ Witnessed(t)
  /\ pc[t] = "sent" =>
       /\ Answered(req[t], reply[t], during[t])
       /\ t \notin torn => Exact(req[t], reply[t])
  /\ \A k \in Keys : /\ HeldBy(t, copy[t][k])
                     /\ <<t, k>> \notin spoilt => Fits(copy[t][k])

\* Nobody prints into a date that was not written over.
PrintsAlone ==
  \A t, u \in Threads :
    t # u /\ pc[t] \in {"printing", "sprintf"} /\ pc[u] = "printing" => t \in torn

GetInv == TypeOK /\ PrintsAlone /\ \A t \in Threads : ThreadInv(t)

\* Times and dates are numbers, and the special values are none.
LEMMA DateFacts ==
  ASSUME FrontendAssumption
  PROVE  /\ Times \subseteq Nat /\ Dates \subseteq Nat /\ 0 \in Times
         /\ \A ms \in Times : Second(ms) \in Dates
         /\ \A row \in Row : row.ts \in Times /\ SecondOf(row) \in Dates
         /\ {None, Probe, Mixed} \cap Nat = {}
         /\ None # Probe /\ Absent \notin Rows /\ Absent \in Row
<1>1. Times \subseteq Nat /\ 0 \in Times
  BY DEF Times, FrontendAssumption
<1>2. \A ms \in Times : Second(ms) \in Nat /\ Second(ms) \in Dates
  BY <1>1 DEF Second, Dates, FrontendAssumption
<1>3. Dates \subseteq Nat
  BY <1>2 DEF Dates
<1>4. \A row \in Row : row.ts \in Times
  BY <1>1 DEF Row, Rows, Absent
<1>5. \A row \in Row : SecondOf(row) \in Dates
  BY <1>2, <1>4 DEF SecondOf
<1>6. Absent \notin Rows /\ Absent \in Row
  BY DEF Row, Rows, Absent
<1>7. {None, Probe, Mixed} \cap Nat = {} /\ None # Probe
  BY DEF None, Probe, Mixed
<1> QED
  BY <1>1, <1>2, <1>3, <1>4, <1>5, <1>6, <1>7

\* A thread that a step of another one leaves alone, or whose date it writes over.
LEMMA ThreadKept ==
  ASSUME NEW u \in Threads, ThreadInv(u), UNCHANGED store,
         pc'[u] = pc[u], req'[u] = req[u], val'[u] = val[u],
         reply'[u] = reply[u], copy'[u] = copy[u], during'[u] = during[u],
         u \in torn => u \in torn',
         \A k \in Keys : <<u, k>> \in spoilt => <<u, k>> \in spoilt',
         \/ lm'[u] = lm[u]
         \/ lm'[u] = Mixed /\ pc[u] = "printing" /\ u \in torn',
         u \notin torn' => /\ pc[u] = "asctime" => tm' = tm
                           /\ pc[u] = "sprintf" => buf' = buf
  PROVE  ThreadInv(u)'
<1>1. Dated(u)'
  <2>1. (pc[u] \in Dating => req[u].ims # None)'
    BY DEF ThreadInv, Dated
  <2>2. pc[u] = "printing" => lm'[u] # None
    BY DEF ThreadInv, Dated, Mixed, None
  <2>3. pc[u] = "answer" /\ req[u].ims # None => lm'[u] \in Dates
    BY DEF ThreadInv, Dated
  <2>4. u \notin torn' => DateKept(u)'
    BY DEF ThreadInv, Dated, DateKept, SecondOf
  <2> QED
    BY <2>1, <2>2, <2>3, <2>4 DEF Dated
<1>2. Witnessed(u)' /\ AskedByDate(u)'
  BY DEF ThreadInv, Witnessed, AskedByDate
<1>3. \A k \in Keys : HeldBy(u, copy'[u][k]) /\ (<<u, k>> \notin spoilt' => Fits(copy'[u][k]))
  BY DEF ThreadInv
<1> QED
  BY <1>1, <1>2, <1>3 DEF ThreadInv

\* The types of the variables that the steps of a thread change.
LEMMA GetTypes ==
  ASSUME GetInv
  PROVE  /\ store \in [Keys -> Row] /\ wpc \in [Writers -> Row]
         /\ pc \in [Threads -> {"idle", "sent"} \cup Serving]
         /\ req \in [Threads -> [key : Keys, ims : Validator, inm : Validator]]
         /\ val \in [Threads -> Row] /\ lm \in [Threads -> Dates \cup {None, Mixed}]
         /\ reply \in [Threads -> [code : {0, 200, 304, 400, 404}, row : Row,
                                   date : Dates \cup {None},
                                   etag : Times \cup {None}]]
         /\ copy \in [Threads -> [Keys -> [row : Row, date : Dates \cup {None},
                                           etag : Times \cup {None}]]]
         /\ during \in [Threads -> SUBSET Row]
         /\ tm \in Dates /\ buf \in Dates \cup {Mixed}
         /\ torn \subseteq Threads /\ spoilt \subseteq Threads \X Keys
BY DEF GetInv, TypeOK, Row, Serving, HasValue, Dating

\* A writer takes the time, the clock goes on: no thread sees it.
LEMMA QuietGet ==
  ASSUME GetInv, UNCHANGED <<store, errors, tm, buf, pc, req, val, lm, reply, copy, during, torn, spoilt>>,
         now' \in Times, writes' \in 0 .. MaxWrites, wpc' \in [Writers -> Row]
  PROVE  GetInv'
<1>1. TypeOK'
  BY DEF GetInv, TypeOK, Row
<1>2. \A t \in Threads : ThreadInv(t)'
  BY ThreadKept DEF GetInv
<1>3. PrintsAlone'
  BY DEF GetInv, PrintsAlone
<1> QED
  BY <1>1, <1>2, <1>3 DEF GetInv

(***************************************************************************)
(* The store changes at k: the requests for k that are under way have the  *)
(* new row among the rows stored meanwhile.                                *)
(***************************************************************************)
LEMMA StoreGet ==
  ASSUME GetInv, NEW k \in Keys, NEW row \in Row,
         store' = [store EXCEPT ![k] = row], Witness(k),
         UNCHANGED <<now, writes, errors, tm, buf, pc, req, val, lm, reply, copy, torn, spoilt>>,
         wpc' \in [Writers -> Row]
  PROVE  GetInv'
<1>1. \A t \in Threads : during'[t] = IF pc[t] \in Serving /\ req[t].key = k
                                      THEN during[t] \cup {row} ELSE during[t]
  BY GetTypes DEF Witness, Serving, HasValue, Dating
<1>2. during' \in [Threads -> SUBSET Row]
  <2>1. during' = [t \in Threads |-> during'[t]]
    BY DEF Witness
  <2>2. \A t \in Threads : during[t] \in SUBSET Row
    BY GetTypes
  <2>3. \A t \in Threads : during'[t] \in SUBSET Row
    BY <1>1, <2>2
  <2> QED
    BY <2>1, <2>3
<1>3. TypeOK'
  BY <1>2 DEF GetInv, TypeOK, Row
<1>4. ASSUME NEW t \in Threads PROVE ThreadInv(t)'
  <2>1. ThreadInv(t) /\ req[t].key \in Keys /\ during[t] \subseteq during'[t]
    <3>1. ThreadInv(t)
      BY DEF GetInv
    <3>2. req[t].key \in Keys
      BY GetTypes
    <3>3. during[t] \subseteq during'[t]
      BY <1>1
    <3> QED
      BY <3>1, <3>2, <3>3
  <2>2. Dated(t)' /\ AskedByDate(t)'
    BY <2>1 DEF ThreadInv, Dated, DateKept, SecondOf, AskedByDate
  <2>3. Witnessed(t)'
    <3>1. pc[t] \in Serving => store'[req[t].key] \in during'[t]
      <4>1. \A j \in Keys : store'[j] = IF j = k THEN row ELSE store[j]
        BY GetTypes
      <4>2. pc[t] \in Serving => store[req[t].key] \in during[t]
        BY <2>1 DEF ThreadInv, Witnessed
      <4>3. CASE pc[t] \in Serving /\ req[t].key = k
        <5>1. row \in during'[t]
          BY <1>1, <4>3
        <5> QED
          BY <2>1, <4>1, <4>3, <5>1
      <4>4. CASE pc[t] \in Serving /\ req[t].key # k
        BY <2>1, <4>1, <4>2, <4>4
      <4> QED
        BY <4>3, <4>4
    <3> QED
      BY <2>1, <3>1 DEF ThreadInv, Witnessed
  <2>4. pc[t] = "sent" => during'[t] = during[t]
    BY <1>1 DEF Serving, HasValue, Dating
  <2> QED
    BY <2>1, <2>2, <2>3, <2>4 DEF ThreadInv
<1>5. PrintsAlone'
  BY DEF GetInv, PrintsAlone
<1> QED
  BY <1>3, <1>4, <1>5 DEF GetInv

\* A client sends a validator that it keeps, or makes one up.
LEMMA SendsResult ==
  ASSUME NEW t, NEW kind, NEW held, NEW v \in Sends(t, kind, held)
  PROVE  /\ v # None => kind \in Validators[t] /\ (v = Probe \/ v = held)
         /\ kind \in Validators[t] /\ held # None => v = held
BY DEF Sends

\* A request takes its validators from the client's copy and opens `during`.
LEMMA RequestGet ==
  ASSUME FrontendAssumption, GetInv, NEW t \in Threads, NEW k \in Keys, Request(t, k)
  PROVE  GetInv'
<1> DEFINE c == copy[t][k]
<1>1. PICK ims \in Sends(t, "date", c.date), inm \in Sends(t, "etag", c.etag) :
        req' = [req EXCEPT ![t] = [key |-> k, ims |-> ims, inm |-> inm]]
  BY DEF Request
<1>2. /\ pc[t] = "idle" /\ pc' = [pc EXCEPT ![t] = "get"]
      /\ during' = [during EXCEPT ![t] = {store[k]}]
      /\ UNCHANGED <<store, now, writes, errors, wpc, tm, buf, val, lm, reply, copy, torn, spoilt>>
  BY DEF Request, shared, overlaps
<1>3. /\ ims # None => "date" \in Validators[t] /\ (ims = Probe \/ ims = c.date)
      /\ inm # None => "etag" \in Validators[t] /\ (inm = Probe \/ inm = c.etag)
      /\ "date" \in Validators[t] /\ c.date # None => ims = c.date
  BY SendsResult
<1>4. c \in [row : Row, date : Dates \cup {None}, etag : Times \cup {None}]
  BY GetTypes
<1>5. ims \in Validator /\ inm \in Validator
  <2>1. Dates \subseteq Times
    <3>1. ASSUME NEW ms \in Times PROVE Second(ms) \in Times
      BY DEF Second, Times, FrontendAssumption
    <3> QED
      BY <3>1 DEF Dates
  <2> QED
    BY <1>3, <1>4, <2>1 DEF Validator
<1> HIDE DEF c
<1>6. TypeOK'
  <2>1. req' \in [Threads -> [key : Keys, ims : Validator, inm : Validator]]
    BY <1>1, <1>5, GetTypes
  <2>2. during' \in [Threads -> SUBSET Row]
    BY <1>2, GetTypes
  <2> QED
    BY <1>2, <2>1, <2>2 DEF GetInv, TypeOK, Row
<1>7. ThreadInv(t)'
  <2>1. req'[t] = [key |-> k, ims |-> ims, inm |-> inm] /\ pc'[t] = "get"
        /\ during'[t] = {store[k]}
    BY <1>1, <1>2, GetTypes
  <2>2. Asked(t, req'[t], copy[t][k]) /\ req'[t].key = k
    BY <1>3, <2>1 DEF Asked, c
  <2>3. Dated(t)' /\ Witnessed(t)'
    BY <1>2, <2>1 DEF Dated, DateKept, Witnessed, Serving, HasValue, Dating
  <2>4. HeldBy(t, c)
    BY DEF GetInv, ThreadInv, c
  <2>5. c.date # None => ims # None
    BY <1>3, <2>4 DEF HeldBy
  <2>6. AskedByDate(t)'
    BY <1>2, <2>1, <2>5 DEF AskedByDate, c
  <2> QED
    BY <1>2, <2>1, <2>2, <2>3, <2>6 DEF ThreadInv, GetInv
<1>8. ASSUME NEW u \in Threads, u # t PROVE ThreadInv(u)'
  <2>1. ThreadInv(u) /\ pc'[u] = pc[u] /\ req'[u] = req[u] /\ during'[u] = during[u]
    BY <1>1, <1>2, <1>8, GetTypes DEF GetInv
  <2> QED
    BY <1>2, <2>1, ThreadKept
<1>9. PrintsAlone'
  BY <1>2, GetTypes DEF GetInv, PrintsAlone
<1> QED
  BY <1>6, <1>7, <1>8, <1>9 DEF GetInv

(***************************************************************************)
(* A step of thread t inside GetCallbackPro: if it disturbs the date of    *)
(* another thread, that thread is counted as torn.                         *)
(***************************************************************************)
LEMMA StepGet ==
  ASSUME GetInv, NEW t \in Threads, NEW label \in {"idle", "sent"} \cup Serving,
         pc' = [pc EXCEPT ![t] = label], TypeOK', ThreadInv(t)',
         UNCHANGED store,
         label \in {"printing", "sprintf"} => PrintsAlone',
         \A u \in Threads \ {t} :
           /\ req'[u] = req[u] /\ val'[u] = val[u]
           /\ reply'[u] = reply[u] /\ copy'[u] = copy[u] /\ during'[u] = during[u]
           /\ u \in torn => u \in torn'
           /\ \A k \in Keys : <<u, k>> \in spoilt => <<u, k>> \in spoilt'
           /\ \/ lm'[u] = lm[u]
              \/ lm'[u] = Mixed /\ pc[u] = "printing" /\ u \in torn'
           /\ u \notin torn' => /\ pc[u] = "asctime" => tm' = tm
                                /\ pc[u] = "sprintf" => buf' = buf
  PROVE  GetInv'
<1>1. ASSUME NEW u \in Threads, u # t PROVE ThreadInv(u)'
  <2>1. ThreadInv(u) /\ pc'[u] = pc[u]
    BY <1>1, GetTypes DEF GetInv
  <2> QED
    BY <1>1, <2>1, ThreadKept
<1>2. PrintsAlone'
  <2> SUFFICES ASSUME label \notin {"printing", "sprintf"} PROVE PrintsAlone'
    OBVIOUS
  <2>1. pc'[t] = label /\ \A u \in Threads \ {t} : pc'[u] = pc[u]
    BY GetTypes
  <2> QED
    BY <2>1 DEF GetInv, PrintsAlone
<1> QED
  BY <1>1, <1>2 DEF GetInv

\* The answer 400 carries no value and no validator.
LEMMA BadRequestGet ==
  ASSUME FrontendAssumption, GetInv, NEW t \in Threads, BadRequest(t)
  PROVE  GetInv'
<1> DEFINE r == [NoReply EXCEPT !.code = 400]
<1>1. /\ pc[t] = "idle" /\ pc' = [pc EXCEPT ![t] = "sent"]
      /\ req' = [req EXCEPT ![t] = NoRequest] /\ reply' = [reply EXCEPT ![t] = r]
      /\ UNCHANGED <<store, now, writes, errors, wpc, tm, buf, val, lm, copy, during, torn, spoilt>>
  BY DEF BadRequest, Respond, shared, overlaps
<1>2. r.code = 400 /\ r \in [code : {0, 200, 304, 400, 404}, row : Row,
                             date : Dates \cup {None},
                             etag : Times \cup {None}]
  BY DEF NoReply, Row
<1>3. /\ NoRequest \in [key : Keys, ims : Validator, inm : Validator]
      /\ NoRequest.ims = None /\ NoRequest.inm = None
  BY DEF NoRequest, Validator, FrontendAssumption
<1> HIDE DEF r
<1>4. TypeOK'
  BY <1>1, <1>2, <1>3 DEF GetInv, TypeOK, Row
<1>5. ThreadInv(t)'
  <2>1. pc'[t] = "sent" /\ req'[t] = NoRequest /\ reply'[t] = r
    BY <1>1, GetTypes
  <2>2. Asked(t, req'[t], copy'[t][req'[t].key])
    BY <1>3, <2>1 DEF Asked
  <2>3. Answered(req'[t], reply'[t], during'[t]) /\ Exact(req'[t], reply'[t])
    BY <1>2, <2>1 DEF Answered, Exact
  <2>4. Dated(t)' /\ Witnessed(t)' /\ AskedByDate(t)'
    BY <1>2, <2>1 DEF Dated, DateKept, Witnessed, AskedByDate, Serving, HasValue, Dating
  <2> QED
    BY <1>1, <2>2, <2>3, <2>4 DEF ThreadInv, GetInv
<1> QED
  BY <1>1, <1>4, <1>5, StepGet, GetTypes

\* A 404 is sent for a key that has no row at this moment.
LEMMA NotFoundGet ==
  ASSUME GetInv, NEW t \in Threads, NotFound(t)
  PROVE  GetInv'
<1> DEFINE r == [NoReply EXCEPT !.code = 404]
<1>1. /\ pc[t] = "get" /\ pc' = [pc EXCEPT ![t] = "sent"] /\ store[req[t].key] = Absent
      /\ reply' = [reply EXCEPT ![t] = r]
      /\ UNCHANGED <<store, now, writes, errors, wpc, tm, buf, req, val, lm, copy, during, torn, spoilt>>
  BY DEF NotFound, Respond, shared, overlaps
<1>2. r.code = 404 /\ r \in [code : {0, 200, 304, 400, 404}, row : Row,
                             date : Dates \cup {None},
                             etag : Times \cup {None}]
  BY DEF NoReply, Row
<1> HIDE DEF r
<1>3. TypeOK'
  BY <1>1, <1>2 DEF GetInv, TypeOK, Row
<1>4. ThreadInv(t)'
  <2>1. pc'[t] = "sent" /\ reply'[t] = r /\ ThreadInv(t)
    BY <1>1, GetTypes DEF GetInv
  <2>2. Absent \in during'[t]
    BY <1>1, <2>1 DEF ThreadInv, Witnessed, Serving
  <2>3. Answered(req'[t], reply'[t], during'[t]) /\ Exact(req'[t], reply'[t])
    BY <1>2, <2>1, <2>2 DEF Answered, Exact
  <2>4. Dated(t)' /\ Witnessed(t)' /\ AskedByDate(t)'
    BY <1>2, <2>1 DEF Dated, DateKept, Witnessed, AskedByDate, Serving, HasValue, Dating
  <2> QED
    BY <1>1, <2>1, <2>3, <2>4 DEF ThreadInv
<1> QED
  BY <1>1, <1>3, <1>4, StepGet, GetTypes

(***************************************************************************)
(* Get and GetFails: a value that was just stored, or none that was.       *)
(***************************************************************************)
LEMMA ValueGet ==
  ASSUME GetInv, NEW t \in Threads, NEW row \in Row, pc[t] = "get",
         WithValue(t, row), row # Absent, row.ver = 0 \/ row = store[req[t].key],
         errors' \in 0 .. MaxErrors,
         UNCHANGED <<store, now, writes, wpc, tm, buf, req, lm, reply, copy, during, torn, spoilt>>
  PROVE  GetInv'
<1> DEFINE label == IF req[t].ims # None THEN "gmtime" ELSE "answer"
<1>1. val' = [val EXCEPT ![t] = row] /\ pc' = [pc EXCEPT ![t] = label]
  BY DEF WithValue
<1>2. label \in HasValue /\ label \in {"gmtime", "answer"}
      /\ (label = "gmtime" <=> req[t].ims # None)
  BY DEF HasValue, Dating
<1> HIDE DEF label
<1>3. TypeOK'
  <2>1. val' \in [Threads -> Row]
    BY <1>1, GetTypes
  <2> QED
    BY <1>1, <1>2, <2>1 DEF GetInv, TypeOK, Row
<1>4. ThreadInv(t)'
  <2>1. pc'[t] = label /\ val'[t] = row /\ ThreadInv(t)
    BY <1>1, GetTypes DEF GetInv
  <2>2. Dated(t)'
    BY <1>2, <2>1 DEF Dated, DateKept, Dating
  <2>3. Witnessed(t)' /\ AskedByDate(t)'
    BY <1>2, <2>1 DEF Witnessed, AskedByDate, ThreadInv, Serving
  <2> QED
    BY <1>2, <2>1, <2>2, <2>3 DEF ThreadInv
<1>5. label \in {"idle", "sent"} \cup Serving /\ label \notin {"printing", "sprintf"}
  BY <1>2 DEF Serving
<1> QED
  BY <1>1, <1>3, <1>4, <1>5, StepGet, GetTypes

\* gmtime fills its buffer; a thread that was yet to read it is torn.
LEMMA GmtimeGet ==
  ASSUME FrontendAssumption, GetInv, NEW t \in Threads, Gmtime(t)
  PROVE  GetInv'
<1>1. /\ pc[t] = "gmtime" /\ pc' = [pc EXCEPT ![t] = "asctime"] /\ tm' = SecondOf(val[t])
      /\ torn' = torn \cup {u \in Threads : pc[u] = "asctime"}
      /\ UNCHANGED <<store, now, writes, errors, wpc, buf, req, val, lm, reply, copy, during, spoilt>>
  BY DEF Gmtime, At, shared, SecondOf
<1>2. tm' \in Dates
  BY <1>1, GetTypes, DateFacts
<1>3. TypeOK'
  BY <1>1, <1>2 DEF GetInv, TypeOK
<1>4. ThreadInv(t)'
  <2>1. pc'[t] = "asctime" /\ ThreadInv(t) /\ (t \in torn' <=> t \in torn)
    BY <1>1, GetTypes DEF GetInv
  <2>2. Dated(t)'
    BY <1>1, <2>1 DEF Dated, DateKept, ThreadInv, Dating, SecondOf
  <2>3. Witnessed(t)' /\ AskedByDate(t)'
    BY <1>1, <2>1 DEF Witnessed, AskedByDate, ThreadInv, Serving, HasValue, Dating
  <2> QED
    BY <1>1, <2>1, <2>2, <2>3 DEF ThreadInv
<1>5. "asctime" \in Serving
  BY DEF Serving, HasValue, Dating
<1>6. \A u \in Threads \ {t} :
        /\ u \in torn => u \in torn'
        /\ u \notin torn' => /\ pc[u] = "asctime" => tm' = tm
                             /\ pc[u] = "sprintf" => buf' = buf
  BY <1>1
<1> QED
  BY <1>1, <1>3, <1>4, <1>5, <1>6, StepGet

\* asctime reads that buffer; threads that print at the same time, and one
\* that was yet to copy what it printed, are torn.
LEMMA AsctimeBeginsGet ==
  ASSUME FrontendAssumption, GetInv, NEW t \in Threads, AsctimeBegins(t)
  PROVE  GetInv'
<1>1. /\ pc[t] = "asctime" /\ pc' = [pc EXCEPT ![t] = "printing"]
      /\ lm' = [u \in Threads |-> IF u \in Colliding(t) THEN Mixed
                                  ELSE IF u = t THEN tm ELSE lm[u]]
      /\ buf' = Mixed
      /\ torn' = torn \cup Colliding(t) \cup {u \in Threads : pc[u] = "sprintf"}
      /\ UNCHANGED <<store, now, writes, errors, wpc, tm, req, val, reply, copy, during, spoilt>>
  BY DEF AsctimeBegins, At, shared
<1>2. /\ Colliding(t) \subseteq Threads
      /\ \A u \in Threads : pc[u] = "printing" => u \in Colliding(t) /\ t \in Colliding(t)
      /\ \A u \in Colliding(t) : u = t \/ pc[u] = "printing"
  BY DEF Colliding, At
<1> HIDE DEF Colliding
<1>3. TypeOK'
  <2>1. lm' \in [Threads -> Dates \cup {None, Mixed}]
    BY <1>1, GetTypes
  <2>2. torn' \subseteq Threads
    BY <1>1, <1>2, GetTypes
  <2> QED
    BY <1>1, <2>1, <2>2 DEF GetInv, TypeOK
<1>4. ThreadInv(t)'
  <2>1. /\ pc'[t] = "printing" /\ ThreadInv(t)
        /\ lm'[t] = IF t \in Colliding(t) THEN Mixed ELSE tm
        /\ t \in torn \/ t \in Colliding(t) => t \in torn'
    BY <1>1, GetTypes DEF GetInv
  <2>2. lm'[t] # None
    <3>1. tm \in Nat /\ None \notin Nat /\ Mixed # None
      BY GetTypes, DateFacts DEF Mixed, None
    <3> QED
      BY <2>1, <3>1
  <2>3. Dated(t)'
    BY <1>1, <2>1, <2>2 DEF Dated, DateKept, ThreadInv, Dating, SecondOf
  <2>4. Witnessed(t)' /\ AskedByDate(t)'
    BY <1>1, <2>1 DEF Witnessed, AskedByDate, ThreadInv, Serving, HasValue, Dating
  <2> QED
    BY <1>1, <2>1, <2>3, <2>4 DEF ThreadInv
<1>5. "printing" \in Serving
  BY DEF Serving, HasValue, Dating
<1>6. PrintsAlone'
  <2>1. pc'[t] = "printing" /\ \A u \in Threads \ {t} : pc'[u] = pc[u]
    BY <1>1, GetTypes
  <2>2. ASSUME NEW x \in Threads, NEW u \in Threads, x # u,
               pc'[x] \in {"printing", "sprintf"}, pc'[u] = "printing"
        PROVE  x \in torn'
    <3>1. CASE x = t
      BY <1>1, <1>2, <2>1, <2>2, <3>1
    <3>2. CASE u = t
      BY <1>1, <1>2, <2>1, <2>2, <3>2
    <3>3. CASE x # t /\ u # t
      BY <1>1, <2>1, <2>2, <3>3 DEF GetInv, PrintsAlone
    <3> QED
      BY <3>1, <3>2, <3>3
  <2> QED
    BY <2>2 DEF PrintsAlone
<1>7. ASSUME NEW u \in Threads \ {t}
      PROVE  /\ u \in torn => u \in torn'
             /\ \/ lm'[u] = lm[u]
                \/ lm'[u] = Mixed /\ pc[u] = "printing" /\ u \in torn'
             /\ u \notin torn' => /\ pc[u] = "asctime" => tm' = tm
                                  /\ pc[u] = "sprintf" => buf' = buf
  BY <1>1, <1>2
<1> QED
  BY <1>1, <1>3, <1>4, <1>5, <1>6, <1>7, StepGet

\* asctime's buffer then has the date of this thread's value, if no other
\* thread printed meanwhile; and a thread that is yet to copy its own is torn.
LEMMA AsctimeEndsGet ==
  ASSUME FrontendAssumption, GetInv, NEW t \in Threads, AsctimeEnds(t)
  PROVE  GetInv'
<1>1. /\ pc[t] = "printing" /\ pc' = [pc EXCEPT ![t] = "sprintf"] /\ buf' = lm[t]
      /\ UNCHANGED <<store, now, writes, errors, wpc, tm, req, val, lm, reply, copy, during, torn, spoilt>>
  BY DEF AsctimeEnds, shared, overlaps
<1>2. ThreadInv(t) /\ pc'[t] = "sprintf" /\ \A u \in Threads \ {t} : pc'[u] = pc[u]
  BY <1>1, GetTypes DEF GetInv
<1>3. buf' \in Dates \cup {Mixed} /\ (t \notin torn => buf' = SecondOf(val[t]))
  BY <1>1, <1>2, GetTypes DEF ThreadInv, Dated, DateKept
<1>4. TypeOK'
  BY <1>1, <1>3 DEF GetInv, TypeOK
<1>5. ThreadInv(t)'
  <2>1. Dated(t)'
    BY <1>1, <1>2, <1>3 DEF Dated, DateKept, ThreadInv, Dating, SecondOf
  <2>2. Witnessed(t)' /\ AskedByDate(t)'
    BY <1>1, <1>2 DEF Witnessed, AskedByDate, ThreadInv, Serving, HasValue, Dating
  <2> QED
    BY <1>1, <1>2, <2>1, <2>2 DEF ThreadInv
<1>6. "sprintf" \in Serving
  BY DEF Serving, HasValue, Dating
<1>7. PrintsAlone'
  BY <1>1, <1>2 DEF GetInv, PrintsAlone
<1>8. \A u \in Threads \ {t} : u \notin torn' => pc[u] # "sprintf"
  BY <1>1 DEF GetInv, PrintsAlone
<1> QED
  BY <1>1, <1>4, <1>5, <1>6, <1>7, <1>8, StepGet

\* The copy of that buffer is a date, that of this thread's value if it is not torn.
LEMMA SprintfGet ==
  ASSUME FrontendAssumption, GetInv, NEW t \in Threads, Sprintf(t)
  PROVE  GetInv'
<1>1. /\ pc[t] = "sprintf" /\ pc' = [pc EXCEPT ![t] = "answer"]
      /\ UNCHANGED <<store, now, writes, errors, wpc, tm, buf, req, val, reply, copy, during, torn, spoilt>>
  BY DEF Sprintf, shared, overlaps
<1>2. ThreadInv(t) /\ pc'[t] = "answer"
  BY <1>1, GetTypes DEF GetInv
<1>3. PICK d \in IF buf = Mixed THEN Dates ELSE {buf} : lm' = [lm EXCEPT ![t] = d]
  BY DEF Sprintf
<1>4. d \in Dates /\ (buf # Mixed => d = buf)
  BY <1>3, GetTypes
<1>5. t \notin torn => d = SecondOf(val[t])
  <2>1. val[t] \in Row
    BY GetTypes
  <2>2. SecondOf(val[t]) # Mixed
    BY <2>1, DateFacts
  <2> QED
    BY <1>1, <1>2, <1>4, <2>2 DEF ThreadInv, Dated, DateKept
<1>6. lm'[t] = d /\ lm' \in [Threads -> Dates \cup {None, Mixed}]
      /\ \A u \in Threads \ {t} : lm'[u] = lm[u]
  BY <1>3, <1>4, GetTypes
<1>7. TypeOK'
  BY <1>1, <1>6 DEF GetInv, TypeOK
<1>8. ThreadInv(t)'
  <2>1. Dated(t)'
    BY <1>1, <1>2, <1>4, <1>5, <1>6 DEF Dated, DateKept, ThreadInv, Dating, SecondOf
  <2>2. Witnessed(t)' /\ AskedByDate(t)'
    BY <1>1, <1>2 DEF Witnessed, AskedByDate, ThreadInv, Serving, HasValue, Dating
  <2> QED
    BY <1>1, <1>2, <2>1, <2>2 DEF ThreadInv
<1>9. "answer" \in Serving
  BY DEF Serving, HasValue
<1> QED
  BY <1>1, <1>6, <1>7, <1>8, <1>9, StepGet

\* A 304 is sent only if a validator of the request is that of the value read.
LEMMA AnswerGet ==
  ASSUME FrontendAssumption, GetInv, NEW t \in Threads, Answer(t)
  PROVE  GetInv'
<1> DEFINE q == req[t]
<1> DEFINE modified == q.ims # None /\ q.ims = lm[t]
<1> DEFINE etag == etag_enable /\ q.inm # None /\ q.inm = val[t].ts
<1> DEFINE r == [code |-> IF modified \/ etag THEN 304 ELSE 200,
                 row  |-> val[t],
                 date |-> IF q.ims # None THEN lm[t] ELSE None,
                 etag |-> IF etag_enable /\ q.inm # None THEN val[t].ts ELSE None]
<1>1. /\ pc[t] = "answer" /\ pc' = [pc EXCEPT ![t] = "sent"]
      /\ reply' = [reply EXCEPT ![t] = r]
      /\ UNCHANGED <<store, now, writes, errors, wpc, tm, buf, req, val, lm, copy, during, torn, spoilt>>
  BY DEF Answer, Verdict, Respond, Matches, shared, overlaps
<1>2. ThreadInv(t) /\ pc'[t] = "sent" /\ reply'[t] = r
  BY <1>1, GetTypes DEF GetInv
<1>3. /\ val[t] \in Row /\ val[t].ts \in Times
      /\ q.ims # None => lm[t] \in Dates
      /\ q.ims # None /\ t \notin torn => lm[t] = SecondOf(val[t])
  BY <1>1, <1>2, GetTypes, DateFacts DEF ThreadInv, Dated, DateKept
<1>4. r \in [code : {0, 200, 304, 400, 404}, row : Row, date : Dates \cup {None},
             etag : Times \cup {None}]
  BY <1>3
<1>5. TypeOK'
  <2> HIDE DEF r
  <2> QED
    BY <1>1, <1>4 DEF GetInv, TypeOK, Row
<1>6. Answered(q, r, during[t]) /\ (t \notin torn => Exact(q, r))
  <2>1. /\ r.code \in {200, 304} /\ r.row = val[t]
        /\ r.date # None => q.ims # None /\ r.date = lm[t]
        /\ r.etag # None => q.inm # None /\ r.etag = val[t].ts
        /\ r.code = 304 => modified \/ etag
    OBVIOUS
  <2>2. val[t] # Absent /\ (val[t].ver # 0 => val[t] \in during[t])
    BY <1>1, <1>2 DEF ThreadInv, Witnessed, HasValue
  <2> HIDE DEF r
  <2>3. Answered(q, r, during[t])
    BY <2>1, <2>2 DEF Answered
  <2>4. t \notin torn => Exact(q, r)
    BY <1>3, <2>1 DEF Exact
  <2> QED
    BY <2>3, <2>4
<1> HIDE DEF r
<1>7. ThreadInv(t)'
  <2>1. Dated(t)' /\ Witnessed(t)'
    BY <1>2 DEF Dated, DateKept, Witnessed, Serving, HasValue, Dating
  <2>2. AskedByDate(t)'
    BY <1>1, <1>2 DEF AskedByDate, ThreadInv, Serving, HasValue
  <2> QED
    BY <1>1, <1>2, <1>6, <2>1, <2>2 DEF ThreadInv
<1> QED
  BY <1>1, <1>5, <1>7, StepGet, GetTypes

(***************************************************************************)
(* A 304 whose date nobody wrote over: the value that was read and the one *)
(* that the client keeps are of one second, and of one time if the client  *)
(* has no date.                                                            *)
(***************************************************************************)
LEMMA NotModifiedAlike ==
  ASSUME FrontendAssumption, NEW t, NEW q, NEW c, NEW r, r.row \in Row, r.code = 304,
         Fits(c), Asked(t, q, c), Exact(q, r)
  PROVE  /\ c.row # Absent /\ SecondOf(r.row) = SecondOf(c.row)
         /\ c.date = None => r.row.ts = c.row.ts
<1>1. r.row.ts \in Nat /\ SecondOf(r.row) \in Nat
  BY DateFacts
<1>2. r.row.ts \notin {None, Probe} /\ SecondOf(r.row) \notin {None, Probe}
  BY <1>1, DateFacts
<1>3. CASE q.ims # None /\ q.ims = SecondOf(r.row)
  BY <1>2, <1>3 DEF Asked, Fits
<1>4. CASE q.ims # SecondOf(r.row) /\ q.inm # None /\ q.inm = r.row.ts
  <2>1. c.etag = r.row.ts /\ c.etag # None
    BY <1>2, <1>4 DEF Asked
  <2>2. CASE c.date = None
    BY <1>4, <2>1, <2>2 DEF Fits, SecondOf
  <2>3. CASE c.date # None
    BY <2>1, <2>3 DEF Fits, SecondOf
  <2> QED
    BY <2>2, <2>3
<1> QED
  BY <1>2, <1>3, <1>4 DEF Exact

(***************************************************************************)
(* A client that takes an answer whose date nobody wrote over keeps a      *)
(* value with its validators: those that a 304 renews are of one second.   *)
(***************************************************************************)
LEMMA KeptTrue ==
  ASSUME FrontendAssumption, GetInv, NEW t \in Threads, pc[t] = "sent"
  PROVE  /\ HeldBy(t, Kept(t)) /\ (~ Spoils(t) => Fits(Kept(t)))
         /\ Kept(t) \in [row : Row, date : Dates \cup {None},
                              etag : Times \cup {None}]
<1> DEFINE q == req[t]
<1> DEFINE c == copy[t][q.key]
<1> DEFINE r == reply[t]
<1>1. /\ c \in [row : Row, date : Dates \cup {None}, etag : Times \cup {None}]
      /\ r \in [code : {0, 200, 304, 400, 404}, row : Row, date : Dates \cup {None},
                etag : Times \cup {None}]
  BY GetTypes
<1>2. HeldBy(t, c) /\ Asked(t, q, c) /\ Answered(q, r, during[t])
  BY GetTypes DEF GetInv, ThreadInv
<1>3. /\ <<t, q.key>> \notin spoilt => Fits(c)
      /\ t \notin torn => Exact(q, r)
  BY GetTypes DEF GetInv, ThreadInv
<1> HIDE DEF q, c, r
<1>4. CASE r.code = 200
  <2> DEFINE d == [row |-> r.row, date |-> r.date, etag |-> r.etag]
  <2>1. Kept(t) = d /\ (Spoils(t) <=> t \in torn)
    BY <1>4 DEF Kept, Spoils, q, c, r
  <2>2. HeldBy(t, d)
    BY <1>2, <1>4 DEF HeldBy, Answered, Asked
  <2>3. t \notin torn => Fits(d)
    BY <1>2, <1>3, <1>4 DEF Fits, Answered, Exact, SecondOf
  <2> QED
    BY <1>1, <2>1, <2>2, <2>3
<1>5. CASE r.code = 304
  <2> DEFINE d == [row  |-> c.row,
                   date |-> IF r.date # None THEN r.date ELSE c.date,
                   etag |-> IF r.etag # None THEN r.etag ELSE c.etag]
  <2>1. Kept(t) = d /\ (Spoils(t) <=> t \in torn \/ <<t, q.key>> \in spoilt)
    BY <1>5 DEF Kept, Spoils, q, c, r
  <2>2. HeldBy(t, d)
    BY <1>2, <1>5 DEF HeldBy, Answered, Asked
  <2>3. ASSUME t \notin torn, <<t, q.key>> \notin spoilt PROVE Fits(d)
    <3>1. Fits(c) /\ Exact(q, r)
      BY <1>3, <2>3
    <3>2. /\ c.row # Absent /\ SecondOf(r.row) = SecondOf(c.row)
          /\ c.date = None => r.row.ts = c.row.ts
      BY <1>1, <1>2, <1>5, <3>1, NotModifiedAlike
    <3>3. d.date # None => d.date = SecondOf(c.row)
      BY <1>5, <3>1, <3>2 DEF Fits, Exact
    <3>4. d.date = None => c.date = None
      OBVIOUS
    <3>5. d.etag # None => IF d.date = None THEN d.etag = c.row.ts
                           ELSE Second(d.etag) = SecondOf(c.row)
      <4>1. CASE r.etag # None
        BY <1>2, <1>5, <3>2, <3>4, <4>1 DEF Answered, SecondOf
      <4>2. CASE r.etag = None /\ c.date = None
        BY <3>1, <4>2 DEF Fits, SecondOf
      <4>3. CASE r.etag = None /\ c.date # None
        BY <3>1, <3>4, <4>3 DEF Fits
      <4> QED
        BY <4>1, <4>2, <4>3
    <3>6. d.row = c.row
      OBVIOUS
    <3> HIDE DEF d
    <3> QED
      BY <3>2, <3>3, <3>5, <3>6 DEF Fits
  <2> QED
    BY <1>1, <2>1, <2>2, <2>3
<1>6. CASE r.code = 404
  <2>1. Kept(t) = NoCopy
    BY <1>6 DEF Kept, q, c, r
  <2> QED
    BY <2>1, DateFacts DEF NoCopy, HeldBy, Fits
<1>7. CASE r.code \in {0, 400}
  <2>1. Kept(t) = c /\ (Spoils(t) <=> <<t, q.key>> \in spoilt)
    BY <1>7 DEF Kept, Spoils, q, c, r
  <2> QED
    BY <1>1, <1>2, <1>3, <2>1
<1> QED
  BY <1>1, <1>4, <1>5, <1>6, <1>7

\* What a client keeps after an answer has the validators of its value.
LEMMA ReceiveGet ==
  ASSUME FrontendAssumption, GetInv, NEW t \in Threads, Receive(t)
  PROVE  GetInv'
<1> DEFINE k == req[t].key
<1> DEFINE d == Kept(t)
<1>1. /\ pc[t] = "sent" /\ pc' = [pc EXCEPT ![t] = "idle"]
      /\ copy' = [copy EXCEPT ![t][k] = d]
      /\ req' = [req EXCEPT ![t] = NoRequest] /\ val' = [val EXCEPT ![t] = Absent]
      /\ lm' = [lm EXCEPT ![t] = None] /\ reply' = [reply EXCEPT ![t] = NoReply]
      /\ during' = [during EXCEPT ![t] = {}]
      /\ torn' = torn \ {t}
      /\ spoilt' = (spoilt \ {<<t, k>>}) \cup (IF Spoils(t) THEN {<<t, k>>} ELSE {})
      /\ UNCHANGED <<store, now, writes, errors, wpc, tm, buf>>
  BY DEF Receive, shared
<1>2. /\ k \in Keys /\ HeldBy(t, d) /\ (~ Spoils(t) => Fits(d))
      /\ d \in [row : Row, date : Dates \cup {None}, etag : Times \cup {None}]
  BY <1>1, KeptTrue, GetTypes
<1> HIDE DEF k, d
<1>3. /\ copy' \in [Threads -> [Keys -> [row : Row, date : Dates \cup {None},
                                         etag : Times \cup {None}]]]
      /\ copy'[t][k] = d /\ \A j \in Keys : j # k => copy'[t][j] = copy[t][j]
      /\ \A u \in Threads : u # t => copy'[u] = copy[u]
  BY <1>1, <1>2, GetTypes
<1>4. TypeOK'
  <2>1. NoRequest \in [key : Keys, ims : Validator, inm : Validator]
    BY DEF NoRequest, Validator, FrontendAssumption
  <2>2. NoReply \in [code : {0, 200, 304, 400, 404}, row : Row,
                          date : Dates \cup {None}, etag : Times \cup {None}]
    BY DEF NoReply, Row
  <2>3. req' \in [Threads -> [key : Keys, ims : Validator, inm : Validator]]
    BY <1>1, <2>1, GetTypes
  <2>4. reply' \in [Threads -> [code : {0, 200, 304, 400, 404}, row : Row,
                                date : Dates \cup {None},
                                etag : Times \cup {None}]]
    BY <1>1, <2>2, GetTypes
  <2>5. /\ val' \in [Threads -> Row] /\ lm' \in [Threads -> Dates \cup {None, Mixed}]
        /\ during' \in [Threads -> SUBSET Row]
    BY <1>1, GetTypes, DateFacts
  <2>6. torn' \subseteq Threads /\ spoilt' \subseteq Threads \X Keys
    BY <1>1, <1>2, GetTypes
  <2> QED
    BY <1>1, <1>3, <2>3, <2>4, <2>5, <2>6 DEF GetInv, TypeOK, Row
<1>5. ThreadInv(t)'
  <2>1. pc'[t] = "idle" /\ ThreadInv(t)
    BY <1>1, GetTypes DEF GetInv
  <2>2. Dated(t)' /\ Witnessed(t)' /\ AskedByDate(t)'
    BY <2>1 DEF Dated, DateKept, Witnessed, AskedByDate, Serving, HasValue, Dating
  <2>3. ASSUME NEW j \in Keys
        PROVE  HeldBy(t, copy'[t][j]) /\ (<<t, j>> \notin spoilt' => Fits(copy'[t][j]))
    <3>1. CASE j = k
      BY <1>1, <1>2, <1>3, <3>1
    <3>2. CASE j # k
      <4>1. <<t, j>> \in spoilt <=> <<t, j>> \in spoilt'
        BY <1>1, <3>2
      <4> QED
        BY <1>3, <2>1, <3>2, <4>1 DEF ThreadInv
    <3> QED
      BY <3>1, <3>2
  <2> QED
    BY <2>1, <2>2, <2>3 DEF ThreadInv
<1>6. \A u \in Threads \ {t} :
        /\ u \in torn => u \in torn'
        /\ \A j \in Keys : <<u, j>> \in spoilt => <<u, j>> \in spoilt'
  BY <1>1
<1> QED
  BY <1>1, <1>3, <1>4, <1>5, <1>6, StepGet, GetTypes

\* Every step of threads, writers, clients and clock keeps the invariant.
LEMMA NextGetInv ==
  ASSUME FrontendAssumption, GetInv, [Next]_vars
  PROVE  GetInv'
<1>1. /\ now \in Times /\ writes \in 0 .. MaxWrites /\ errors \in 0 .. MaxErrors
      /\ MaxTime \in Nat /\ MaxWrites \in Nat /\ MaxErrors \in Nat
  BY DEF GetInv, TypeOK, FrontendAssumption
<1>2. ASSUME NEW t \in Threads, Serve(t) PROVE GetInv'
  <2>1. CASE Get(t)
    <3>1. store[req[t].key] \in Row
      BY GetTypes
    <3>2. pc[t] = "get" /\ store[req[t].key] # Absent /\ WithValue(t, store[req[t].key])
      BY <2>1 DEF Get
    <3>3. UNCHANGED <<store, now, writes, errors, wpc, tm, buf, req, lm, reply, copy, during, torn, spoilt>>
      BY <2>1 DEF Get, shared, overlaps
    <3> QED
      BY <1>1, <3>1, <3>2, <3>3, ValueGet
  <2>2. CASE GetFails(t)
    <3>1. PICK ts \in Times : WithValue(t, [ver |-> 0, ts |-> ts])
      BY <2>2 DEF GetFails
    <3> DEFINE row == [ver |-> 0, ts |-> ts]
    <3>2. row \in Row /\ row # Absent /\ row.ver = 0
      BY <1>1 DEF Row, Rows, Absent
    <3>3. WithValue(t, row)
      BY <3>1
    <3> HIDE DEF row
    <3>4. errors' \in 0 .. MaxErrors /\ pc[t] = "get"
      BY <1>1, <2>2 DEF GetFails
    <3>5. UNCHANGED <<store, now, writes, wpc, tm, buf, req, lm, reply, copy, during, torn, spoilt>>
      BY <2>2 DEF GetFails, overlaps
    <3> QED
      BY <3>2, <3>3, <3>4, <3>5, ValueGet
  <2> QED
    BY <1>2, <2>1, <2>2, NotFoundGet, GmtimeGet, AsctimeBeginsGet, AsctimeEndsGet, SprintfGet,
       AnswerGet, ReceiveGet DEF Serve
<1>3. ASSUME NEW w \in Writers, Stamp(w) PROVE GetInv'
  <2> DEFINE row == [ver |-> writes + 1, ts |-> now]
  <2>1. row \in Row /\ writes' \in 0 .. MaxWrites
    BY <1>1, <1>3 DEF Stamp, Row, Rows
  <2>2. /\ wpc' = [wpc EXCEPT ![w] = row]
        /\ UNCHANGED <<store, now, errors, tm, buf, pc, req, val, lm, reply, copy, during, torn, spoilt>>
    BY <1>3 DEF Stamp, overlaps
  <2> HIDE DEF row
  <2>3. wpc' \in [Writers -> Row]
    BY <2>1, <2>2, GetTypes
  <2> QED
    BY <1>1, <2>1, <2>2, <2>3, QuietGet
<1>4. ASSUME NEW w \in Writers, NEW k \in Keys, Put(w, k) PROVE GetInv'
  <2>1. wpc[w] \in Row /\ wpc' \in [Writers -> Row]
    BY <1>4, GetTypes, DateFacts DEF Put
  <2>2. /\ store' = [store EXCEPT ![k] = wpc[w]] /\ Witness(k)
        /\ UNCHANGED <<now, writes, errors, tm, buf, pc, req, val, lm, reply, copy, torn, spoilt>>
    BY <1>4 DEF Put, overlaps
  <2> QED
    BY <2>1, <2>2, StoreGet
<1>5. ASSUME NEW k \in Keys, Del(k) PROVE GetInv'
  <2>1. /\ store' = [store EXCEPT ![k] = Absent] /\ Witness(k)
        /\ UNCHANGED <<now, writes, errors, wpc, tm, buf, pc, req, val, lm, reply, copy, torn, spoilt>>
    BY <1>5 DEF Del, overlaps
  <2>2. Absent \in Row /\ wpc' \in [Writers -> Row]
    BY <2>1, GetTypes, DateFacts
  <2> QED
    BY <2>1, <2>2, StoreGet
<1>6. CASE Tick
  <2>1. now' \in Times
    BY <1>1, <1>6 DEF Tick, Times
  <2>2. UNCHANGED <<store, writes, errors, wpc, tm, buf, pc, req, val, lm, reply, copy, during, torn, spoilt>>
    BY <1>6 DEF Tick, overlaps
  <2> QED
    BY <1>1, <2>1, <2>2, QuietGet, GetTypes
<1>7. CASE UNCHANGED vars
  <2>1. UNCHANGED <<store, now, writes, errors, wpc, tm, buf, pc, req, val, lm, reply, copy, during, torn, spoilt>>
    BY <1>7 DEF vars, shared, overlaps
  <2> QED
    BY <1>1, <2>1, QuietGet, GetTypes
<1> QED
  BY <1>2, <1>3, <1>4, <1>5, <1>6, <1>7, RequestGet, BadRequestGet DEF Next

\* Clients begin without a copy and threads without a request.
LEMMA InitGetInv ==
  ASSUME FrontendAssumption, Init
  PROVE  GetInv
<1>1. 0 \in Times /\ 0 \in Dates
  <2>1. Second(0) = 0
    BY DEF Second, FrontendAssumption
  <2> QED
    BY <2>1, DateFacts
<1>2. TypeOK
  <2>1. /\ NoRequest \in [key : Keys, ims : Validator, inm : Validator]
        /\ NoReply \in [code : {0, 200, 304, 400, 404}, row : Rows \cup {Absent},
                        date : Dates \cup {None}, etag : Times \cup {None}]
        /\ NoCopy \in [row : Rows \cup {Absent}, date : Dates \cup {None},
                       etag : Times \cup {None}]
    BY DEF NoRequest, NoReply, NoCopy, Validator, FrontendAssumption
  <2> QED
    BY <1>1, <2>1 DEF Init, TypeOK, FrontendAssumption
<1>3. ASSUME NEW t \in Threads PROVE ThreadInv(t)
  <2>1. pc[t] = "idle" /\ \A k \in Keys : copy[t][k] = NoCopy
    BY DEF Init
  <2>2. Dated(t) /\ Witnessed(t) /\ AskedByDate(t)
    BY <2>1 DEF Dated, DateKept, Witnessed, AskedByDate, Serving, HasValue, Dating
  <2>3. \A k \in Keys : HeldBy(t, copy[t][k]) /\ Fits(copy[t][k])
    <3>1. NoCopy.date = None /\ NoCopy.etag = None
      BY DEF NoCopy
    <3> QED
      BY <2>1, <3>1 DEF HeldBy, Fits
  <2>4. pc[t] # "sent"
    BY <2>1
  <2> QED
    BY <2>1, <2>2, <2>3, <2>4 DEF ThreadInv
<1>4. PrintsAlone
  BY DEF Init, PrintsAlone
<1> QED
  BY <1>2, <1>3, <1>4 DEF GetInv

(***************************************************************************)
(* For any number of keys, threads, writers, failed reads and clients with *)
(* any validators: an answer of GetCallbackPro is true of some moment      *)
(* while the request was served, with timestamps that need not grow from   *)
(* one Put to the next.  Threads share the buffers of toGMT; a 304 is left *)
(* out only if another thread wrote there between this one's writing and   *)
(* reading, in this request or in the one that brought the validators.     *)
(***************************************************************************)
THEOREM FrontendAnswerCurrent ==
  FrontendAssumption => (Spec => []AnswerCurrent)
<1> SUFFICES ASSUME FrontendAssumption
             PROVE  Spec => []AnswerCurrent
  OBVIOUS
<1>1. Init => GetInv
  BY InitGetInv
<1>2. GetInv /\ [Next]_vars => GetInv'
  BY NextGetInv
<1>3. GetInv => AnswerCurrent
  <2> SUFFICES ASSUME GetInv, NEW t \in Threads, pc[t] = "sent"
               PROVE  LET r == reply[t]
                          c == copy[t][req[t].key]
                      IN  /\ r.code = 200 /\ r.row.ver # 0 => r.row \in during[t]
                          /\ /\ r.code = 304 /\ r.row.ver # 0 /\ c.row.ver # 0
                             /\ t \notin torn /\ <<t, req[t].key>> \notin spoilt
                             => \E row \in during[t] : Alike(t, row, c.row)
                          /\ r.code = 404 => Absent \in during[t]
    BY DEF AnswerCurrent
  <2> DEFINE q == req[t]
  <2> DEFINE c == copy[t][q.key]
  <2> DEFINE r == reply[t]
  <2>1. Asked(t, q, c) /\ Answered(q, r, during[t]) /\ r.row \in Row
    BY GetTypes DEF GetInv, ThreadInv
  <2>2. /\ t \notin torn => Exact(q, r)
        /\ <<t, q.key>> \notin spoilt => Fits(c)
        /\ r.code = 304 /\ q.ims = None => c.date = None
    BY GetTypes DEF GetInv, ThreadInv, AskedByDate
  <2>3. ASSUME r.code = 304, t \notin torn, <<t, q.key>> \notin spoilt
        PROVE  Alike(t, r.row, c.row)
    <3> HIDE DEF c, r
    <3>1. /\ c.row # Absent /\ SecondOf(r.row) = SecondOf(c.row)
          /\ c.date = None => r.row.ts = c.row.ts
      BY <2>1, <2>2, <2>3, NotModifiedAlike
    <3>2. r.row # Absent
      BY <2>1, <2>3 DEF Answered
    <3> QED
      BY <2>2, <2>3, <3>1, <3>2 DEF Alike, SecondOf
  <2> HIDE DEF c, r
  <2>4. /\ r.code = 200 /\ r.row.ver # 0 => r.row \in during[t]
        /\ r.code = 304 /\ r.row.ver # 0 => r.row \in during[t]
        /\ r.code = 404 => Absent \in during[t]
    BY <2>1 DEF Answered
  <2> QED
    BY <2>3, <2>4 DEF c, r
<1> QED
  BY <1>1, <1>2, <1>3, PTL DEF Spec

(***************************************************************************)
(* For any number of keys, threads, writers, failed reads and clients with *)
(* any validators: a client has with its value the date and the ETag of    *)
(* that value, after any number of answers that renewed them (beside a     *)
(* date, an ETag of the same second), unless another thread wrote over     *)
(* the date in toGMT; so it is not told that a later value is the one it   *)
(* has.                                                                    *)
(***************************************************************************)
THEOREM FrontendValidatorsMatch ==
  FrontendAssumption => (Spec => []ValidatorsMatch)
<1> SUFFICES ASSUME FrontendAssumption
             PROVE  Spec => []ValidatorsMatch
  OBVIOUS
<1>1. Init => GetInv
  BY InitGetInv
<1>2. GetInv /\ [Next]_vars => GetInv'
  BY NextGetInv
<1>3. GetInv => ValidatorsMatch
  BY DEF GetInv, ThreadInv, Fits, ValidatorsMatch, SecondOf
<1> QED
  BY <1>1, <1>2, <1>3, PTL DEF Spec

-----------------------------------------------------------------------------
(* Induction up to a number.                                               *)

\* A set of numbers that is not empty has a least one.
LEMMA NatMin ==
  ASSUME NEW T \in SUBSET Nat, T # {}
  PROVE  \E n \in T : \A m \in T : n <= m
<1>1. IsWellFoundedOn(OpToRel(<, Nat), Nat)
  BY NatLessThanWellFounded
<1>2. PICK n \in T : \A m \in T : <<m, n>> \notin OpToRel(<, Nat)
  BY <1>1, WFMin
<1>3. \A m \in T : ~(m < n)
  BY <1>2 DEF OpToRel
<1> QED
  BY <1>3

\* Induction up to n, for a set: its least number that is missing has a
\* predecessor that is not.
LEMMA InductionTo ==
  ASSUME NEW n \in Nat, NEW S, 0 \in S, \A i \in 1 .. n : i - 1 \in S => i \in S
  PROVE  \A i \in 0 .. n : i \in S
<1> DEFINE T == {i \in 0 .. n : i \notin S}
<1>1. SUFFICES ASSUME T # {} PROVE FALSE
  BY <1>1
<1>2. PICK i \in T : \A m \in T : i <= m
  <2>1. T \in SUBSET Nat
    OBVIOUS
  <2> QED
    BY <1>1, <2>1, NatMin
<1>3. i \in 1 .. n /\ i - 1 \in 0 .. n /\ i - 1 \notin T
  BY <1>2
<1> QED
  BY <1>2, <1>3
\* A bounded set of numbers that is not empty has a greatest one.
LEMMA NatMax ==
  ASSUME NEW n \in Nat, NEW T, T \subseteq 1 .. n, T # {}
  PROVE  \E m \in T : \A k \in T : k <= m
<1> DEFINE U == {n - k : k \in T}
<1>1. U \in SUBSET Nat /\ U # {}
  <2>1. ASSUME NEW k \in T PROVE n - k \in Nat
    <3>1. k \in 1 .. n
      OBVIOUS
    <3> QED
      BY <3>1
  <2>2. U # {}
    OBVIOUS
  <2> QED
    BY <2>1, <2>2
<1>2. PICK u \in U : \A v \in U : u <= v
  <2> HIDE DEF U
  <2> QED
    BY <1>1, NatMin
<1>3. PICK m \in T : u = n - m
  OBVIOUS
<1>4. ASSUME NEW k \in T PROVE k <= m
  <2>1. n - k \in U
    OBVIOUS
  <2>2. n - m <= n - k
    BY <1>2, <1>3, <2>1
  <2>3. k \in Nat /\ m \in Nat
    OBVIOUS
  <2> QED
    BY <2>2, <2>3
<1> QED
  BY <1>4

-----------------------------------------------------------------------------
(* Multipart: where a pattern occurs.                                      *)

\* pat is found in data behind its first i symbols.
Occurs(data, pat, i) ==
  /\ i \in Nat /\ i + Len(pat) <= Len(data)
  /\ \A k \in 1 .. Len(pat) : data[i + k] = pat[k]

\* An occurrence is a piece of data that equals pat.
LEMMA OccursPiece ==
  ASSUME NEW D, NEW data \in Seq(D), NEW pat \in Seq(D), NEW i \in 0 .. (Len(data) - Len(pat))
  PROVE  SubSeq(data, i + 1, i + Len(pat)) = pat <=> Occurs(data, pat, i)
<1> DEFINE s == SubSeq(data, i + 1, i + Len(pat))
<1>1. Len(data) \in Nat /\ Len(pat) \in Nat /\ i \in Nat /\ i + Len(pat) <= Len(data)
  OBVIOUS
<1>2. s \in Seq(D) /\ Len(s) = Len(pat) /\ \A k \in 1 .. Len(pat) : s[k] = data[i + k]
  <2>1. \A k \in i + 1 .. i + Len(pat) : data[k] \in D
    BY <1>1
  <2> QED
    BY <1>1, <2>1, SubSeqProperties
<1> HIDE DEF s
<1>3. s = pat <=> \A k \in 1 .. Len(pat) : s[k] = pat[k]
  BY <1>1, <1>2, SeqEqual
<1> QED
  BY <1>1, <1>2, <1>3 DEF Occurs, s

\* Position is the offset of the first occurrence, or -1.
LEMMA PositionFirst ==
  ASSUME NEW D, NEW data \in Seq(D), NEW pat \in Seq(D)
  PROVE  LET n == Parsing!Position(data, pat)
         IN  \/ n = -1 /\ \A i \in Nat : ~Occurs(data, pat, i)
             \/ n \in Nat /\ Occurs(data, pat, n) /\ \A i \in Nat : Occurs(data, pat, i) => n <= i
<1> DEFINE n == Parsing!Position(data, pat)
           S == {i \in 0 .. (Len(data) - Len(pat)) : SubSeq(data, i + 1, i + Len(pat)) = pat}
<1>1. n = IF S = {} THEN -1 ELSE CHOOSE i \in S : \A j \in S : i <= j
  BY DEF Parsing!Position
<1>2. \A i \in Nat : i \in S <=> Occurs(data, pat, i)
  <2> SUFFICES ASSUME NEW i \in Nat PROVE i \in S <=> Occurs(data, pat, i)
    OBVIOUS
  <2>1. CASE i \in 0 .. (Len(data) - Len(pat))
    BY <2>1, OccursPiece
  <2>2. CASE i \notin 0 .. (Len(data) - Len(pat))
    <3>1. Len(data) \in Nat /\ Len(pat) \in Nat
      OBVIOUS
    <3>2. ~(i + Len(pat) <= Len(data))
      BY <2>2, <3>1
    <3> QED
      BY <2>2, <3>2 DEF Occurs
  <2> QED
    BY <2>1, <2>2
<1>3. S \in SUBSET Nat
  OBVIOUS
<1> HIDE DEF S
<1>4. CASE S = {}
  <2>1. n = -1
    BY <1>1, <1>4
  <2> QED
    BY <1>2, <1>4, <2>1
<1>5. CASE S # {}
  <2>1. \E i \in S : \A j \in S : i <= j
    BY <1>3, <1>5, NatMin
  <2>2. n \in S /\ \A j \in S : n <= j
    <3>1. n = CHOOSE i \in S : \A j \in S : i <= j
      BY <1>1, <1>5
    <3> HIDE DEF n
    <3> QED
      BY <2>1, <3>1
  <2> QED
    BY <1>2, <1>3, <2>2
<1> QED
  BY <1>4, <1>5

\* An occurrence with none before it is where Position finds the pattern.
LEMMA PositionIs ==
  ASSUME NEW D, NEW data \in Seq(D), NEW pat \in Seq(D), NEW n \in Nat,
         Occurs(data, pat, n), \A i \in Nat : Occurs(data, pat, i) => n <= i
  PROVE  Parsing!Position(data, pat) = n
<1> DEFINE p == Parsing!Position(data, pat)
<1>1. \/ p = -1 /\ \A i \in Nat : ~Occurs(data, pat, i)
      \/ p \in Nat /\ Occurs(data, pat, p) /\ \A i \in Nat : Occurs(data, pat, i) => p <= i
  BY PositionFirst
<1> HIDE DEF p
<1>2. p \in Nat /\ p <= n /\ n <= p
  BY <1>1
<1> QED
  BY <1>2 DEF p

\* A pattern that is nowhere is not found.
LEMMA PositionNone ==
  ASSUME NEW D, NEW data \in Seq(D), NEW pat \in Seq(D), \A i \in Nat : ~Occurs(data, pat, i)
  PROVE  Parsing!Position(data, pat) = -1
<1> DEFINE p == Parsing!Position(data, pat)
<1>1. \/ p = -1 /\ \A i \in Nat : ~Occurs(data, pat, i)
      \/ p \in Nat /\ Occurs(data, pat, p) /\ \A i \in Nat : Occurs(data, pat, i) => p <= i
  BY PositionFirst
<1> HIDE DEF p
<1> QED
  BY <1>1 DEF p
-----------------------------------------------------------------------------
(* Taking and dropping symbols.                                            *)

\* What is dropped and taken, as sequences.
LEMMA DropIs ==
  ASSUME NEW D, NEW a \in Seq(D), NEW n \in 0 .. Len(a)
  PROVE  /\ Parsing!Drop(a, n) \in Seq(D) /\ Len(Parsing!Drop(a, n)) = Len(a) - n
         /\ \A i \in 1 .. Len(a) - n : Parsing!Drop(a, n)[i] = a[n + i]
<1>1. Len(a) \in Nat /\ n \in Nat /\ n <= Len(a)
  OBVIOUS
<1>2. \A k \in n + 1 .. Len(a) : a[k] \in D
  BY <1>1
<1> QED
  BY <1>1, <1>2, SubSeqProperties DEF Parsing!Drop

\* The same of what is taken.
LEMMA TakeIs ==
  ASSUME NEW D, NEW a \in Seq(D), NEW n \in 0 .. Len(a)
  PROVE  /\ Parsing!Take(a, n) \in Seq(D) /\ Len(Parsing!Take(a, n)) = n
         /\ \A i \in 1 .. n : Parsing!Take(a, n)[i] = a[i]
<1>1. Len(a) \in Nat /\ n \in Nat /\ n <= Len(a)
  OBVIOUS
<1>2. \A k \in 1 .. n : a[k] \in D
  BY <1>1
<1> QED
  BY <1>1, <1>2, SubSeqProperties DEF Parsing!Take

\* Symbols behind are not touched when some are taken off the front.
LEMMA DropConcat ==
  ASSUME NEW D, NEW a \in Seq(D), NEW b \in Seq(D), NEW n \in 0 .. Len(a)
  PROVE  /\ Parsing!Drop(a \o b, n) = Parsing!Drop(a, n) \o b
         /\ Parsing!Take(a \o b, n) = Parsing!Take(a, n)
<1> DEFINE c == a \o b
           d == Parsing!Drop(a, n)
           e == Parsing!Drop(c, n)
           f == d \o b
           g == Parsing!Take(a, n)
           h == Parsing!Take(c, n)
<1>1. Len(a) \in Nat /\ Len(b) \in Nat /\ n \in Nat /\ n <= Len(a)
  OBVIOUS
<1>2. /\ c \in Seq(D) /\ Len(c) = Len(a) + Len(b)
      /\ \A i \in 1 .. Len(a) + Len(b) : c[i] = IF i <= Len(a) THEN a[i] ELSE b[i - Len(a)]
  BY ConcatProperties
<1>3. /\ d \in Seq(D) /\ Len(d) = Len(a) - n
      /\ \A i \in 1 .. Len(a) - n : d[i] = a[n + i]
  BY DropIs
<1>4. g \in Seq(D) /\ Len(g) = n /\ \A i \in 1 .. n : g[i] = a[i]
  BY TakeIs
<1> HIDE DEF c, d
<1>5. /\ e \in Seq(D) /\ Len(e) = Len(c) - n
      /\ \A i \in 1 .. Len(c) - n : e[i] = c[n + i]
  <2>1. n \in 0 .. Len(c)
    BY <1>1, <1>2
  <2> QED
    BY <1>2, <2>1, DropIs
<1>6. h \in Seq(D) /\ Len(h) = n /\ \A i \in 1 .. n : h[i] = c[i]
  <2>1. n \in 0 .. Len(c)
    BY <1>1, <1>2
  <2> QED
    BY <1>2, <2>1, TakeIs
<1>7. /\ f \in Seq(D) /\ Len(f) = Len(d) + Len(b)
      /\ \A i \in 1 .. Len(d) + Len(b) : f[i] = IF i <= Len(d) THEN d[i] ELSE b[i - Len(d)]
  BY <1>3, ConcatProperties
<1> HIDE DEF e, f, g, h
<1>8. e = f
  <2>1. Len(e) = Len(f)
    BY <1>1, <1>2, <1>3, <1>5, <1>7
  <2>2. ASSUME NEW i \in 1 .. Len(e) PROVE e[i] = f[i]
    <3>1. i \in 1 .. Len(c) - n /\ n + i \in 1 .. Len(a) + Len(b) /\ e[i] = c[n + i]
      BY <1>1, <1>2, <1>5
    <3>2. CASE i <= Len(a) - n
      <4>1. e[i] = a[n + i]
        BY <1>1, <1>2, <3>1, <3>2
      <4>2. i \in 1 .. Len(a) - n /\ i \in 1 .. Len(d) + Len(b) /\ i <= Len(d)
        BY <1>1, <1>3, <3>1, <3>2
      <4> QED
        BY <1>3, <1>7, <4>1, <4>2
    <3>3. CASE ~(i <= Len(a) - n)
      <4>1. e[i] = b[n + i - Len(a)]
        BY <1>1, <1>2, <3>1, <3>3
      <4>2. i \in 1 .. Len(d) + Len(b) /\ ~(i <= Len(d)) /\ i - Len(d) = n + i - Len(a)
        BY <1>1, <1>2, <1>3, <3>1, <3>3
      <4> QED
        BY <1>7, <4>1, <4>2
    <3> QED
      BY <3>2, <3>3
  <2> QED
    BY <1>5, <1>7, <2>1, <2>2, SeqEqual
<1>9. h = g
  <2>1. \A i \in 1 .. n : h[i] = g[i]
    BY <1>1, <1>2, <1>4, <1>6
  <2> QED
    BY <1>4, <1>6, <2>1, SeqEqual
<1> QED
  BY <1>8, <1>9 DEF c, d, e, f, g, h

\* Taking and dropping in two portions.
LEMMA TakeTwice ==
  ASSUME NEW D, NEW a \in Seq(D), NEW n \in Nat, NEW m \in Nat, n + m <= Len(a)
  PROVE  /\ Parsing!Take(a, n) \o Parsing!Take(Parsing!Drop(a, n), m) = Parsing!Take(a, n + m)
         /\ Parsing!Drop(Parsing!Drop(a, n), m) = Parsing!Drop(a, n + m)
<1> DEFINE d == Parsing!Drop(a, n)
           t == Parsing!Take(a, n)
           e == Parsing!Drop(d, m)
           u == Parsing!Take(d, m)
           f == Parsing!Drop(a, n + m)
           v == Parsing!Take(a, n + m)
           w == t \o u
<1>1. Len(a) \in Nat /\ n \in 0 .. Len(a) /\ n + m \in 0 .. Len(a)
  OBVIOUS
<1>2. /\ d \in Seq(D) /\ Len(d) = Len(a) - n
      /\ \A i \in 1 .. Len(a) - n : d[i] = a[n + i]
  BY <1>1, DropIs
<1>3. t \in Seq(D) /\ Len(t) = n /\ \A i \in 1 .. n : t[i] = a[i]
  BY <1>1, TakeIs
<1>4. /\ f \in Seq(D) /\ Len(f) = Len(a) - (n + m)
      /\ \A i \in 1 .. Len(a) - (n + m) : f[i] = a[n + m + i]
  BY <1>1, DropIs
<1>5. v \in Seq(D) /\ Len(v) = n + m /\ \A i \in 1 .. n + m : v[i] = a[i]
  BY <1>1, TakeIs
<1> HIDE DEF d, t, f, v
<1>6. m \in 0 .. Len(d)
  BY <1>1, <1>2
<1>7. /\ e \in Seq(D) /\ Len(e) = Len(d) - m
      /\ \A i \in 1 .. Len(d) - m : e[i] = d[m + i]
  BY <1>2, <1>6, DropIs
<1>8. u \in Seq(D) /\ Len(u) = m /\ \A i \in 1 .. m : u[i] = d[i]
  BY <1>2, <1>6, TakeIs
<1> HIDE DEF e, u
<1>9. /\ w \in Seq(D) /\ Len(w) = Len(t) + Len(u)
      /\ \A i \in 1 .. Len(t) + Len(u) : w[i] = IF i <= Len(t) THEN t[i] ELSE u[i - Len(t)]
  BY <1>3, <1>8, ConcatProperties
<1> HIDE DEF w
<1>10. e = f
  <2>1. Len(e) = Len(f)
    BY <1>1, <1>2, <1>4, <1>7
  <2>2. ASSUME NEW i \in 1 .. Len(e) PROVE e[i] = f[i]
    <3>1. i \in 1 .. Len(d) - m /\ m + i \in 1 .. Len(a) - n /\ i \in 1 .. Len(a) - (n + m)
      BY <1>1, <1>2, <1>7
    <3>2. n + (m + i) = n + m + i
      BY <3>1
    <3> QED
      BY <1>2, <1>4, <1>7, <3>1, <3>2
  <2> QED
    BY <1>4, <1>7, <2>1, <2>2, SeqEqual
<1>11. w = v
  <2>1. Len(w) = Len(v)
    BY <1>3, <1>5, <1>8, <1>9
  <2>2. ASSUME NEW i \in 1 .. Len(w) PROVE w[i] = v[i]
    <3>1. i \in 1 .. n + m
      BY <1>3, <1>8, <1>9
    <3>2. CASE i <= n
      <4>1. i \in 1 .. n
        BY <3>1, <3>2
      <4>2. w[i] = t[i]
        BY <1>3, <1>8, <1>9, <3>1, <3>2
      <4> QED
        BY <1>3, <1>5, <3>1, <4>1, <4>2
    <3>3. CASE ~(i <= n)
      <4>1. i - n \in 1 .. m /\ i - n \in 1 .. Len(a) - n /\ n + (i - n) = i
        BY <1>1, <3>1, <3>3
      <4>2. w[i] = u[i - n]
        BY <1>3, <1>8, <1>9, <3>1, <3>3
      <4> QED
        BY <1>2, <1>5, <1>8, <3>1, <4>1, <4>2
    <3> QED
      BY <3>2, <3>3
  <2> QED
    BY <1>5, <1>9, <2>1, <2>2, SeqEqual
<1> QED
  BY <1>10, <1>11 DEF d, t, e, u, f, v, w

\* All of a sequence, in front of another one.
LEMMA DropAll ==
  ASSUME NEW D, NEW a \in Seq(D), NEW b \in Seq(D)
  PROVE  /\ Parsing!Drop(a \o b, Len(a)) = b
         /\ Parsing!Take(a \o b, Len(a)) = a
<1> DEFINE d == Parsing!Drop(a, Len(a))
           t == Parsing!Take(a, Len(a))
<1>1. Len(a) \in 0 .. Len(a)
  OBVIOUS
<1>2. d \in Seq(D) /\ Len(d) = 0
  BY <1>1, DropIs
<1>3. t \in Seq(D) /\ Len(t) = Len(a) /\ \A i \in 1 .. Len(a) : t[i] = a[i]
  BY <1>1, TakeIs
<1> HIDE DEF d, t
<1>4. d = <<>>
  <2>1. d # <<>> => Len(d) \in Nat \ {0}
    BY <1>2, EmptySeq
  <2> QED
    BY <1>2, <2>1
<1>5. t = a
  BY <1>3, SeqEqual
<1>6. <<>> \o b = b
  BY ConcatEmptySeq
<1> QED
  BY <1>1, <1>4, <1>5, <1>6, DropConcat DEF d, t

\* What comes behind does not change the occurrences that are complete.
LEMMA OccursConcat ==
  ASSUME NEW D, NEW data \in Seq(D), NEW d \in Seq(D), NEW pat \in Seq(D),
         NEW i \in Nat, i + Len(pat) <= Len(data)
  PROVE  Occurs(data \o d, pat, i) <=> Occurs(data, pat, i)
<1> DEFINE c == data \o d
<1>1. Len(data) \in Nat /\ Len(d) \in Nat /\ Len(pat) \in Nat
  OBVIOUS
<1>2. /\ Len(c) = Len(data) + Len(d)
      /\ \A j \in 1 .. Len(data) + Len(d) : c[j] = IF j <= Len(data) THEN data[j] ELSE d[j - Len(data)]
  BY ConcatProperties
<1> HIDE DEF c
<1>3. i + Len(pat) <= Len(c)
  BY <1>1, <1>2
<1>4. \A k \in 1 .. Len(pat) : c[i + k] = data[i + k]
  BY <1>1, <1>2
<1>5. Occurs(c, pat, i) <=> Occurs(data, pat, i)
  BY <1>3, <1>4 DEF Occurs
<1> QED
  BY <1>5 DEF c

\* What was in front of an occurrence may be dropped.
LEMMA OccursDrop ==
  ASSUME NEW D, NEW data \in Seq(D), NEW pat \in Seq(D), NEW n \in 0 .. Len(data), NEW i \in Nat
  PROVE  Occurs(Parsing!Drop(data, n), pat, i) <=> Occurs(data, pat, n + i)
<1> DEFINE c == Parsing!Drop(data, n)
<1>1. Len(data) \in Nat /\ Len(pat) \in Nat /\ n \in Nat
  OBVIOUS
<1>2. Len(c) = Len(data) - n /\ \A j \in 1 .. Len(data) - n : c[j] = data[n + j]
  BY DropIs
<1> HIDE DEF c
<1>3. i + Len(pat) <= Len(c) <=> n + i + Len(pat) <= Len(data)
  BY <1>1, <1>2
<1>4. ASSUME i + Len(pat) <= Len(c), NEW k \in 1 .. Len(pat) PROVE c[i + k] = data[n + i + k]
  <2>1. i + k \in 1 .. Len(data) - n /\ n + (i + k) = n + i + k
    BY <1>1, <1>2, <1>4
  <2> QED
    BY <1>2, <2>1
<1>5. n + i \in Nat
  BY <1>1
<1>6. Occurs(c, pat, i) <=> Occurs(data, pat, n + i)
  BY <1>3, <1>4, <1>5 DEF Occurs
<1> QED
  BY <1>6 DEF c

\* A pattern that was found is found at the same place when more has come.
LEMMA PositionConcat ==
  ASSUME NEW D, NEW data \in Seq(D), NEW d \in Seq(D), NEW pat \in Seq(D),
         Parsing!Position(data, pat) >= 0
  PROVE  /\ Parsing!Position(data \o d, pat) = Parsing!Position(data, pat)
         /\ Parsing!Position(data, pat) \in Nat
         /\ Parsing!Position(data, pat) + Len(pat) <= Len(data)
<1> DEFINE p == Parsing!Position(data, pat)
           c == data \o d
<1>1. \/ p = -1 /\ \A i \in Nat : ~Occurs(data, pat, i)
      \/ p \in Nat /\ Occurs(data, pat, p) /\ \A i \in Nat : Occurs(data, pat, i) => p <= i
  BY PositionFirst
<1> HIDE DEF p
<1>2. p \in Nat /\ Occurs(data, pat, p) /\ \A i \in Nat : Occurs(data, pat, i) => p <= i
  BY <1>1 DEF p
<1>3. p + Len(pat) <= Len(data) /\ Len(pat) \in Nat /\ Len(data) \in Nat
  BY <1>2 DEF Occurs
<1>4. Occurs(c, pat, p)
  BY <1>2, <1>3, OccursConcat
<1>5. ASSUME NEW i \in Nat, Occurs(c, pat, i) PROVE p <= i
  <2>1. CASE i + Len(pat) <= Len(data)
    BY <1>2, <1>5, <2>1, OccursConcat
  <2>2. CASE ~(i + Len(pat) <= Len(data))
    BY <1>2, <1>3, <2>2
  <2> QED
    BY <2>1, <2>2
<1>6. c \in Seq(D)
  BY ConcatProperties
<1> HIDE DEF c
<1>7. Parsing!Position(c, pat) = p
  BY <1>2, <1>4, <1>5, <1>6, PositionIs
<1> QED
  BY <1>2, <1>3, <1>7 DEF p, c

-----------------------------------------------------------------------------
(* The parser as a record, and the rounds of its loop.                     *)

ParserOf(s, x, f, n) == [status |-> s, data |-> x, fields |-> f, name |-> n]

Statuses == {Parsing!LookingForStartingBoundary, Parsing!ProcessingHeaders,
             Parsing!ProcessingContentOfTheField, Parsing!Thrown}

\* The fields f after a piece of content for the field n.
Accepted(f, n, a) == [f EXCEPT ![n].content = @ \o a]

EndOfHeaders == <<CR, LF, CR, LF>>

\* The headers in front of their end, the ones among them that name a field,
\* and the first one of these.
HeadersIn(x) == Parsing!CString(Parsing!Take(x, Parsing!Position(x, EndOfHeaders)))
Named(h) == {i \in DOMAIN h : h[i] \in DOMAIN FieldOf}
FieldIn(h) == FieldOf[h[CHOOSE i \in Named(h) : \A j \in Named(h) : i <= j]]

\* The fields f with a new, empty field g.
WithField(f, g) ==
  [n \in DOMAIN f \cup {g.name} |-> IF n = g.name THEN [type |-> g.type, content |-> <<>>] ELSE f[n]]

\* What is sent to the field out of x, when the boundary is at the place at.
ToField(x, at) == IF at >= 0 THEN at - 2 ELSE Len(x) - (Len(Boundary) + 2)
Sent(x, k) == IF k > 0 THEN Parsing!Take(x, k) ELSE <<>>
Left(x, k) == IF k > 0 THEN Parsing!Drop(x, k) ELSE x

\* The status is what the record says.
LEMMA ParserStatus ==
  ASSUME NEW s, NEW x, NEW f, NEW n
  PROVE  /\ ParserOf(s, x, f, n).status = s /\ ParserOf(s, x, f, n).data = x
         /\ ParserOf(s, x, f, n).fields = f /\ ParserOf(s, x, f, n).name = n
BY DEF ParserOf

\* The statuses differ.
LEMMA StatusesDiffer ==
  /\ Parsing!LookingForStartingBoundary # Parsing!ProcessingHeaders
  /\ Parsing!LookingForStartingBoundary # Parsing!ProcessingContentOfTheField
  /\ Parsing!LookingForStartingBoundary # Parsing!Thrown
  /\ Parsing!ProcessingHeaders # Parsing!ProcessingContentOfTheField
  /\ Parsing!ProcessingHeaders # Parsing!Thrown
  /\ Parsing!ProcessingContentOfTheField # Parsing!Thrown
BY DEF Parsing!Thrown, Parsing!LookingForStartingBoundary,
       Parsing!ProcessingHeaders, Parsing!ProcessingContentOfTheField

\* FindStartingBoundary of the parser.
LEMMA ProcessLooking ==
  ASSUME NEW x, NEW f, NEW n, NEW at, at = Parsing!Position(x, Boundary)
  PROVE  Parsing!Process(ParserOf(Parsing!LookingForStartingBoundary, x, f, n)) =
           IF at < 0 THEN ParserOf(Parsing!LookingForStartingBoundary, x, f, n)
           ELSE ParserOf(Parsing!ProcessingHeaders, Parsing!Drop(x, at + Len(Boundary)), f, n)
<1> DEFINE p == ParserOf(Parsing!LookingForStartingBoundary, x, f, n)
<1>1. p.status = Parsing!LookingForStartingBoundary /\ p.data = x
  BY DEF ParserOf
<1>2. Parsing!Process(p) = Parsing!FindStartingBoundary(p)
  <2> HIDE DEF p
  <2> QED
    BY <1>1, StatusesDiffer DEF Parsing!Process
<1>3. [Parsing!TruncateDataCollector(p, at + Len(Boundary)) EXCEPT !.status = Parsing!ProcessingHeaders]
        = ParserOf(Parsing!ProcessingHeaders, Parsing!Drop(x, at + Len(Boundary)), f, n)
  <2> DEFINE d == Parsing!Drop(x, at + Len(Boundary))
             a == Parsing!TruncateDataCollector(p, at + Len(Boundary))
  <2>1. a = [p EXCEPT !.data = d]
    BY <1>1 DEF Parsing!TruncateDataCollector
  <2> HIDE DEF d, a
  <2>2. a = ParserOf(Parsing!LookingForStartingBoundary, d, f, n)
    BY <2>1 DEF ParserOf
  <2>3. [ParserOf(Parsing!LookingForStartingBoundary, d, f, n) EXCEPT !.status = Parsing!ProcessingHeaders]
          = ParserOf(Parsing!ProcessingHeaders, d, f, n)
    BY DEF ParserOf
  <2> QED
    BY <2>2, <2>3 DEF d, a
<1> QED
  BY <1>1, <1>2, <1>3 DEF Parsing!FindStartingBoundary, Parsing!BoundaryPosition

\* WaitForHeadersEnd of the parser.
LEMMA ProcessHeaders ==
  ASSUME NEW x, NEW f, NEW n, NEW at, at = Parsing!Position(x, EndOfHeaders)
  PROVE  Parsing!Process(ParserOf(Parsing!ProcessingHeaders, x, f, n)) =
           IF at < 0 THEN ParserOf(Parsing!ProcessingHeaders, x, f, n)
           ELSE IF Named(HeadersIn(x)) = {} THEN ParserOf(Parsing!Thrown, x, f, n)
           ELSE ParserOf(Parsing!ProcessingContentOfTheField, Parsing!Drop(x, at + 4),
                         WithField(f, FieldIn(HeadersIn(x))), FieldIn(HeadersIn(x)).name)
<1> DEFINE p == ParserOf(Parsing!ProcessingHeaders, x, f, n)
           h == HeadersIn(x)
           g == FieldIn(h)
           q == Parsing!_ParseHeaders(p, h)
<1>1. p.status = Parsing!ProcessingHeaders /\ p.data = x /\ p.fields = f
  BY DEF ParserOf
<1>2. Parsing!Process(p) = Parsing!WaitForHeadersEnd(p)
  <2> HIDE DEF p
  <2> QED
    BY <1>1, StatusesDiffer DEF Parsing!Process
<1>3. Parsing!WaitForHeadersEnd(p) =
        IF at < 0 THEN p ELSE IF q.status = Parsing!Thrown THEN q ELSE Parsing!TruncateDataCollector(q, at + 4)
  BY <1>1 DEF Parsing!WaitForHeadersEnd, HeadersIn, EndOfHeaders
<1>4. Named(h) = {} => q = ParserOf(Parsing!Thrown, x, f, n)
  <2>1. Named(h) = {} => q = [p EXCEPT !.status = Parsing!Thrown]
    BY DEF Parsing!_ParseHeaders, Named
  <2>2. [p EXCEPT !.status = Parsing!Thrown] = ParserOf(Parsing!Thrown, x, f, n)
    BY DEF ParserOf
  <2> QED
    BY <2>1, <2>2
<1>5. Named(h) # {} => q = ParserOf(Parsing!ProcessingContentOfTheField, x, WithField(f, g), g.name)
  <2> DEFINE r == [p EXCEPT !.name = g.name,
                            !.fields = [m \in DOMAIN @ \cup {g.name} |->
                               IF m = g.name THEN [type |-> g.type, content |-> <<>>] ELSE p.fields[m]],
                            !.status = Parsing!ProcessingContentOfTheField]
  <2>1. Named(h) # {} => q = r
    BY DEF Parsing!_ParseHeaders, Named, FieldIn
  <2>2. r = ParserOf(Parsing!ProcessingContentOfTheField, x, WithField(f, g), g.name)
    <3> DEFINE a == [p EXCEPT !.name = g.name]
               w == WithField(f, g)
               b == [a EXCEPT !.fields = w]
    <3> HIDE DEF g
    <3>1. a = ParserOf(Parsing!ProcessingHeaders, x, f, g.name)
      BY DEF ParserOf
    <3>2. b = ParserOf(Parsing!ProcessingHeaders, x, w, g.name)
      <4> HIDE DEF w, a
      <4>1. [ParserOf(Parsing!ProcessingHeaders, x, f, g.name) EXCEPT !.fields = w]
              = ParserOf(Parsing!ProcessingHeaders, x, w, g.name)
        BY DEF ParserOf
      <4> QED
        BY <3>1, <4>1
    <3>3. r = [b EXCEPT !.status = Parsing!ProcessingContentOfTheField]
      BY <1>1 DEF WithField
    <3> HIDE DEF r, b
    <3>4. [ParserOf(Parsing!ProcessingHeaders, x, w, g.name) EXCEPT !.status = Parsing!ProcessingContentOfTheField]
            = ParserOf(Parsing!ProcessingContentOfTheField, x, w, g.name)
      <4> HIDE DEF w
      <4> QED
        BY DEF ParserOf
    <3> QED
      BY <3>2, <3>3, <3>4
  <2> QED
    BY <2>1, <2>2
<1> HIDE DEF q, h, g, p
<1>6. \A s, t, m : /\ ParserOf(s, x, t, m).status = s
                   /\ Parsing!TruncateDataCollector(ParserOf(s, x, t, m), at + 4)
                        = ParserOf(s, Parsing!Drop(x, at + 4), t, m)
  BY DEF ParserOf, Parsing!TruncateDataCollector
<1>7. Parsing!Thrown # Parsing!ProcessingContentOfTheField
  BY DEF Parsing!Thrown, Parsing!ProcessingContentOfTheField
<1>8. Parsing!WaitForHeadersEnd(p) =
        IF at < 0 THEN p ELSE IF Named(h) = {} THEN ParserOf(Parsing!Thrown, x, f, n)
        ELSE ParserOf(Parsing!ProcessingContentOfTheField, Parsing!Drop(x, at + 4), WithField(f, g), g.name)
  BY <1>3, <1>4, <1>5, <1>6, <1>7
<1> QED
  BY <1>2, <1>8 DEF p, h, g

\* ProcessContentOfTheField of the parser.
LEMMA ProcessContent ==
  ASSUME NEW x \in Seq(Symbols), NEW f, NEW n, f[n].content \in Seq(Symbols), NEW at,
         at = Parsing!Position(x, Boundary)
  PROVE  LET k == ToField(x, at)
         IN  Parsing!Process(ParserOf(Parsing!ProcessingContentOfTheField, x, f, n)) =
               ParserOf(IF at >= 0 THEN Parsing!LookingForStartingBoundary
                                   ELSE Parsing!ProcessingContentOfTheField,
                        Left(x, k), Accepted(f, n, Sent(x, k)), n)
<1> DEFINE p == ParserOf(Parsing!ProcessingContentOfTheField, x, f, n)
           k == ToField(x, at)
           c == f[n].content
<1>1. p.status = Parsing!ProcessingContentOfTheField /\ p.data = x /\ p.fields = f /\ p.name = n
  BY DEF ParserOf
<1>2. Parsing!Process(p) = Parsing!ProcessContentOfTheField(p)
  <2> HIDE DEF p
  <2> QED
    BY <1>1, StatusesDiffer DEF Parsing!Process
<1>3. Parsing!ProcessContentOfTheField(p) =
        [p EXCEPT !.fields[n].content = IF k > 0 THEN @ \o Parsing!Take(x, k) ELSE @,
                  !.data = IF k > 0 THEN Parsing!Drop(@, k) ELSE @,
                  !.status = IF at >= 0 THEN Parsing!LookingForStartingBoundary ELSE @]
  BY <1>1 DEF Parsing!ProcessContentOfTheField, Parsing!BoundaryPosition, Parsing!FieldAccept, ToField
<1>4. (IF k > 0 THEN c \o Parsing!Take(x, k) ELSE c) = c \o Sent(x, k)
  <2>1. c \o <<>> = c
    BY ConcatEmptySeq
  <2> HIDE DEF c, k
  <2> QED
    BY <2>1 DEF Sent
<1>5. [f EXCEPT ![n].content = IF k > 0 THEN @ \o Parsing!Take(x, k) ELSE @] = Accepted(f, n, Sent(x, k))
  <2> HIDE DEF k
  <2> QED
    BY <1>4 DEF Accepted
<1>6. [p EXCEPT !.fields[n].content = IF k > 0 THEN @ \o Parsing!Take(x, k) ELSE @,
                !.data = IF k > 0 THEN Parsing!Drop(@, k) ELSE @,
                !.status = IF at >= 0 THEN Parsing!LookingForStartingBoundary ELSE @]
      = ParserOf(IF at >= 0 THEN Parsing!LookingForStartingBoundary ELSE Parsing!ProcessingContentOfTheField,
                 IF k > 0 THEN Parsing!Drop(x, k) ELSE x,
                 [f EXCEPT ![n].content = IF k > 0 THEN @ \o Parsing!Take(x, k) ELSE @], n)
  <2> HIDE DEF k
  <2> DEFINE F == [f EXCEPT ![n].content = IF k > 0 THEN @ \o Parsing!Take(x, k) ELSE @]
             a == [p EXCEPT !.fields[n].content = IF k > 0 THEN @ \o Parsing!Take(x, k) ELSE @]
             b == [a EXCEPT !.data = IF k > 0 THEN Parsing!Drop(x, k) ELSE x]
             c1 == [b EXCEPT !.status = IF at >= 0 THEN Parsing!LookingForStartingBoundary
                                                  ELSE Parsing!ProcessingContentOfTheField]
  <2>1. a = ParserOf(Parsing!ProcessingContentOfTheField, x, F, n)
    <3>1. a = [p EXCEPT !.fields = [p.fields EXCEPT ![n].content = IF k > 0 THEN @ \o Parsing!Take(x, k) ELSE @]]
      OBVIOUS
    <3>2. [p EXCEPT !.fields = F] = ParserOf(Parsing!ProcessingContentOfTheField, x, F, n)
      <4> HIDE DEF F
      <4> QED
        BY DEF ParserOf
    <3> QED
      BY <1>1, <3>1, <3>2
  <2>2. [p EXCEPT !.fields[n].content = IF k > 0 THEN @ \o Parsing!Take(x, k) ELSE @,
                  !.data = IF k > 0 THEN Parsing!Drop(@, k) ELSE @,
                  !.status = IF at >= 0 THEN Parsing!LookingForStartingBoundary ELSE @] = c1
    BY <1>1
  <2> DEFINE d == IF k > 0 THEN Parsing!Drop(x, k) ELSE x
             t == IF at >= 0 THEN Parsing!LookingForStartingBoundary
                             ELSE Parsing!ProcessingContentOfTheField
  <2> HIDE DEF F, a
  <2>3. b = ParserOf(Parsing!ProcessingContentOfTheField, d, F, n)
    <3>1. b = [a EXCEPT !.data = d]
      OBVIOUS
    <3> HIDE DEF d, b
    <3>2. [ParserOf(Parsing!ProcessingContentOfTheField, x, F, n) EXCEPT !.data = d]
            = ParserOf(Parsing!ProcessingContentOfTheField, d, F, n)
      BY DEF ParserOf
    <3> QED
      BY <2>1, <3>1, <3>2
  <2>4. c1 = ParserOf(t, d, F, n)
    <3>1. c1 = [b EXCEPT !.status = t]
      OBVIOUS
    <3> HIDE DEF d, t, b, c1
    <3>2. [ParserOf(Parsing!ProcessingContentOfTheField, d, F, n) EXCEPT !.status = t] = ParserOf(t, d, F, n)
      BY DEF ParserOf
    <3> QED
      BY <2>3, <3>1, <3>2
  <2> QED
    BY <2>2, <2>4 DEF F
<1> QED
  BY <1>2, <1>3, <1>5, <1>6 DEF Left

\* After an exception nothing is done.
LEMMA ProcessThrown ==
  ASSUME NEW x, NEW f, NEW n
  PROVE  Parsing!Process(ParserOf(Parsing!Thrown, x, f, n)) = ParserOf(Parsing!Thrown, x, f, n)
BY DEF ParserOf, Parsing!Process, Parsing!Thrown, Parsing!LookingForStartingBoundary,
       Parsing!ProcessingHeaders, Parsing!ProcessingContentOfTheField

-----------------------------------------------------------------------------
(* The loop of the parser ends.                                            *)

FieldType == [type : {"text", "file"}, content : Seq(Symbols)]

\* The states of a parser: while it reads a field, it has that field.
Valid(s, x, f, n) ==
  /\ s \in Statuses /\ x \in Seq(Symbols)
  /\ s = Parsing!ProcessingContentOfTheField => n \in DOMAIN f /\ f[n] \in FieldType

\* What a round that needs another one diminishes.
Measure(s, x) == 3 * Len(x) + (IF s = Parsing!ProcessingHeaders THEN 2
                               ELSE IF s = Parsing!ProcessingContentOfTheField THEN 1 ELSE 0)

\* The patterns are sequences of symbols.
LEMMA Patterns ==
  /\ Boundary \in Seq(Symbols) /\ Len(Boundary) \in Nat /\ Len(Boundary) > 0
  /\ EndOfHeaders \in Seq(Symbols) /\ Len(EndOfHeaders) = 4
<1>1. Boundary \in Seq(Symbols) /\ Boundary # <<>>
  BY HttpAssumption DEF Parsing!BoundaryAssumption
<1>2. Len(Boundary) \in Nat \ {0}
  BY <1>1, EmptySeq
<1>3. CR \in Symbols /\ LF \in Symbols
  BY HttpAssumption DEF Parsing!BoundaryAssumption
<1>4. EndOfHeaders \in Seq(Symbols) /\ Len(EndOfHeaders) = 4
  BY <1>3 DEF EndOfHeaders
<1> QED
  BY <1>1, <1>2, <1>4

\* The place of a boundary, or of the end of the headers.
LEMMA PlaceType ==
  ASSUME NEW x \in Seq(Symbols), NEW pat \in {Boundary, EndOfHeaders}
  PROVE  \/ Parsing!Position(x, pat) = -1
         \/ Parsing!Position(x, pat) \in Nat /\ Parsing!Position(x, pat) + Len(pat) <= Len(x)
<1> DEFINE p == Parsing!Position(x, pat)
<1>1. pat \in Seq(Symbols)
  BY Patterns
<1>2. \/ p = -1 /\ \A i \in Nat : ~Occurs(x, pat, i)
      \/ p \in Nat /\ Occurs(x, pat, p) /\ \A i \in Nat : Occurs(x, pat, i) => p <= i
  BY <1>1, PositionFirst
<1> HIDE DEF p
<1>3. p = -1 \/ (p \in Nat /\ p + Len(pat) <= Len(x))
  BY <1>2 DEF Occurs
<1> QED
  BY <1>3 DEF p

\* What the parser takes from x for the field, and what it leaves.
LEMMA SentLeft ==
  ASSUME NEW x \in Seq(Symbols), NEW at, at = Parsing!Position(x, Boundary)
  PROVE  LET k == ToField(x, at)
         IN  /\ at \in Int /\ k \in Int /\ k <= Len(x)
             /\ Sent(x, k) \in Seq(Symbols) /\ Left(x, k) \in Seq(Symbols)
             /\ Len(Left(x, k)) <= Len(x)
<1> DEFINE k == ToField(x, at)
<1>1. Len(x) \in Nat /\ Len(Boundary) \in Nat
  BY Patterns
<1>2. at = -1 \/ (at \in Nat /\ at + Len(Boundary) <= Len(x))
  BY PlaceType
<1>3. at \in Int /\ k \in Int /\ k <= Len(x)
  BY <1>1, <1>2 DEF ToField
<1> HIDE DEF k
<1>4. CASE k > 0
  <2>1. k \in 0 .. Len(x)
    BY <1>1, <1>3, <1>4
  <2>2. Parsing!Take(x, k) \in Seq(Symbols)
    BY <2>1, TakeIs
  <2>3. Parsing!Drop(x, k) \in Seq(Symbols) /\ Len(Parsing!Drop(x, k)) = Len(x) - k
    BY <2>1, DropIs
  <2>4. Len(x) - k <= Len(x)
    BY <1>1, <2>1
  <2> QED
    BY <1>3, <1>4, <2>2, <2>3, <2>4 DEF Sent, Left, k
<1>5. CASE ~(k > 0)
  <2>1. <<>> \in Seq(Symbols)
    BY EmptySeq
  <2> QED
    BY <1>1, <1>3, <1>5, <2>1 DEF Sent, Left, k
<1> QED
  BY <1>4, <1>5

\* The fields after a piece of content.
LEMMA AcceptedIs ==
  ASSUME NEW f, NEW n \in DOMAIN f, f[n] \in FieldType, NEW a \in Seq(Symbols)
  PROVE  /\ DOMAIN Accepted(f, n, a) = DOMAIN f
         /\ Accepted(f, n, a)[n] = [type |-> f[n].type, content |-> f[n].content \o a]
         /\ Accepted(f, n, a)[n] \in FieldType
         /\ \A m \in DOMAIN f : m # n => Accepted(f, n, a)[m] = f[m]
<1>1. f[n].content \in Seq(Symbols) /\ f[n].type \in {"text", "file"}
  BY DEF FieldType
<1>2. f[n].content \o a \in Seq(Symbols)
  BY <1>1, ConcatProperties
<1>3. DOMAIN Accepted(f, n, a) = DOMAIN f /\ \A m \in DOMAIN f : m # n => Accepted(f, n, a)[m] = f[m]
  BY DEF Accepted
<1>4. Accepted(f, n, a)[n] = [f[n] EXCEPT !.content = @ \o a]
  BY DEF Accepted
<1>5. [f[n] EXCEPT !.content = @ \o a] = [type |-> f[n].type, content |-> f[n].content \o a]
  <2> DEFINE r == f[n]
             v == f[n].content \o a
  <2>1. r \in [type : {"text", "file"}, content : Seq(Symbols)]
    BY DEF FieldType
  <2> HIDE DEF r, v
  <2>2. [r EXCEPT !.content = v] = [type |-> r.type, content |-> v]
    BY <2>1
  <2> QED
    BY <2>2 DEF r, v
<1>6. [type |-> f[n].type, content |-> f[n].content \o a] \in FieldType
  BY <1>1, <1>2 DEF FieldType
<1> QED
  BY <1>3, <1>4, <1>5, <1>6

\* Content in two pieces.
LEMMA AcceptedTwice ==
  ASSUME NEW f, NEW n \in DOMAIN f, f[n] \in FieldType, NEW a \in Seq(Symbols), NEW b \in Seq(Symbols)
  PROVE  Accepted(Accepted(f, n, a), n, b) = Accepted(f, n, a \o b)
<1> DEFINE g == Accepted(f, n, a)
           c == a \o b
           h == Accepted(g, n, b)
           e == Accepted(f, n, c)
<1>1. /\ DOMAIN g = DOMAIN f /\ g[n] = [type |-> f[n].type, content |-> f[n].content \o a]
      /\ g[n] \in FieldType /\ \A m \in DOMAIN f : m # n => g[m] = f[m]
  BY AcceptedIs
<1>2. c \in Seq(Symbols)
  BY ConcatProperties
<1>3. (f[n].content \o a) \o b = f[n].content \o c
  <2> DEFINE u == f[n].content
  <2>1. u \in Seq(Symbols)
    BY DEF FieldType
  <2> HIDE DEF u
  <2>2. (u \o a) \o b = u \o (a \o b)
    BY <2>1, ConcatAssociative
  <2> QED
    BY <2>2 DEF u
<1> HIDE DEF g, c
<1>4. /\ DOMAIN h = DOMAIN f /\ h[n] = [type |-> g[n].type, content |-> g[n].content \o b]
      /\ \A m \in DOMAIN f : m # n => h[m] = f[m]
  <2>1. n \in DOMAIN g /\ g[n] \in FieldType
    BY <1>1
  <2>2. /\ DOMAIN h = DOMAIN g /\ h[n] = [type |-> g[n].type, content |-> g[n].content \o b]
        /\ \A m \in DOMAIN g : m # n => h[m] = g[m]
    BY <2>1, AcceptedIs
  <2> HIDE DEF h
  <2> QED
    BY <1>1, <2>2
<1>5. /\ DOMAIN e = DOMAIN f /\ e[n] = [type |-> f[n].type, content |-> f[n].content \o c]
      /\ \A m \in DOMAIN f : m # n => e[m] = f[m]
  BY <1>2, AcceptedIs
<1>6. h[n] = e[n]
  <2>1. g[n].type = f[n].type /\ g[n].content = f[n].content \o a
    BY <1>1
  <2> HIDE DEF h, e
  <2> QED
    BY <1>3, <1>4, <1>5, <2>1
<1>7. h = [m \in DOMAIN h |-> h[m]] /\ e = [m \in DOMAIN e |-> e[m]]
  <2>1. \A y, v : Accepted(y, n, v) = [m \in DOMAIN Accepted(y, n, v) |-> Accepted(y, n, v)[m]]
    BY DEF Accepted
  <2> QED
    BY <2>1, Zenon
<1> HIDE DEF h, e
<1>8. \A m \in DOMAIN f : h[m] = e[m]
  BY <1>4, <1>5, <1>6
<1> QED
  BY <1>4, <1>5, <1>7, <1>8 DEF g, c, h, e

\* The headers are symbols, and the field they name is one of FieldOf.
LEMMA HeadersType ==
  ASSUME NEW x \in Seq(Symbols), Parsing!Position(x, EndOfHeaders) >= 0
  PROVE  /\ HeadersIn(x) \in Seq(Symbols)
         /\ Named(HeadersIn(x)) # {} => FieldIn(HeadersIn(x)).type \in {"text", "file"}
<1> DEFINE at == Parsing!Position(x, EndOfHeaders)
           t == Parsing!Take(x, at)
           z == Parsing!Position(t, <<NUL>>)
           h == HeadersIn(x)
<1>1. at \in 0 .. Len(x)
  <2>1. at = -1 \/ (at \in Nat /\ at + 4 <= Len(x))
    BY PlaceType, Patterns
  <2> HIDE DEF at
  <2>2. Len(x) \in Nat
    OBVIOUS
  <2> QED
    BY <2>1, <2>2 DEF at
<1>2. t \in Seq(Symbols)
  BY <1>1, TakeIs
<1>3. h = IF z < 0 THEN t ELSE Parsing!Take(t, z)
  BY DEF HeadersIn, Parsing!CString
<1> HIDE DEF t
<1>4. <<NUL>> \in Seq(Symbols) /\ Len(<<NUL>>) = 1
  BY HttpAssumption DEF Parsing!BoundaryAssumption
<1>5. z = -1 \/ (z \in Nat /\ z <= Len(t))
  <2> DEFINE u == <<NUL>>
  <2>1. \/ z = -1 /\ \A i \in Nat : ~Occurs(t, u, i)
        \/ z \in Nat /\ Occurs(t, u, z) /\ \A i \in Nat : Occurs(t, u, i) => z <= i
    BY <1>2, <1>4, PositionFirst
  <2>2. Len(t) \in Nat
    BY <1>2
  <2> HIDE DEF z
  <2> QED
    BY <1>4, <2>1, <2>2 DEF Occurs
<1> HIDE DEF z
<1>6. h \in Seq(Symbols)
  <2>1. CASE z < 0
    BY <1>2, <1>3, <2>1
  <2>2. CASE ~(z < 0)
    <3>1. z \in 0 .. Len(t)
      BY <1>5, <2>2
    <3> QED
      BY <1>2, <1>3, <2>2, <3>1, TakeIs
  <2> QED
    BY <2>1, <2>2
<1> HIDE DEF h
<1>7. ASSUME Named(h) # {} PROVE FieldIn(h).type \in {"text", "file"}
  <2> DEFINE N == Named(h)
             i == CHOOSE j \in N : \A m \in N : j <= m
  <2>1. N \in SUBSET Nat
    BY <1>6 DEF Named
  <2>2. \E j \in N : \A m \in N : j <= m
    BY <1>7, <2>1, NatMin
  <2>3. i \in N
    BY <2>2
  <2>4. h[i] \in DOMAIN FieldOf
    BY <2>3 DEF Named
  <2>5. FieldIn(h) = FieldOf[h[i]]
    BY DEF FieldIn
  <2> HIDE DEF i
  <2> QED
    BY <2>4, <2>5, HttpAssumption DEF Parsing!BoundaryAssumption
<1> QED
  BY <1>6, <1>7 DEF h

\* A round leads from a valid state to a valid one, and diminishes the measure
\* if another round is needed.
LEMMA ProcessValid ==
  ASSUME NEW s, NEW x, NEW f, NEW n, Valid(s, x, f, n)
  PROVE  \E t, y, g, m :
           /\ Valid(t, y, g, m)
           /\ Parsing!Process(ParserOf(s, x, f, n)) = ParserOf(t, y, g, m)
           /\ t # s => Measure(t, y) < Measure(s, x)
<1> DEFINE p == ParserOf(s, x, f, n)
           at == Parsing!Position(x, Boundary)
           eh == Parsing!Position(x, EndOfHeaders)
<1>1. x \in Seq(Symbols) /\ Len(x) \in Nat /\ s \in Statuses
  BY DEF Valid
<1>2. at = -1 \/ (at \in Nat /\ at + Len(Boundary) <= Len(x))
  BY <1>1, PlaceType
<1>3. eh = -1 \/ (eh \in Nat /\ eh + 4 <= Len(x))
  BY <1>1, PlaceType, Patterns
<1>4. Parsing!Process(p) = p => Valid(s, x, f, n) /\ Parsing!Process(p) = ParserOf(s, x, f, n)
  OBVIOUS
<1>5. CASE Parsing!Process(p) = p
  BY <1>4, <1>5
<1>6. CASE s = Parsing!LookingForStartingBoundary /\ ~(at < 0)
  <2> DEFINE k == at + Len(Boundary)
             y == Parsing!Drop(x, k)
  <2>1. Parsing!Process(p) = ParserOf(Parsing!ProcessingHeaders, y, f, n)
    BY <1>6, ProcessLooking
  <2>2. k \in 0 .. Len(x) /\ k > 0
    <3> HIDE DEF at
    <3> QED
      BY <1>1, <1>2, <1>6, Patterns
  <2> HIDE DEF k
  <2>3. y \in Seq(Symbols) /\ Len(y) = Len(x) - k
    BY <1>1, <2>2, DropIs
  <2> HIDE DEF y
  <2>4. Valid(Parsing!ProcessingHeaders, y, f, n)
    BY <2>3, StatusesDiffer DEF Valid, Statuses
  <2>5. Measure(Parsing!ProcessingHeaders, y) < Measure(s, x)
    <3>1. Measure(Parsing!ProcessingHeaders, y) = 3 * Len(y) + 2 /\ Measure(s, x) = 3 * Len(x) + 0
      BY <1>6, StatusesDiffer DEF Measure
    <3> QED
      BY <1>1, <2>2, <2>3, <3>1
  <2> QED
    BY <2>1, <2>4, <2>5
<1>7. CASE s = Parsing!ProcessingHeaders /\ ~(eh < 0) /\ Named(HeadersIn(x)) = {}
  <2>1. Parsing!Process(p) = ParserOf(Parsing!Thrown, x, f, n)
    BY <1>7, ProcessHeaders
  <2>2. Valid(Parsing!Thrown, x, f, n)
    BY <1>1, StatusesDiffer DEF Valid, Statuses
  <2>3. Measure(Parsing!Thrown, x) = 3 * Len(x) + 0 /\ Measure(s, x) = 3 * Len(x) + 2
    BY <1>7, StatusesDiffer DEF Measure
  <2>4. Measure(Parsing!Thrown, x) < Measure(s, x)
    BY <1>1, <2>3
  <2> QED
    BY <2>1, <2>2, <2>4
<1>8. CASE s = Parsing!ProcessingHeaders /\ ~(eh < 0) /\ Named(HeadersIn(x)) # {}
  <2> DEFINE F == FieldIn(HeadersIn(x))
             y == Parsing!Drop(x, eh + 4)
             g == WithField(f, F)
  <2>1. Parsing!Process(p) = ParserOf(Parsing!ProcessingContentOfTheField, y, g, F.name)
    BY <1>8, ProcessHeaders
  <2>2. F.type \in {"text", "file"}
    <3>1. eh >= 0
      <4> HIDE DEF eh
      <4> QED
        BY <1>3, <1>8
    <3> QED
      BY <1>1, <1>8, <3>1, HeadersType
  <2> HIDE DEF F
  <2>3. F.name \in DOMAIN g /\ g[F.name] = [type |-> F.type, content |-> <<>>]
    BY DEF WithField
  <2>4. g[F.name] \in FieldType
    <3>1. <<>> \in Seq(Symbols)
      BY EmptySeq
    <3> HIDE DEF g
    <3> QED
      BY <2>2, <2>3, <3>1 DEF FieldType
  <2>5. eh + 4 \in 0 .. Len(x) /\ eh + 4 > 0
    <3> HIDE DEF eh
    <3> QED
      BY <1>1, <1>3, <1>8
  <2>6. y \in Seq(Symbols) /\ Len(y) = Len(x) - (eh + 4)
    BY <1>1, <2>5, DropIs
  <2> HIDE DEF y, g
  <2>7. Valid(Parsing!ProcessingContentOfTheField, y, g, F.name)
    BY <2>3, <2>4, <2>6 DEF Valid, Statuses
  <2>8. Measure(Parsing!ProcessingContentOfTheField, y) < Measure(s, x)
    <3>1. Measure(Parsing!ProcessingContentOfTheField, y) = 3 * Len(y) + 1 /\ Measure(s, x) = 3 * Len(x) + 2
      BY <1>8, StatusesDiffer DEF Measure
    <3> HIDE DEF eh
    <3>2. eh \in Int /\ Len(y) <= Len(x) /\ Len(y) \in Int
      BY <1>1, <1>3, <2>5, <2>6
    <3> QED
      BY <1>1, <3>1, <3>2
  <2> QED
    BY <2>1, <2>7, <2>8
<1>9. CASE s = Parsing!ProcessingContentOfTheField
  <2> DEFINE k == ToField(x, at)
             t == IF at >= 0 THEN Parsing!LookingForStartingBoundary
                             ELSE Parsing!ProcessingContentOfTheField
             y == Left(x, k)
             a == Sent(x, k)
             g == Accepted(f, n, a)
  <2>1. n \in DOMAIN f /\ f[n] \in FieldType /\ f[n].content \in Seq(Symbols)
    BY <1>9 DEF Valid, FieldType
  <2>2. Parsing!Process(p) = ParserOf(t, y, g, n)
    BY <1>1, <1>9, <2>1, ProcessContent
  <2>3. a \in Seq(Symbols) /\ y \in Seq(Symbols) /\ Len(y) <= Len(x)
    BY <1>1, SentLeft
  <2> HIDE DEF a, y
  <2>4. n \in DOMAIN g /\ g[n] \in FieldType
    BY <2>1, <2>3, AcceptedIs
  <2>5. t \in Statuses
    BY DEF Statuses
  <2>6. t = Parsing!LookingForStartingBoundary \/ t = s
    BY <1>9
  <2> HIDE DEF g, t
  <2>7. Valid(t, y, g, n)
    BY <2>3, <2>4, <2>5 DEF Valid
  <2>8. t # s => Measure(t, y) < Measure(s, x)
    <3> SUFFICES ASSUME t # s PROVE Measure(t, y) < Measure(s, x)
      OBVIOUS
    <3>1. Measure(t, y) = 3 * Len(y) + 0 /\ Measure(s, x) = 3 * Len(x) + 1
      BY <1>9, <2>6, StatusesDiffer DEF Measure
    <3>2. Len(y) \in Nat
      BY <2>3
    <3> QED
      BY <1>1, <2>3, <3>1, <3>2
  <2> QED
    BY <2>2, <2>7, <2>8
<1>10. s = Parsing!LookingForStartingBoundary /\ at < 0 => Parsing!Process(p) = p
  BY ProcessLooking
<1>11. s = Parsing!ProcessingHeaders /\ eh < 0 => Parsing!Process(p) = p
  BY ProcessHeaders
<1>12. s = Parsing!Thrown => Parsing!Process(p) = p
  BY ProcessThrown
<1> QED
  BY <1>1, <1>5, <1>6, <1>7, <1>8, <1>9, <1>10, <1>11, <1>12 DEF Statuses

\* g is the loop from the state a on, for N rounds.
Loop(g, N, a) == g = [i \in 0 .. N |-> IF i = 0 THEN a ELSE Parsing!Round(g[i - 1])]
Start(p) == [parser |-> p, NeedToRepeat |-> TRUE]

\* The fields of a state of the loop.
LEMMA StateFields ==
  ASSUME NEW q, NEW b
  PROVE  [parser |-> q, NeedToRepeat |-> b].parser = q /\ [parser |-> q, NeedToRepeat |-> b].NeedToRepeat = b
OBVIOUS

\* The loop as a sequence of rounds.
LEMMA LoopIs ==
  ASSUME NEW N \in Nat, NEW a, NEW g, Loop(g, N, a)
  PROVE  /\ DOMAIN g = 0 .. N /\ g[0] = a
         /\ \A i \in 1 .. N : g[i] = Parsing!Round(g[i - 1])
<1> DEFINE R(i) == IF i = 0 THEN a ELSE Parsing!Round(g[i - 1])
<1>1. g = [i \in 0 .. N |-> R(i)]
  BY DEF Loop
<1> HIDE DEF R
<1>2. DOMAIN g = 0 .. N /\ \A i \in 0 .. N : g[i] = R(i)
  BY <1>1
<1>3. 0 \in 0 .. N /\ R(0) = a
  BY DEF R
<1>4. \A i \in 1 .. N : i \in 0 .. N /\ R(i) = Parsing!Round(g[i - 1])
  BY DEF R
<1> QED
  BY <1>2, <1>3, <1>4

\* There is such a sequence.
LEMMA LoopExists ==
  ASSUME NEW N \in Nat, NEW a
  PROVE  \E g : Loop(g, N, a)
<1> DEFINE S == {i \in 0 .. N : \E g : Loop(g, i, a)}
<1>1. 0 \in S
  <2> DEFINE g == [j \in 0 .. 0 |-> a]
  <2>1. g = [j \in 0 .. 0 |-> IF j = 0 THEN a ELSE Parsing!Round(g[j - 1])]
    OBVIOUS
  <2> HIDE DEF g
  <2> QED
    BY <2>1 DEF Loop
<1>2. ASSUME NEW i \in 1 .. N, i - 1 \in S PROVE i \in S
  <2>1. PICK g : Loop(g, i - 1, a)
    BY <1>2
  <2>2. i - 1 \in Nat
    OBVIOUS
  <2>3. /\ g[0] = a
        /\ \A j \in 1 .. i - 1 : g[j] = Parsing!Round(g[j - 1])
    BY <2>1, <2>2, LoopIs
  <2> DEFINE h == [j \in 0 .. i |-> IF j = i THEN Parsing!Round(g[i - 1]) ELSE g[j]]
             k == [j \in 0 .. i |-> IF j = 0 THEN a ELSE Parsing!Round(h[j - 1])]
  <2>4. ASSUME NEW j \in 0 .. i PROVE h[j] = k[j]
    <3>1. CASE j = 0
      BY <2>3, <3>1
    <3>2. CASE j # 0
      <4>1. j - 1 \in 0 .. i /\ j - 1 # i /\ h[j - 1] = g[j - 1]
        BY <3>2
      <4>2. k[j] = Parsing!Round(g[j - 1])
        BY <3>2, <4>1
      <4>3. CASE j = i
        BY <4>2, <4>3
      <4>4. CASE j # i
        <5>1. j \in 1 .. i - 1 /\ h[j] = g[j]
          BY <3>2, <4>4
        <5> QED
          BY <2>3, <4>2, <5>1
      <4> QED
        BY <4>3, <4>4
    <3> QED
      BY <3>1, <3>2
  <2>5. h = k
    <3>1. h = [j \in 0 .. i |-> h[j]] /\ k = [j \in 0 .. i |-> k[j]]
      OBVIOUS
    <3> HIDE DEF h, k
    <3> QED
      BY <2>4, <3>1
  <2>6. Loop(h, i, a)
    BY <2>5 DEF Loop
  <2> HIDE DEF h
  <2> QED
    BY <2>6
<1> HIDE DEF S
<1>3. \A i \in 0 .. N : i \in S
  BY <1>1, <1>2, InductionTo
<1>4. N \in S
  BY <1>3
<1> QED
  BY <1>4 DEF S

\* _ProcessData is what the loop ends with.
LEMMA RunIs ==
  ASSUME NEW p, NEW N \in Nat, N = Parsing!Rounds(p)
  PROVE  \E g : Loop(g, N, Start(p)) /\ Parsing!_ProcessData(p) = g[N].parser
<1> DEFINE a == [parser |-> p, NeedToRepeat |-> TRUE]
           C == CHOOSE g : g = [i \in 0 .. N |-> IF i = 0 THEN a ELSE Parsing!Round(g[i - 1])]
<1>1. Parsing!_ProcessData(p) = C[N].parser
  BY DEF Parsing!_ProcessData
<1>2. C = CHOOSE g : Loop(g, N, a)
  BY DEF Loop
<1>3. \E g : Loop(g, N, a)
  BY LoopExists
<1> HIDE DEF C
<1>4. Loop(C, N, a)
  BY <1>2, <1>3
<1> QED
  BY <1>1, <1>4 DEF Start

\* A loop that has stopped does not go on.
LEMMA LoopStops ==
  ASSUME NEW N \in Nat, NEW a, NEW g, Loop(g, N, a), NEW i \in 0 .. N, ~g[i].NeedToRepeat
  PROVE  g[N] = g[i]
<1> DEFINE S == {j \in Nat : i + j <= N => g[i + j] = g[i]}
<1>1. \A j \in 1 .. N : g[j] = Parsing!Round(g[j - 1])
  BY LoopIs
<1>2. 0 \in S
  BY i + 0 = i
<1>3. ASSUME NEW j \in 1 .. N - i, j - 1 \in S PROVE j \in S
  <2>1. i + j \in 1 .. N /\ i + j - 1 = i + (j - 1) /\ j - 1 \in Nat /\ i + (j - 1) <= N
    OBVIOUS
  <2>2. g[i + j - 1] = g[i]
    BY <1>3, <2>1
  <2>3. g[i + j] = Parsing!Round(g[i])
    BY <1>1, <2>1, <2>2
  <2>4. g[i + j] = g[i]
    BY <2>3 DEF Parsing!Round
  <2> QED
    BY <2>4
<1> HIDE DEF S
<1>4. N - i \in Nat
  OBVIOUS
<1>5. \A j \in 0 .. N - i : j \in S
  BY <1>2, <1>3, <1>4, InductionTo
<1>6. N - i \in S
  BY <1>4, <1>5
<1> QED
  BY <1>4, <1>6 DEF S

\* While the loop goes on, the measure grows smaller.
LEMMA LoopMeasure ==
  ASSUME NEW s, NEW x, NEW f, NEW n, Valid(s, x, f, n),
         NEW N \in Nat, NEW g, Loop(g, N, Start(ParserOf(s, x, f, n))), NEW i \in 0 .. N
  PROVE  i > Measure(s, x) => ~g[i].NeedToRepeat
<1> DEFINE M == Measure(s, x)
           S == {j \in 0 .. N : g[j].NeedToRepeat =>
                   \E t, y, h, m : /\ Valid(t, y, h, m) /\ g[j].parser = ParserOf(t, y, h, m)
                                   /\ Measure(t, y) + j <= M}
<1>1. \A t, y, h, m : Valid(t, y, h, m) => Measure(t, y) \in Nat
  BY DEF Valid, Measure
<1>2. M \in Nat
  BY <1>1
<1> HIDE DEF M
<1>3. /\ g[0] = Start(ParserOf(s, x, f, n))
      /\ \A j \in 1 .. N : g[j] = Parsing!Round(g[j - 1])
  BY LoopIs
<1>4. 0 \in S
  <2>1. g[0].parser = ParserOf(s, x, f, n)
    BY <1>3 DEF Start
  <2>2. M + 0 <= M
    BY <1>2
  <2> QED
    BY <2>1, <2>2 DEF M
<1>5. ASSUME NEW j \in 1 .. N, j - 1 \in S PROVE j \in S
  <2> SUFFICES ASSUME g[j].NeedToRepeat
               PROVE  \E t, y, h, m : /\ Valid(t, y, h, m) /\ g[j].parser = ParserOf(t, y, h, m)
                                      /\ Measure(t, y) + j <= M
    OBVIOUS
  <2> DEFINE r == g[j - 1]
             q == Parsing!Process(r.parser)
  <2>1. g[j] = Parsing!Round(r)
    BY <1>3
  <2>2. r.NeedToRepeat
    BY <2>1 DEF Parsing!Round
  <2>3. g[j] = [parser |-> q, NeedToRepeat |-> q.status # r.parser.status]
    BY <2>1, <2>2 DEF Parsing!Round
  <2>4. g[j].parser = q /\ q.status # r.parser.status
    <3> DEFINE b == q.status # r.parser.status
    <3>1. g[j].NeedToRepeat = b /\ g[j].parser = q
      <4> HIDE DEF b, q
      <4>1. g[j] = [parser |-> q, NeedToRepeat |-> b]
        BY <2>3 DEF b
      <4> QED
        BY <4>1, StateFields
    <3> HIDE DEF q, r
    <3> QED
      BY <3>1
  <2>5. PICK t, y, h, m : /\ Valid(t, y, h, m) /\ r.parser = ParserOf(t, y, h, m)
                          /\ Measure(t, y) + (j - 1) <= M
    BY <1>5, <2>2
  <2> HIDE DEF q, r
  <2>6. PICK v, y1, h1, m1 : /\ Valid(v, y1, h1, m1)
                             /\ Parsing!Process(ParserOf(t, y, h, m)) = ParserOf(v, y1, h1, m1)
                             /\ v # t => Measure(v, y1) < Measure(t, y)
    BY <2>5, ProcessValid
  <2>7. q = ParserOf(v, y1, h1, m1) /\ v # t
    <3>1. q = ParserOf(v, y1, h1, m1)
      BY <2>5, <2>6 DEF q
    <3>2. q.status = v /\ r.parser.status = t
      BY <2>5, <3>1, ParserStatus
    <3> QED
      BY <2>4, <3>1, <3>2
  <2>8. Measure(v, y1) + j <= M
    <3>1. Measure(v, y1) \in Nat /\ Measure(t, y) \in Nat /\ Measure(v, y1) < Measure(t, y)
      BY <1>1, <2>5, <2>6, <2>7
    <3> QED
      BY <1>2, <2>5, <3>1
  <2> QED
    BY <2>4, <2>6, <2>7, <2>8
<1> HIDE DEF S
<1>6. \A j \in 0 .. N : j \in S
  BY <1>4, <1>5, InductionTo
<1>7. ASSUME i > M, g[i].NeedToRepeat PROVE FALSE
  <2>1. PICK t, y, h, m : Valid(t, y, h, m) /\ Measure(t, y) + i <= M
    BY <1>6, <1>7 DEF S
  <2> QED
    BY <1>1, <1>2, <1>7, <2>1
<1> QED
  BY <1>7 DEF M

\* There are rounds enough.
LEMMA RoundsSuffice ==
  ASSUME NEW s, NEW x, NEW f, NEW n, Valid(s, x, f, n)
  PROVE  /\ Parsing!Rounds(ParserOf(s, x, f, n)) \in Nat /\ Measure(s, x) \in Nat
         /\ Measure(s, x) + 1 <= Parsing!Rounds(ParserOf(s, x, f, n))
<1>1. Len(x) \in Nat
  BY DEF Valid
<1>2. Parsing!Rounds(ParserOf(s, x, f, n)) = 3 * Len(x) + 3
  BY ParserStatus DEF Parsing!Rounds
<1> QED
  BY <1>1, <1>2 DEF Measure

\* _ProcessData does one round, and then the others if they are needed.
LEMMA RunStep ==
  ASSUME NEW s, NEW x, NEW f, NEW n, Valid(s, x, f, n),
         NEW t, NEW y, NEW g, NEW m, Valid(t, y, g, m),
         Parsing!Process(ParserOf(s, x, f, n)) = ParserOf(t, y, g, m),
         t # s => Measure(t, y) < Measure(s, x)
  PROVE  Parsing!_ProcessData(ParserOf(s, x, f, n)) =
           IF t = s THEN ParserOf(t, y, g, m) ELSE Parsing!_ProcessData(ParserOf(t, y, g, m))
<1> DEFINE p == ParserOf(s, x, f, n)
           q == ParserOf(t, y, g, m)
           N == Parsing!Rounds(p)
           K == Parsing!Rounds(q)
           M == Measure(s, x)
           L == Measure(t, y)
           b == t # s
<1>1. N \in Nat /\ M \in Nat /\ M + 1 <= N /\ K \in Nat /\ L \in Nat /\ L + 1 <= K
  BY RoundsSuffice
<1>2. PICK u : Loop(u, N, Start(p)) /\ Parsing!_ProcessData(p) = u[N].parser
  BY <1>1, RunIs
<1>3. PICK w : Loop(w, K, Start(q)) /\ Parsing!_ProcessData(q) = w[K].parser
  BY <1>1, RunIs
<1>4. u[0] = Start(p) /\ \A i \in 1 .. N : u[i] = Parsing!Round(u[i - 1])
  BY <1>1, <1>2, LoopIs
<1>5. w[0] = Start(q) /\ \A i \in 1 .. K : w[i] = Parsing!Round(w[i - 1])
  BY <1>1, <1>3, LoopIs
<1>6. ASSUME NEW i \in 0 .. N, i > M PROVE ~u[i].NeedToRepeat
  BY <1>1, <1>2, <1>6, LoopMeasure
<1>7. ASSUME NEW i \in 0 .. K, i > L PROVE ~w[i].NeedToRepeat
  BY <1>1, <1>3, <1>7, LoopMeasure
<1>8. p.status = s /\ q.status = t /\ Parsing!Process(p) = q
  BY ParserStatus
<1> HIDE DEF p, q
<1>9. u[1] = [parser |-> q, NeedToRepeat |-> b]
  <2>1. u[1] = Parsing!Round(u[0])
    <3>1. 1 \in 1 .. N /\ 1 - 1 = 0
      BY <1>1
    <3> HIDE DEF N
    <3> QED
      BY <1>4, <3>1
  <2>2. u[0].NeedToRepeat = TRUE /\ u[0].parser = p
    BY <1>4, StateFields DEF Start
  <2>3. Parsing!Round(u[0]) = [parser |-> q, NeedToRepeat |-> q.status # p.status]
    BY <1>8, <2>2 DEF Parsing!Round
  <2> QED
    BY <1>8, <2>1, <2>3
<1> HIDE DEF N, K, M, L, b
<1>10. u[1].parser = q /\ u[1].NeedToRepeat = b
  BY <1>9, StateFields
<1>11. CASE t = s
  <2>1. ~u[1].NeedToRepeat
    BY <1>10, <1>11 DEF b
  <2>2. u[N] = u[1]
    <3>1. 1 \in 0 .. N
      BY <1>1
    <3> QED
      BY <1>1, <1>2, <2>1, <3>1, LoopStops
  <2> QED
    BY <1>2, <1>10, <1>11, <2>2 DEF p, q
<1>12. CASE t # s
  <2>1. L < M
    BY <1>12 DEF L, M
  <2>2. u[1] = Start(q)
    BY <1>9, <1>12 DEF Start, b
  <2> DEFINE S == {i \in Nat : w[i] = u[i + 1]}
  <2>3. 0 \in S
    BY <1>5, <2>2
  <2>4. ASSUME NEW i \in 1 .. L + 1, i - 1 \in S PROVE i \in S
    <3>1. i \in 1 .. K /\ i + 1 \in 1 .. N /\ i + 1 - 1 = i /\ i - 1 + 1 = i
      BY <1>1, <2>1
    <3>2. w[i] = Parsing!Round(w[i - 1]) /\ u[i + 1] = Parsing!Round(u[i])
      BY <1>4, <1>5, <3>1
    <3>3. w[i - 1] = u[i]
      BY <2>4, <3>1
    <3> QED
      BY <3>2, <3>3
  <2> HIDE DEF S
  <2>5. \A i \in 0 .. L + 1 : i \in S
    <3>1. L + 1 \in Nat
      BY <1>1
    <3> QED
      BY <2>3, <2>4, <3>1, InductionTo
  <2>6. w[L + 1] = u[L + 2]
    <3>1. L + 1 \in 0 .. L + 1 /\ L + 1 + 1 = L + 2
      BY <1>1
    <3>2. L + 1 \in S
      BY <2>5, <3>1
    <3> QED
      BY <3>1, <3>2 DEF S
  <2>7. L + 1 \in 0 .. K /\ L + 1 > L /\ L + 2 \in 0 .. N
    BY <1>1, <2>1
  <2>8. ~w[L + 1].NeedToRepeat
    BY <1>7, <2>7
  <2>9. w[K] = w[L + 1]
    BY <1>1, <1>3, <2>7, <2>8, LoopStops
  <2>10. u[N] = u[L + 2]
    BY <1>1, <1>2, <2>6, <2>7, <2>8, LoopStops
  <2> QED
    BY <1>2, <1>3, <1>12, <2>6, <2>9, <2>10 DEF p, q
<1> QED
  BY <1>11, <1>12

\* A round that needs another one does not look at what comes later.
LEMMA StepConcat ==
  ASSUME NEW s, NEW x, NEW f, NEW n, Valid(s, x, f, n), NEW d \in Seq(Symbols),
         NEW t, NEW y, NEW g, NEW m, t # s,
         Parsing!Process(ParserOf(s, x, f, n)) = ParserOf(t, y, g, m)
  PROVE  Parsing!Process(ParserOf(s, x \o d, f, n)) = ParserOf(t, y \o d, g, m)
<1> DEFINE p == ParserOf(s, x, f, n)
           z == x \o d
           at == Parsing!Position(x, Boundary)
           eh == Parsing!Position(x, EndOfHeaders)
<1>1. x \in Seq(Symbols) /\ Len(x) \in Nat /\ s \in Statuses
  BY DEF Valid
<1>2. at = -1 \/ (at \in Nat /\ at + Len(Boundary) <= Len(x))
  BY <1>1, PlaceType
<1>3. eh = -1 \/ (eh \in Nat /\ eh + 4 <= Len(x))
  BY <1>1, PlaceType, Patterns
<1>4. at >= 0 => Parsing!Position(z, Boundary) = at
  BY <1>1, Patterns, PositionConcat
<1>5. eh >= 0 => Parsing!Position(z, EndOfHeaders) = eh
  BY <1>1, Patterns, PositionConcat
<1>6. Parsing!Process(p) # p
  BY ParserStatus
<1>7. ASSUME NEW v1, NEW y1, NEW g1, NEW m1, Parsing!Process(p) = ParserOf(v1, y1, g1, m1)
      PROVE  v1 = t /\ y1 = y /\ g1 = g /\ m1 = m
  <2>1. ParserOf(v1, y1, g1, m1) = ParserOf(t, y, g, m)
    BY <1>7
  <2> QED
    BY <2>1, ParserStatus
<1>8. z \in Seq(Symbols)
  BY <1>1, ConcatProperties
<1>9. CASE s = Parsing!LookingForStartingBoundary
  <2>1. ~(at < 0)
    BY <1>6, <1>9, ProcessLooking
  <2> DEFINE k == at + Len(Boundary)
             e == Parsing!Drop(x, k)
  <2>2. Parsing!Process(p) = ParserOf(Parsing!ProcessingHeaders, e, f, n)
    BY <1>9, <2>1, ProcessLooking
  <2>3. t = Parsing!ProcessingHeaders /\ y = e /\ g = f /\ m = n
    BY <1>7, <2>2
  <2>4. Parsing!Position(z, Boundary) = at /\ k \in 0 .. Len(x)
    <3> HIDE DEF at
    <3> QED
      BY <1>1, <1>2, <1>4, <2>1, Patterns
  <2>5. Parsing!Process(ParserOf(s, z, f, n)) = ParserOf(Parsing!ProcessingHeaders, Parsing!Drop(z, k), f, n)
    <3> HIDE DEF z
    <3> QED
      BY <1>9, <2>1, <2>4, ProcessLooking
  <2>6. Parsing!Drop(z, k) = e \o d
    <3> HIDE DEF k
    <3> QED
      BY <1>1, <2>4, DropConcat
  <2> QED
    BY <2>3, <2>5, <2>6
<1>10. CASE s = Parsing!ProcessingHeaders
  <2>1. ~(eh < 0)
    BY <1>6, <1>10, ProcessHeaders
  <2>2. Parsing!Position(z, EndOfHeaders) = eh /\ eh \in 0 .. Len(x) /\ eh + 4 \in 0 .. Len(x)
    <3> HIDE DEF eh
    <3> QED
      BY <1>1, <1>3, <1>5, <2>1
  <2>3. HeadersIn(z) = HeadersIn(x)
    <3>1. Parsing!Take(z, eh) = Parsing!Take(x, eh)
      BY <1>1, <2>2, DropConcat
    <3> QED
      BY <2>2, <3>1 DEF HeadersIn
  <2> DEFINE h == HeadersIn(x)
  <2>4. CASE Named(h) = {}
    <3>1. Parsing!Process(p) = ParserOf(Parsing!Thrown, x, f, n)
      BY <1>10, <2>1, <2>4, ProcessHeaders
    <3>2. t = Parsing!Thrown /\ y = x /\ g = f /\ m = n
      BY <1>7, <3>1
    <3>3. Parsing!Process(ParserOf(s, z, f, n)) = ParserOf(Parsing!Thrown, z, f, n)
      <4> HIDE DEF z
      <4> QED
        BY <1>10, <2>1, <2>2, <2>3, <2>4, ProcessHeaders
    <3> QED
      BY <3>2, <3>3
  <2>5. CASE Named(h) # {}
    <3> DEFINE e == Parsing!Drop(x, eh + 4)
               w == WithField(f, FieldIn(h))
               l == FieldIn(h).name
    <3>1. Parsing!Process(p) = ParserOf(Parsing!ProcessingContentOfTheField, e, w, l)
      BY <1>10, <2>1, <2>5, ProcessHeaders
    <3>2. t = Parsing!ProcessingContentOfTheField /\ y = e /\ g = w /\ m = l
      BY <1>7, <3>1
    <3>3. Parsing!Process(ParserOf(s, z, f, n))
            = ParserOf(Parsing!ProcessingContentOfTheField, Parsing!Drop(z, eh + 4), w, l)
      <4> HIDE DEF z
      <4> QED
        BY <1>10, <2>1, <2>2, <2>3, <2>5, ProcessHeaders
    <3>4. Parsing!Drop(z, eh + 4) = e \o d
      BY <1>1, <2>2, DropConcat
    <3> QED
      BY <3>2, <3>3, <3>4
  <2> QED
    BY <2>4, <2>5
<1>11. CASE s = Parsing!ProcessingContentOfTheField
  <2>1. n \in DOMAIN f /\ f[n] \in FieldType /\ f[n].content \in Seq(Symbols)
    BY <1>11 DEF Valid, FieldType
  <2> DEFINE k == ToField(x, at)
             v == IF at >= 0 THEN Parsing!LookingForStartingBoundary
                             ELSE Parsing!ProcessingContentOfTheField
             e == Left(x, k)
             w == Accepted(f, n, Sent(x, k))
  <2>2. Parsing!Process(p) = ParserOf(v, e, w, n)
    BY <1>1, <1>11, <2>1, ProcessContent
  <2>3. t = v /\ y = e /\ g = w /\ m = n
    BY <1>7, <2>2
  <2>4. at >= 0
    BY <1>11, <2>3
  <2>5. Parsing!Position(z, Boundary) = at /\ ToField(z, at) = k
    BY <1>4, <2>4 DEF ToField
  <2>6. Parsing!Process(ParserOf(s, z, f, n)) = ParserOf(v, Left(z, k), Accepted(f, n, Sent(z, k)), n)
    <3> HIDE DEF z
    <3>1. Parsing!Process(ParserOf(s, z, f, n))
            = ParserOf(v, Left(z, ToField(z, at)), Accepted(f, n, Sent(z, ToField(z, at))), n)
      <4> HIDE DEF at
      <4> QED
        BY <1>8, <1>11, <2>1, <2>5, ProcessContent
    <3> QED
      BY <2>5, <3>1
  <2>7. k \in Int /\ k <= Len(x)
    BY <1>1, SentLeft
  <2> HIDE DEF k
  <2>8. k > 0 => Parsing!Drop(z, k) = Parsing!Drop(x, k) \o d /\ Parsing!Take(z, k) = Parsing!Take(x, k)
    <3>1. k > 0 => k \in 0 .. Len(x)
      BY <1>1, <2>7
    <3> QED
      BY <1>1, <3>1, DropConcat
  <2>9. Left(z, k) = e \o d /\ Sent(z, k) = Sent(x, k)
    BY <2>8 DEF Left, Sent
  <2> QED
    BY <2>3, <2>6, <2>9
<1>12. s # Parsing!Thrown
  BY <1>6, ProcessThrown
<1> QED
  BY <1>1, <1>9, <1>10, <1>11, <1>12 DEF Statuses

\* What has been held back of the content is found with what comes later.
LEMMA ContentConcat ==
  ASSUME NEW x \in Seq(Symbols), NEW f, NEW n \in DOMAIN f, f[n] \in FieldType,
         Parsing!Position(x, Boundary) < 0, NEW d \in Seq(Symbols),
         NEW k \in Int, k = Len(x) - (Len(Boundary) + 2)
  PROVE  Parsing!Process(ParserOf(Parsing!ProcessingContentOfTheField,
                                  Left(x, k) \o d, Accepted(f, n, Sent(x, k)), n))
           = Parsing!Process(ParserOf(Parsing!ProcessingContentOfTheField, x \o d, f, n))
<1> DEFINE C == Parsing!ProcessingContentOfTheField
           B == Len(Boundary)
           y == Left(x, k)
           a == Sent(x, k)
           g == Accepted(f, n, a)
           u == y \o d
           z == x \o d
           at1 == Parsing!Position(u, Boundary)
           at2 == Parsing!Position(z, Boundary)
           k1 == ToField(u, at1)
           k2 == ToField(z, at2)
           St(at) == IF at >= 0 THEN Parsing!LookingForStartingBoundary ELSE C
<1>1. /\ Boundary \in Seq(Symbols) /\ B \in Nat /\ B > 0 /\ Len(x) \in Nat /\ Len(d) \in Nat
      /\ k = Len(x) - (B + 2) /\ k \in Int /\ k <= Len(x)
  BY Patterns
<1>2. Parsing!Position(x, Boundary) = -1 /\ \A i \in Nat : ~Occurs(x, Boundary, i)
  <2> DEFINE at == Parsing!Position(x, Boundary)
  <2>1. \/ at = -1 /\ \A i \in Nat : ~Occurs(x, Boundary, i)
        \/ at \in Nat /\ Occurs(x, Boundary, at) /\ \A i \in Nat : Occurs(x, Boundary, i) => at <= i
    BY <1>1, PositionFirst
  <2> HIDE DEF at
  <2> QED
    BY <2>1 DEF at
<1>3. a \in Seq(Symbols) /\ y \in Seq(Symbols)
  <2>1. k = ToField(x, -1)
    BY <1>1 DEF ToField
  <2> QED
    BY <1>2, <2>1, SentLeft
<1>4. z \in Seq(Symbols) /\ Len(z) = Len(x) + Len(d)
  BY ConcatProperties
<1>5. u \in Seq(Symbols) /\ Len(u) = Len(y) + Len(d)
  <2> HIDE DEF y
  <2> QED
    BY <1>3, ConcatProperties
<1>6. n \in DOMAIN g /\ g[n] \in FieldType /\ g[n].content \in Seq(Symbols) /\ f[n].content \in Seq(Symbols)
  <2>1. n \in DOMAIN g /\ g[n] \in FieldType
    <3> HIDE DEF a
    <3> QED
      BY <1>3, AcceptedIs
  <2> QED
    BY <2>1 DEF FieldType
<1>7. Parsing!Process(ParserOf(C, z, f, n)) = ParserOf(St(at2), Left(z, k2), Accepted(f, n, Sent(z, k2)), n)
  <2> HIDE DEF z
  <2> QED
    BY <1>4, <1>6, ProcessContent
<1>8. Parsing!Process(ParserOf(C, u, g, n)) = ParserOf(St(at1), Left(u, k1), Accepted(g, n, Sent(u, k1)), n)
  <2> HIDE DEF u, g
  <2> QED
    BY <1>5, <1>6, ProcessContent
<1>9. Sent(u, k1) \in Seq(Symbols)
  <2> HIDE DEF u
  <2> QED
    BY <1>5, SentLeft
<1>10. Accepted(g, n, Sent(u, k1)) = Accepted(f, n, a \o Sent(u, k1))
  <2> HIDE DEF a, u
  <2> QED
    BY <1>3, <1>9, AcceptedTwice
<1> SUFFICES St(at1) = St(at2) /\ Left(u, k1) = Left(z, k2) /\ a \o Sent(u, k1) = Sent(z, k2)
  BY <1>7, <1>8, <1>10
<1>11. CASE ~(k > 0)
  <2>1. y = x /\ a = <<>>
    BY <1>11 DEF Left, Sent
  <2>2. u = z
    BY <2>1
  <2>3. <<>> \o Sent(u, k1) = Sent(u, k1)
    <3> HIDE DEF u, k1
    <3> QED
      BY <1>9, ConcatEmptySeq
  <2> HIDE DEF u, z, a
  <2> QED
    BY <2>1, <2>2, <2>3
<1>12. CASE k > 0
  <2>1. k \in 0 .. Len(x)
    BY <1>1, <1>12
  <2>0. k \in Nat
    BY <2>1
  <2>00. \A i \in Nat : k + i \in Nat
    BY <2>0
  <2>2. y = Parsing!Drop(x, k) /\ a = Parsing!Take(x, k)
    BY <1>12 DEF Left, Sent
  <2>3. u = Parsing!Drop(z, k) /\ a = Parsing!Take(z, k)
    <3>1. Parsing!Drop(z, k) = Parsing!Drop(x, k) \o d /\ Parsing!Take(z, k) = Parsing!Take(x, k)
      BY <2>1, DropConcat
    <3> QED
      BY <2>2, <3>1
  <2>4. k \in 0 .. Len(z) /\ Len(u) = Len(z) - k
    <3>1. k \in 0 .. Len(z)
      BY <1>1, <1>4, <2>1
    <3> HIDE DEF u, z
    <3> QED
      BY <1>4, <2>3, <3>1, DropIs
  <2>5. ASSUME NEW i \in Nat PROVE Occurs(u, Boundary, i) <=> Occurs(z, Boundary, k + i)
    <3> HIDE DEF u, z
    <3> QED
      BY <1>1, <1>4, <2>3, <2>4, OccursDrop
  <2>6. ASSUME NEW i \in Nat, Occurs(z, Boundary, i) PROVE i >= k + 3
    <3>1. ~(i + B <= Len(x))
      BY <1>1, <1>2, <2>6, OccursConcat
    <3> QED
      BY <1>1, <3>1
  <2>7. \/ at2 = -1 /\ \A i \in Nat : ~Occurs(z, Boundary, i)
        \/ at2 \in Nat /\ Occurs(z, Boundary, at2) /\ \A i \in Nat : Occurs(z, Boundary, i) => at2 <= i
    <3> HIDE DEF z
    <3> QED
      BY <1>1, <1>4, PositionFirst
  <2>8. (at1 >= 0 <=> at2 >= 0) /\ k1 = k2 - k /\ k1 \in Nat /\ k2 \in Nat /\ k2 <= Len(z) /\ k2 > 0
    <3>1. CASE at2 = -1 /\ \A i \in Nat : ~Occurs(z, Boundary, i)
      <4>1. \A i \in Nat : ~Occurs(u, Boundary, i)
        BY <2>00, <2>5, <3>1
      <4>2. at1 = -1
        <5> HIDE DEF u
        <5> QED
          BY <1>1, <1>5, <4>1, PositionNone
      <4>3. k1 = Len(u) - (B + 2) /\ k2 = Len(z) - (B + 2)
        BY <3>1, <4>2 DEF ToField
      <4>4. Len(z) = Len(x) + Len(d) /\ Len(u) = Len(z) - k /\ k = Len(x) - (B + 2)
        BY <1>1, <1>4, <2>4
      <4> HIDE DEF u, z, at1, at2, k1, k2, B
      <4>5. k1 = k2 - k /\ k1 = Len(d) /\ k2 = k + Len(d)
        <5>1. k2 = (Len(x) + Len(d)) - (B + 2)
          BY <4>3, <4>4
        <5>2. k2 = k + Len(d)
          BY <1>1, <4>4, <5>1
        <5>3. k1 = (Len(x) + Len(d)) - (Len(x) - (B + 2)) - (B + 2)
          BY <4>3, <4>4
        <5>4. k1 = Len(d)
          BY <1>1, <5>3
        <5> QED
          BY <1>1, <2>0, <5>2, <5>4
      <4>6. k1 \in Nat /\ k2 \in Nat /\ k2 > 0 /\ k2 <= Len(z)
        BY <1>1, <2>0, <1>12, <4>4, <4>5
      <4>7. at1 = at2
        BY <3>1, <4>2
      <4> QED
        BY <4>5, <4>6, <4>7
    <3>2. CASE at2 \in Nat /\ Occurs(z, Boundary, at2) /\ \A i \in Nat : Occurs(z, Boundary, i) => at2 <= i
      <4> DEFINE b == at2 - k
      <4>1. at2 >= k + 3 /\ b \in Nat /\ k + b = at2
        <5> HIDE DEF at2, z
        <5>1. at2 >= k + 3
          BY <2>6, <3>2
        <5> QED
          BY <1>1, <3>2, <5>1
      <4>2. Occurs(u, Boundary, b)
        <5> HIDE DEF b, u, z, at2
        <5> QED
          BY <2>5, <3>2, <4>1
      <4>3. ASSUME NEW i \in Nat, Occurs(u, Boundary, i) PROVE b <= i
        <5> HIDE DEF u, z, at2
        <5>1. Occurs(z, Boundary, k + i) /\ k + i \in Nat
          BY <2>00, <2>5, <4>3
        <5>2. at2 <= k + i
          BY <3>2, <5>1
        <5> QED
          BY <1>1, <3>2, <5>2
      <4>4. at1 = b
        <5> HIDE DEF b, u
        <5> QED
          BY <1>1, <1>5, <4>1, <4>2, <4>3, PositionIs
      <4>5. k1 = at1 - 2 /\ k2 = at2 - 2
        <5> HIDE DEF at1, at2, u, z
        <5> QED
          BY <3>2, <4>1, <4>4 DEF ToField, b, k1, k2
      <4>6. at2 + B <= Len(z)
        BY <3>2 DEF Occurs
      <4>7. Len(z) \in Nat
        BY <1>4
      <4> HIDE DEF u, z, at1, at2, k1, k2, B
      <4>8. at1 = at2 - k /\ at1 \in Nat /\ at2 \in Nat
        BY <3>2, <4>1, <4>4 DEF b
      <4>9. k1 = k2 - k /\ k1 \in Nat /\ k2 \in Nat /\ k2 > 0
        BY <2>0, <4>1, <4>5, <4>8
      <4>10. k2 <= Len(z)
        BY <1>1, <4>5, <4>6, <4>7, <4>8
      <4> QED
        BY <4>8, <4>9, <4>10
    <3> QED
      BY <2>7, <3>1, <3>2
  <2>9. St(at1) = St(at2)
    BY <2>8
  <2> HIDE DEF u, z, a, k1, k2, at1, at2, St
  <2>10. k + k1 = k2 /\ k + k1 <= Len(z) /\ k \in Nat
    BY <2>0, <2>8
  <2>11. /\ Parsing!Take(z, k) \o Parsing!Take(u, k1) = Parsing!Take(z, k2)
         /\ Parsing!Drop(u, k1) = Parsing!Drop(z, k2)
    <3>1. /\ Parsing!Take(z, k) \o Parsing!Take(Parsing!Drop(z, k), k1) = Parsing!Take(z, k + k1)
          /\ Parsing!Drop(Parsing!Drop(z, k), k1) = Parsing!Drop(z, k + k1)
      BY <1>4, <2>8, <2>10, TakeTwice
    <3> QED
      BY <2>3, <2>10, <3>1
  <2>12. Left(z, k2) = Parsing!Drop(z, k2) /\ Sent(z, k2) = Parsing!Take(z, k2)
    BY <2>8 DEF Left, Sent
  <2>13. CASE k1 > 0
    <3>1. Left(u, k1) = Parsing!Drop(u, k1) /\ Sent(u, k1) = Parsing!Take(u, k1)
      BY <2>13 DEF Left, Sent
    <3> QED
      BY <2>3, <2>9, <2>11, <2>12, <3>1
  <2>14. CASE ~(k1 > 0)
    <3>1. k1 = 0 /\ k2 = k
      BY <1>1, <2>8, <2>14
    <3>2. Left(u, k1) = u /\ Sent(u, k1) = <<>>
      BY <2>14 DEF Left, Sent
    <3>3. a \o <<>> = a
      BY <1>3, ConcatEmptySeq
    <3> QED
      BY <2>3, <2>9, <2>12, <3>1, <3>2, <3>3
  <2> QED
    BY <2>13, <2>14
<1> QED
  BY <1>11, <1>12

\* More data leaves a state valid.
LEMMA ValidConcat ==
  ASSUME NEW s, NEW x, NEW f, NEW n, Valid(s, x, f, n), NEW d \in Seq(Symbols)
  PROVE  Valid(s, x \o d, f, n) /\ Measure(s, x \o d) = Measure(s, x) + 3 * Len(d)
<1>1. x \in Seq(Symbols) /\ Len(x) \in Nat /\ Len(d) \in Nat
  BY DEF Valid
<1>2. x \o d \in Seq(Symbols) /\ Len(x \o d) = Len(x) + Len(d)
  BY <1>1, ConcatProperties
<1>3. Valid(s, x \o d, f, n)
  BY <1>2 DEF Valid
<1>4. Measure(s, x \o d) = Measure(s, x) + 3 * Len(d)
  BY <1>1, <1>2 DEF Measure
<1> QED
  BY <1>3, <1>4

\* What _ProcessData does is determined by its first round.
LEMMA RunByProcess ==
  ASSUME NEW s, NEW x, NEW f, NEW n, Valid(s, x, f, n), NEW y, NEW g, NEW m, Valid(s, y, g, m),
         Parsing!Process(ParserOf(s, x, f, n)) = Parsing!Process(ParserOf(s, y, g, m))
  PROVE  Parsing!_ProcessData(ParserOf(s, x, f, n)) = Parsing!_ProcessData(ParserOf(s, y, g, m))
<1>1. PICK a, b, c, d : /\ Valid(a, b, c, d)
                        /\ Parsing!Process(ParserOf(s, x, f, n)) = ParserOf(a, b, c, d)
                        /\ a # s => Measure(a, b) < Measure(s, x)
  BY ProcessValid
<1>2. PICK a1, b1, c1, d1 : /\ Valid(a1, b1, c1, d1)
                            /\ Parsing!Process(ParserOf(s, y, g, m)) = ParserOf(a1, b1, c1, d1)
                            /\ a1 # s => Measure(a1, b1) < Measure(s, y)
  BY ProcessValid
<1>3. a = a1 /\ b = b1 /\ c = c1 /\ d = d1
  <2>1. ParserOf(a, b, c, d) = ParserOf(a1, b1, c1, d1)
    BY <1>1, <1>2
  <2> QED
    BY <2>1, ParserStatus
<1>4. Parsing!_ProcessData(ParserOf(s, x, f, n)) =
        IF a = s THEN ParserOf(a, b, c, d) ELSE Parsing!_ProcessData(ParserOf(a, b, c, d))
  BY <1>1, RunStep
<1>5. Parsing!_ProcessData(ParserOf(s, y, g, m)) =
        IF a = s THEN ParserOf(a, b, c, d) ELSE Parsing!_ProcessData(ParserOf(a, b, c, d))
  BY <1>2, <1>3, RunStep
<1> QED
  BY <1>4, <1>5

\* A round without another one changes nothing, unless it is one for content
\* without a boundary.
LEMMA StepSame ==
  ASSUME NEW s, NEW x, NEW f, NEW n, Valid(s, x, f, n), NEW y, NEW g, NEW m,
         Parsing!Process(ParserOf(s, x, f, n)) = ParserOf(s, y, g, m)
  PROVE  \/ y = x /\ g = f /\ m = n
         \/ /\ s = Parsing!ProcessingContentOfTheField /\ Parsing!Position(x, Boundary) < 0
            /\ n \in DOMAIN f /\ f[n] \in FieldType /\ m = n
            /\ \E k \in Int : /\ k = Len(x) - (Len(Boundary) + 2)
                              /\ y = Left(x, k) /\ g = Accepted(f, n, Sent(x, k))
<1> DEFINE p == ParserOf(s, x, f, n)
           at == Parsing!Position(x, Boundary)
           eh == Parsing!Position(x, EndOfHeaders)
<1>1. x \in Seq(Symbols) /\ Len(x) \in Nat /\ s \in Statuses
  BY DEF Valid
<1>2. ASSUME Parsing!Process(p) = p PROVE y = x /\ g = f /\ m = n
  <2>1. ParserOf(s, x, f, n) = ParserOf(s, y, g, m)
    BY <1>2
  <2>2. ParserOf(s, x, f, n).data = y /\ ParserOf(s, x, f, n).fields = g /\ ParserOf(s, x, f, n).name = m
    BY <2>1, ParserStatus
  <2> QED
    BY <2>2, ParserStatus
<1>3. ASSUME NEW v, NEW y1, NEW g1, NEW m1, Parsing!Process(p) = ParserOf(v, y1, g1, m1)
      PROVE  v = s /\ y1 = y /\ g1 = g /\ m1 = m
  <2>1. ParserOf(v, y1, g1, m1) = ParserOf(s, y, g, m)
    BY <1>3
  <2> QED
    BY <2>1, ParserStatus
<1>4. CASE s = Parsing!LookingForStartingBoundary
  <2>1. at < 0
    <3> SUFFICES ASSUME ~(at < 0) PROVE FALSE
      OBVIOUS
    <3>1. Parsing!Process(p) = ParserOf(Parsing!ProcessingHeaders, Parsing!Drop(x, at + Len(Boundary)), f, n)
      BY <1>4, ProcessLooking
    <3> QED
      BY <1>3, <1>4, <3>1, StatusesDiffer
  <2> QED
    BY <1>2, <1>4, <2>1, ProcessLooking
<1>5. CASE s = Parsing!ProcessingHeaders
  <2>1. eh < 0
    <3> SUFFICES ASSUME ~(eh < 0) PROVE FALSE
      OBVIOUS
    <3>1. \E v, y1, g1, m1 : Parsing!Process(p) = ParserOf(v, y1, g1, m1) /\ v # s
      BY <1>5, ProcessHeaders, StatusesDiffer
    <3> QED
      BY <1>3, <3>1
  <2> QED
    BY <1>2, <1>5, <2>1, ProcessHeaders
<1>6. CASE s = Parsing!ProcessingContentOfTheField
  <2>1. n \in DOMAIN f /\ f[n] \in FieldType /\ f[n].content \in Seq(Symbols)
    BY <1>6 DEF Valid, FieldType
  <2> DEFINE k == ToField(x, at)
             v == IF at >= 0 THEN Parsing!LookingForStartingBoundary
                             ELSE Parsing!ProcessingContentOfTheField
  <2>2. Parsing!Process(p) = ParserOf(v, Left(x, k), Accepted(f, n, Sent(x, k)), n)
    BY <1>1, <1>6, <2>1, ProcessContent
  <2>3. v = s /\ y = Left(x, k) /\ g = Accepted(f, n, Sent(x, k)) /\ m = n
    BY <1>3, <2>2
  <2>4. at = -1 \/ at \in Nat
    BY <1>1, PlaceType
  <2>5. at < 0
    <3> HIDE DEF at
    <3> QED
      BY <1>6, <2>3, <2>4, StatusesDiffer
  <2>6. k = Len(x) - (Len(Boundary) + 2) /\ k \in Int
    <3> HIDE DEF at
    <3> QED
      BY <1>1, <2>4, <2>5, Patterns DEF ToField
  <2> HIDE DEF k
  <2> QED
    BY <1>6, <2>1, <2>3, <2>5, <2>6
<1>7. s = Parsing!Thrown => Parsing!Process(p) = p
  BY ProcessThrown
<1> QED
  BY <1>1, <1>2, <1>4, <1>5, <1>6, <1>7 DEF Statuses

\* After more data the parser is as if all of it had come at once.
Chunked(s, x, f, n, d) ==
  \E t, y, g, m :
    /\ Valid(t, y, g, m) /\ Parsing!_ProcessData(ParserOf(s, x, f, n)) = ParserOf(t, y, g, m)
    /\ Parsing!_ProcessData(ParserOf(t, y \o d, g, m)) = Parsing!_ProcessData(ParserOf(s, x \o d, f, n))

\* If that is so after a round, it is so before.
LEMMA ChunkedStep ==
  ASSUME NEW d \in Seq(Symbols), NEW s, NEW x, NEW f, NEW n, Valid(s, x, f, n),
         NEW t, NEW y, NEW g, NEW m, Valid(t, y, g, m),
         Parsing!Process(ParserOf(s, x, f, n)) = ParserOf(t, y, g, m),
         t # s => Measure(t, y) < Measure(s, x) /\ Chunked(t, y, g, m, d)
  PROVE  Chunked(s, x, f, n, d)
<1>1. Parsing!_ProcessData(ParserOf(s, x, f, n)) =
        IF t = s THEN ParserOf(t, y, g, m) ELSE Parsing!_ProcessData(ParserOf(t, y, g, m))
  BY RunStep
<1>2. /\ Valid(s, x \o d, f, n) /\ Measure(s, x \o d) = Measure(s, x) + 3 * Len(d)
      /\ Valid(t, y \o d, g, m) /\ Measure(t, y \o d) = Measure(t, y) + 3 * Len(d)
  BY ValidConcat
<1>3. CASE t # s
  <2>1. Parsing!Process(ParserOf(s, x \o d, f, n)) = ParserOf(t, y \o d, g, m)
    BY <1>3, StepConcat
  <2>2. Measure(t, y \o d) < Measure(s, x \o d)
    <3>1. Measure(t, y) \in Nat /\ Measure(s, x) \in Nat /\ Len(d) \in Nat
      BY RoundsSuffice
    <3> QED
      BY <1>2, <1>3, <3>1
  <2>3. Parsing!_ProcessData(ParserOf(s, x \o d, f, n)) = Parsing!_ProcessData(ParserOf(t, y \o d, g, m))
    BY <1>2, <1>3, <2>1, <2>2, RunStep
  <2>4. PICK a, b, c, e :
          /\ Valid(a, b, c, e) /\ Parsing!_ProcessData(ParserOf(t, y, g, m)) = ParserOf(a, b, c, e)
          /\ Parsing!_ProcessData(ParserOf(a, b \o d, c, e)) = Parsing!_ProcessData(ParserOf(t, y \o d, g, m))
    BY <1>3 DEF Chunked
  <2>5. Parsing!_ProcessData(ParserOf(s, x, f, n)) = ParserOf(a, b, c, e)
    BY <1>1, <1>3, <2>4
  <2> QED
    BY <2>3, <2>4, <2>5 DEF Chunked
<1>4. CASE t = s
  <2>1. Parsing!_ProcessData(ParserOf(s, x, f, n)) = ParserOf(s, y, g, m) /\ Valid(s, y, g, m)
    BY <1>1, <1>4
  <2>2. Parsing!_ProcessData(ParserOf(s, y \o d, g, m)) = Parsing!_ProcessData(ParserOf(s, x \o d, f, n))
    <3>1. CASE y = x /\ g = f /\ m = n
      BY <3>1
    <3>2. CASE ~(y = x /\ g = f /\ m = n)
      <4>1. PICK k \in Int :
              /\ s = Parsing!ProcessingContentOfTheField /\ Parsing!Position(x, Boundary) < 0
              /\ n \in DOMAIN f /\ f[n] \in FieldType /\ m = n
              /\ k = Len(x) - (Len(Boundary) + 2)
              /\ y = Left(x, k) /\ g = Accepted(f, n, Sent(x, k))
        BY <1>4, <3>2, StepSame
      <4>2. x \in Seq(Symbols)
        BY DEF Valid
      <4>3. Parsing!Process(ParserOf(s, y \o d, g, m)) = Parsing!Process(ParserOf(s, x \o d, f, n))
        BY <4>1, <4>2, ContentConcat
      <4> QED
        BY <1>2, <1>4, <4>3, RunByProcess
    <3> QED
      BY <3>1, <3>2
  <2> QED
    BY <2>1, <2>2 DEF Chunked
<1> QED
  BY <1>3, <1>4

\* It does not show how the data was cut: a state of least measure where it
\* did would make a round to one of smaller measure.
LEMMA RunConcat ==
  ASSUME NEW d \in Seq(Symbols), NEW s, NEW x, NEW f, NEW n, Valid(s, x, f, n)
  PROVE  Chunked(s, x, f, n, d)
<1> DEFINE Bad(t, y, g, m) == Valid(t, y, g, m) /\ ~Chunked(t, y, g, m, d)
           T == {k \in Nat : \E t, y, g, m : Bad(t, y, g, m) /\ Measure(t, y) = k}
<1>1. \A t, y, g, m : Valid(t, y, g, m) => Measure(t, y) \in Nat
  BY RoundsSuffice
<1>2. SUFFICES ASSUME T # {} PROVE FALSE
  BY <1>1, <1>2
<1>3. PICK k \in T : \A l \in T : k <= l
  <2>1. T \in SUBSET Nat
    OBVIOUS
  <2> HIDE DEF T
  <2> QED
    BY <1>2, <2>1, NatMin
<1>4. PICK t, y, g, m : Bad(t, y, g, m) /\ Measure(t, y) = k
  BY <1>3
<1>5. PICK a, b, c, e : /\ Valid(a, b, c, e)
                        /\ Parsing!Process(ParserOf(t, y, g, m)) = ParserOf(a, b, c, e)
                        /\ a # t => Measure(a, b) < Measure(t, y)
  BY <1>4, ProcessValid
<1>6. a # t => Chunked(a, b, c, e, d)
  <2> SUFFICES ASSUME a # t, ~Chunked(a, b, c, e, d) PROVE FALSE
    OBVIOUS
  <2>1. Measure(a, b) \in T
    BY <1>1, <1>5
  <2>2. k <= Measure(a, b) /\ Measure(a, b) \in Nat /\ k \in Nat
    BY <1>1, <1>3, <1>5, <2>1
  <2> QED
    BY <1>4, <1>5, <2>2
<1> QED
  BY <1>4, <1>5, <1>6, ChunkedStep

-----------------------------------------------------------------------------
(* Multipart: the body of a form, and the parser fed with it.              *)

UpTo(g, N, f) == g = [i \in 0 .. N |-> IF i = 0 THEN <<>> ELSE g[i - 1] \o Parsing!Part(f[i])]

\* The parts of a form as a sequence of steps.
LEMMA UpToIs ==
  ASSUME NEW N \in Nat, NEW f, NEW g, UpTo(g, N, f)
  PROVE  /\ g[0] = <<>>
         /\ \A i \in 1 .. N : g[i] = g[i - 1] \o Parsing!Part(f[i])
<1> DEFINE R(i) == IF i = 0 THEN <<>> ELSE g[i - 1] \o Parsing!Part(f[i])
<1>1. g = [i \in 0 .. N |-> R(i)]
  BY DEF UpTo
<1> HIDE DEF R
<1>2. \A i \in 0 .. N : g[i] = R(i)
  BY <1>1
<1>3. 0 \in 0 .. N /\ R(0) = <<>>
  BY DEF R
<1>4. ASSUME NEW i \in 1 .. N PROVE i \in 0 .. N /\ R(i) = g[i - 1] \o Parsing!Part(f[i])
  <2>1. i \in 0 .. N /\ i # 0
    OBVIOUS
  <2> QED
    BY <2>1, Zenon DEF R
<1> QED
  BY <1>2, <1>3, <1>4

\* There is such a sequence.
LEMMA UpToExists ==
  ASSUME NEW N \in Nat, NEW f
  PROVE  \E g : UpTo(g, N, f)
<1> DEFINE S == {i \in 0 .. N : \E g : UpTo(g, i, f)}
<1>1. 0 \in S
  <2> DEFINE g == [j \in 0 .. 0 |-> <<>>]
  <2>1. g = [j \in 0 .. 0 |-> IF j = 0 THEN <<>> ELSE g[j - 1] \o Parsing!Part(f[j])]
    OBVIOUS
  <2> HIDE DEF g
  <2> QED
    BY <2>1 DEF UpTo
<1>2. ASSUME NEW i \in 1 .. N, i - 1 \in S PROVE i \in S
  <2>1. PICK g : UpTo(g, i - 1, f)
    BY <1>2
  <2>2. i - 1 \in Nat
    OBVIOUS
  <2>3. /\ g[0] = <<>>
        /\ \A j \in 1 .. i - 1 : g[j] = g[j - 1] \o Parsing!Part(f[j])
    BY <2>1, <2>2, UpToIs
  <2> DEFINE h == [j \in 0 .. i |-> IF j = i THEN g[i - 1] \o Parsing!Part(f[i]) ELSE g[j]]
             k == [j \in 0 .. i |-> IF j = 0 THEN <<>> ELSE h[j - 1] \o Parsing!Part(f[j])]
  <2>4. ASSUME NEW j \in 0 .. i PROVE h[j] = k[j]
    <3>1. CASE j = 0
      BY <2>3, <3>1
    <3>2. CASE j # 0
      <4>1. j - 1 \in 0 .. i /\ j - 1 # i /\ h[j - 1] = g[j - 1]
        BY <3>2
      <4>2. k[j] = g[j - 1] \o Parsing!Part(f[j])
        BY <3>2, <4>1
      <4>3. CASE j = i
        BY <4>2, <4>3
      <4>4. CASE j # i
        <5>1. j \in 1 .. i - 1 /\ h[j] = g[j]
          BY <3>2, <4>4
        <5> QED
          BY <2>3, <4>2, <5>1
      <4> QED
        BY <4>3, <4>4
    <3> QED
      BY <3>1, <3>2
  <2>5. h = k
    <3>1. h = [j \in 0 .. i |-> h[j]] /\ k = [j \in 0 .. i |-> k[j]]
      OBVIOUS
    <3> HIDE DEF h, k
    <3> QED
      BY <2>4, <3>1
  <2>6. UpTo(h, i, f)
    BY <2>5 DEF UpTo
  <2> HIDE DEF h
  <2> QED
    BY <2>6
<1> HIDE DEF S
<1>3. \A i \in 0 .. N : i \in S
  BY <1>1, <1>2, InductionTo
<1>4. N \in S
  BY <1>3
<1> QED
  BY <1>4 DEF S

\* What a client sends in front of the content of a part, and behind all.
Opening(h) == <<CR, LF, h, CR, LF, CR, LF>>
Closing == <<"-", "-", CR, LF>>

\* The pieces that bodies are made of.
LEMMA Pieces ==
  ASSUME NEW q \in Parsing!FormPart
  PROVE  /\ q.header \in Symbols /\ q.content \in Seq(Symbols)
         /\ Opening(q.header) \in Seq(Symbols) /\ <<CR, LF>> \in Seq(Symbols) /\ Closing \in Seq(Symbols)
         /\ Parsing!Part(q) \in Seq(Symbols)
<1>1. q.header \in Symbols /\ q.content \in Seq(Symbols)
  BY DEF Parsing!FormPart
<1>2. CR \in Symbols /\ LF \in Symbols /\ "-" \in Symbols
  BY HttpAssumption DEF Parsing!BoundaryAssumption
<1>3. Opening(q.header) \in Seq(Symbols) /\ <<CR, LF>> \in Seq(Symbols) /\ Closing \in Seq(Symbols)
  BY <1>1, <1>2 DEF Opening, Closing
<1> DEFINE a == Boundary \o Opening(q.header)
           b == a \o q.content
<1>4. a \in Seq(Symbols)
  BY <1>3, Patterns, ConcatProperties
<1>5. b \in Seq(Symbols)
  <2> HIDE DEF a
  <2> QED
    BY <1>1, <1>4, ConcatProperties
<1>6. b \o <<CR, LF>> \in Seq(Symbols)
  <2> HIDE DEF b
  <2> QED
    BY <1>3, <1>5, ConcatProperties
<1> QED
  BY <1>1, <1>3, <1>6 DEF Parsing!Part, Opening

\* The parts of a form one after the other.
LEMMA PartsIs ==
  ASSUME NEW f \in Seq(Parsing!FormPart)
  PROVE  /\ Parsing!PartsUpTo(f)[0] = <<>>
         /\ \A i \in 1 .. Len(f) :
              Parsing!PartsUpTo(f)[i] = Parsing!PartsUpTo(f)[i - 1] \o Parsing!Part(f[i])
         /\ \A i \in 0 .. Len(f) : Parsing!PartsUpTo(f)[i] \in Seq(Symbols)
<1> DEFINE N == Len(f)
           P == Parsing!PartsUpTo(f)
<1>1. N \in Nat
  OBVIOUS
<1>2. UpTo(P, N, f)
  <2>1. P = CHOOSE g : UpTo(g, N, f)
    BY DEF Parsing!PartsUpTo, UpTo
  <2> HIDE DEF P
  <2> QED
    BY <1>1, <2>1, UpToExists
<1> HIDE DEF P
<1>3. P[0] = <<>> /\ \A i \in 1 .. N : P[i] = P[i - 1] \o Parsing!Part(f[i])
  BY <1>1, <1>2, UpToIs
<1> DEFINE S == {i \in Nat : i <= N => P[i] \in Seq(Symbols)}
<1>4. 0 \in S
  BY <1>3, EmptySeq
<1>5. ASSUME NEW i \in 1 .. N, i - 1 \in S PROVE i \in S
  <2>0. i - 1 \in Nat /\ i - 1 <= N /\ i \in Nat
    BY <1>1
  <2>1. P[i - 1] \in Seq(Symbols) /\ P[i] = P[i - 1] \o Parsing!Part(f[i])
    BY <1>3, <1>5, <2>0, Zenon
  <2>2. Parsing!Part(f[i]) \in Seq(Symbols)
    <3>1. f[i] \in Parsing!FormPart
      OBVIOUS
    <3> QED
      BY <3>1, Pieces
  <2>3. P[i] \in Seq(Symbols)
    BY <2>1, <2>2, ConcatProperties
  <2> QED
    BY <2>0, <2>3, Zenon
<1> HIDE DEF S
<1>6. \A i \in 0 .. N : i \in S
  BY <1>1, <1>4, <1>5, InductionTo
<1>7. \A i \in 0 .. N : P[i] \in Seq(Symbols)
  BY <1>1, <1>6 DEF S
<1> QED
  BY <1>3, <1>7 DEF P

\* The body of a form.
LEMMA BodyType ==
  ASSUME NEW f \in Seq(Parsing!FormPart)
  PROVE  /\ Parsing!Body(f) \in Seq(Symbols)
         /\ Parsing!Body(f) = Parsing!PartsUpTo(f)[Len(f)] \o (Boundary \o Closing)
<1> DEFINE P == Parsing!PartsUpTo(f)[Len(f)]
<1>1. P \in Seq(Symbols)
  <2>1. Len(f) \in 0 .. Len(f)
    OBVIOUS
  <2> QED
    BY <2>1, PartsIs
<1>2. Closing \in Seq(Symbols)
  <2>1. CR \in Symbols /\ LF \in Symbols /\ "-" \in Symbols
    BY HttpAssumption DEF Parsing!BoundaryAssumption
  <2> QED
    BY <2>1 DEF Closing
<1> HIDE DEF P
<1>3. Boundary \o Closing \in Seq(Symbols)
  BY <1>2, Patterns, ConcatProperties
<1>4. (P \o Boundary) \o Closing = P \o (Boundary \o Closing)
  BY <1>1, <1>2, Patterns, ConcatAssociative
<1>5. P \o (Boundary \o Closing) \in Seq(Symbols)
  <2> DEFINE e == Boundary \o Closing
  <2> HIDE DEF e
  <2>1. P \o e \in Seq(Symbols)
    BY <1>1, <1>3, ConcatProperties DEF e
  <2> QED
    BY <2>1 DEF e
<1>6. Parsing!Body(f) = (P \o Boundary) \o Closing
  BY DEF Parsing!Body, P, Closing
<1> QED
  BY <1>4, <1>5, <1>6 DEF P

-----------------------------------------------------------------------------
(* Multipart: the chunks of a body.                                        *)

\* The parser that was given all of b in one call.
Whole(b) == Parsing!_ProcessData(ParserOf(Parsing!LookingForStartingBoundary, b, <<>>, 0))

\* A new parser is a valid state, with any data.
LEMMA NewValid ==
  ASSUME NEW b \in Seq(Symbols)
  PROVE  Valid(Parsing!LookingForStartingBoundary, b, <<>>, 0)
BY StatusesDiffer DEF Valid, Statuses

\* No boundary is in what is shorter.
LEMMA TooShort ==
  ASSUME NEW x \in Seq(Symbols), Len(x) < Len(Boundary)
  PROVE  Parsing!Position(x, Boundary) = -1
<1>1. PICK at : at = Parsing!Position(x, Boundary)
  OBVIOUS
<1>2. \/ at = -1
      \/ at \in Nat /\ at + Len(Boundary) <= Len(x)
  BY <1>1, PlaceType
<1>3. Len(x) \in Nat /\ Len(Boundary) \in Nat
  BY Patterns
<1>4. at = -1
  BY <1>2, <1>3
<1> QED
  BY <1>1, <1>4

\* The loop is over when a round changes nothing.
LEMMA RunStays ==
  ASSUME NEW s, NEW x, NEW f, NEW n, Valid(s, x, f, n),
         Parsing!Process(ParserOf(s, x, f, n)) = ParserOf(s, x, f, n)
  PROVE  Parsing!_ProcessData(ParserOf(s, x, f, n)) = ParserOf(s, x, f, n)
<1>1. s # s => Measure(s, x) < Measure(s, x)
  OBVIOUS
<1> QED
  BY <1>1, RunStep

\* It goes on when the status has changed.
LEMMA RunGoes ==
  ASSUME NEW s, NEW x, NEW f, NEW n, Valid(s, x, f, n), NEW t, NEW y, NEW g, NEW m, t # s,
         Parsing!Process(ParserOf(s, x, f, n)) = ParserOf(t, y, g, m)
  PROVE  /\ Valid(t, y, g, m)
         /\ Parsing!_ProcessData(ParserOf(s, x, f, n)) = Parsing!_ProcessData(ParserOf(t, y, g, m))
<1>1. PICK a, b, c, d : /\ Valid(a, b, c, d)
                        /\ Parsing!Process(ParserOf(s, x, f, n)) = ParserOf(a, b, c, d)
                        /\ a # s => Measure(a, b) < Measure(s, x)
  BY ProcessValid
<1>2. a = t /\ b = y /\ c = g /\ d = m
  <2>1. ParserOf(a, b, c, d) = ParserOf(t, y, g, m)
    BY <1>1
  <2> QED
    BY <2>1, ParserStatus
<1>3. Parsing!_ProcessData(ParserOf(s, x, f, n)) =
        IF t = s THEN ParserOf(t, y, g, m) ELSE Parsing!_ProcessData(ParserOf(t, y, g, m))
  BY <1>1, <1>2, RunStep
<1> QED
  BY <1>1, <1>2, <1>3

\* AcceptSomeData of a valid state.
LEMMA AcceptIs ==
  ASSUME NEW s, NEW x, NEW f, NEW n, NEW d, NEW max
  PROVE  Parsing!Accept(ParserOf(s, x, f, n), d, max) =
           IF Len(x \o d) > max THEN ParserOf(Parsing!Thrown, x \o d, f, n)
                                ELSE Parsing!_ProcessData(ParserOf(s, x \o d, f, n))
<1> DEFINE p == ParserOf(s, x, f, n)
           z == x \o d
<1>1. [p EXCEPT !.data = @ \o d] = ParserOf(s, z, f, n)
  BY DEF ParserOf
<1> HIDE DEF z
<1>2. ParserOf(s, z, f, n).data = z
  BY ParserStatus
<1>3. [ParserOf(s, z, f, n) EXCEPT !.status = Parsing!Thrown] = ParserOf(Parsing!Thrown, z, f, n)
  BY DEF ParserOf
<1> HIDE DEF p
<1> QED
  BY <1>1, <1>2, <1>3, Zenon DEF Parsing!Accept, p, z

\* A chunk more: the parser has thrown, with too much held back, or is as if
\* all had come at once.
LEMMA ChunkTaken ==
  ASSUME NEW b \in Seq(Symbols), NEW i \in 0 .. Len(b), NEW k \in 1 .. Len(b) - i, NEW max,
         NEW q, q = Parsing!Accept(Whole(Parsing!Take(b, i)), SubSeq(b, i + 1, i + k), max)
  PROVE  \/ q = Whole(Parsing!Take(b, i + k))
         \/ q.status = Parsing!Thrown /\ Len(q.data) > max
<1> DEFINE a == Parsing!Take(b, i)
           d == SubSeq(b, i + 1, i + k)
<1>1. a \in Seq(Symbols) /\ d \in Seq(Symbols)
  <2>1. d \in Seq(Symbols)
    <3>1. i + 1 \in 1 .. Len(b) + 1 /\ i + k \in 0 .. Len(b)
      OBVIOUS
    <3>2. \A j \in i + 1 .. i + k : b[j] \in Symbols
      OBVIOUS
    <3> QED
      BY <3>1, <3>2, SubSeqProperties
  <2> QED
    BY <2>1, TakeIs
<1>2. a \o d = Parsing!Take(b, i + k)
  <2>1. 1 \in 1 .. Len(b) + 1 /\ i \in 1 - 1 .. Len(b) /\ i + k \in i .. Len(b)
    OBVIOUS
  <2> QED
    BY <2>1, ConcatAdjacentSubSeq DEF Parsing!Take
<1> HIDE DEF a, d
<1>3. Chunked(Parsing!LookingForStartingBoundary, a, <<>>, 0, d)
  BY <1>1, NewValid, RunConcat
<1>4. PICK t, y, g, m :
        /\ Valid(t, y, g, m) /\ Whole(a) = ParserOf(t, y, g, m)
        /\ Parsing!_ProcessData(ParserOf(t, y \o d, g, m)) = Whole(a \o d)
  BY <1>3, Zenon DEF Chunked, Whole
<1>5. q = IF Len(y \o d) > max THEN ParserOf(Parsing!Thrown, y \o d, g, m) ELSE Whole(a \o d)
  <2>1. q = Parsing!Accept(ParserOf(t, y, g, m), d, max)
    BY <1>4, Zenon DEF a, d
  <2>2. Parsing!Accept(ParserOf(t, y, g, m), d, max) =
          IF Len(y \o d) > max THEN ParserOf(Parsing!Thrown, y \o d, g, m)
                               ELSE Parsing!_ProcessData(ParserOf(t, y \o d, g, m))
    BY AcceptIs
  <2> QED
    BY <1>4, <2>1, <2>2, Zenon
<1>6. CASE Len(y \o d) > max
  <2> DEFINE z == y \o d
  <2>1. q = ParserOf(Parsing!Thrown, z, g, m) /\ Len(z) > max
    BY <1>5, <1>6, Zenon
  <2> HIDE DEF z
  <2> QED
    BY <2>1, ParserStatus
<1>7. CASE ~(Len(y \o d) > max)
  BY <1>2, <1>5, <1>7, Zenon
<1> QED
  BY <1>6, <1>7

\* The invariant of the parser that is fed: unless it has thrown it is as if
\* all had come at once, and it throws for too much data, or where it would
\* have thrown at once.
MultipartInv ==
  /\ form \in Seq(Parsing!FormPart) /\ fed \in 0 .. Len(Parsing!Body(form))
  /\ parser.status # Parsing!Thrown => parser = Whole(Parsing!Take(Parsing!Body(form), fed))
  /\ parser.status = Parsing!Thrown =>
       \/ Len(parser.data) > MaxLength
       \/ Whole(Parsing!Take(Parsing!Body(form), fed)).status = Parsing!Thrown

\* It holds of the new parser.
LEMMA MultipartInit == Parsing!Init => MultipartInv
<1> SUFFICES ASSUME Parsing!Init PROVE MultipartInv
  OBVIOUS
<1> DEFINE b == Parsing!Body(form)
           n == ParserOf(Parsing!LookingForStartingBoundary, <<>>, <<>>, 0)
<1>1. form \in Seq(Parsing!FormPart) /\ fed = 0 /\ parser = n
  BY HttpAssumption DEF Parsing!Init, Parsing!FormsAssumption, Parsing!NewParser, ParserOf
<1>2. b \in Seq(Symbols)
  BY <1>1, BodyType
<1>3. Parsing!Take(b, 0) = <<>> /\ <<>> \in Seq(Symbols) /\ 0 \in 0 .. Len(b)
  <2> HIDE DEF b
  <2> QED
    BY <1>2 DEF Parsing!Take
<1>4. Whole(<<>>) = n
  <2>1. Valid(Parsing!LookingForStartingBoundary, <<>>, <<>>, 0)
    BY <1>3, NewValid
  <2>2. Parsing!Position(<<>>, Boundary) = -1
    <3>1. Len(<<>>) < Len(Boundary)
      BY Patterns
    <3> QED
      BY <1>3, <3>1, TooShort
  <2>3. Parsing!Process(n) = n
    <3>1. -1 < 0
      OBVIOUS
    <3> QED
      BY <2>2, <3>1, ProcessLooking
  <2> QED
    BY <2>1, <2>3, RunStays DEF Whole
<1>5. n.status # Parsing!Thrown
  BY ParserStatus, StatusesDiffer
<1> HIDE DEF b, n
<1> QED
  BY <1>1, <1>3, <1>4, <1>5, Zenon DEF MultipartInv, b

\* A chunk keeps it.
LEMMA MultipartStep == MultipartInv /\ Parsing!Next => MultipartInv'
<1> SUFFICES ASSUME MultipartInv, Parsing!Next PROVE MultipartInv'
  OBVIOUS
<1> DEFINE b == Parsing!Body(form)
<1>1. form \in Seq(Parsing!FormPart) /\ fed \in 0 .. Len(b)
  BY DEF MultipartInv
<1>2. b \in Seq(Symbols) /\ Len(b) \in Nat
  <2>1. b \in Seq(Symbols)
    BY <1>1, BodyType
  <2> HIDE DEF b
  <2> QED
    BY <2>1
<1>3. PICK k \in 1 .. Len(b) - fed :
        /\ parser' = Parsing!Accept(parser, SubSeq(b, fed + 1, fed + k), MaxLength)
        /\ fed' = fed + k
  BY DEF Parsing!Next, Parsing!AcceptSomeData
<1>4. form' = form /\ parser = Whole(Parsing!Take(b, fed))
  BY DEF Parsing!Next, Parsing!AcceptSomeData, MultipartInv
<1>5. fed + k \in 0 .. Len(b)
  <2> HIDE DEF b
  <2> QED
    BY <1>1, <1>2
<1>6. \/ parser' = Whole(Parsing!Take(b, fed'))
      \/ parser'.status = Parsing!Thrown /\ Len(parser'.data) > MaxLength
  <2> HIDE DEF b
  <2> QED
    BY <1>1, <1>2, <1>3, <1>4, ChunkTaken, Zenon
<1>7. Parsing!Body(form)' = b
  BY <1>4 DEF Parsing!Body, Parsing!PartsUpTo, Parsing!Part
<1> HIDE DEF b
<1>8. form' \in Seq(Parsing!FormPart) /\ fed' \in 0 .. Len(b)
  BY <1>1, <1>3, <1>4, <1>5
<1> QED
  BY <1>6, <1>7, <1>8 DEF MultipartInv, Whole

-----------------------------------------------------------------------------
(* Multipart: a well-formed form, part by part.                            *)

LineEnd == <<CR, LF>>

\* Positions in a concatenation.
LEMMA ConcatAt ==
  ASSUME NEW D, NEW a \in Seq(D), NEW b \in Seq(D)
  PROVE  /\ a \o b \in Seq(D) /\ Len(a \o b) = Len(a) + Len(b)
         /\ \A i \in 1 .. Len(a) : (a \o b)[i] = a[i]
         /\ \A i \in 1 .. Len(b) : (a \o b)[Len(a) + i] = b[i]
<1>1. a \o b \in Seq(D) /\ Len(a \o b) = Len(a) + Len(b)
  OBVIOUS
<1>2. \A i \in 1 .. Len(a) : (a \o b)[i] = a[i]
  OBVIOUS
<1>3. \A i \in 1 .. Len(b) : (a \o b)[Len(a) + i] = b[i]
  OBVIOUS
<1> QED
  BY <1>1, <1>2, <1>3

\* The symbols that are no part of a boundary.
LEMMA Bytes ==
  /\ CR \in Symbols /\ LF \in Symbols /\ "-" \in Symbols /\ NUL \in Symbols
  /\ CR # LF /\ NUL # CR /\ NUL # LF /\ "-" # CR
  /\ \A i \in 1 .. Len(Boundary) : Boundary[i] # CR /\ Boundary[i] # LF
  /\ LineEnd \in Seq(Symbols) /\ Len(LineEnd) = 2 /\ LineEnd[1] = CR /\ LineEnd[2] = LF
<1>1. /\ CR \in Symbols /\ LF \in Symbols /\ "-" \in Symbols /\ NUL \in Symbols
      /\ CR # LF /\ NUL # CR /\ NUL # LF /\ "-" # CR
  BY HttpAssumption DEF Parsing!BoundaryAssumption
<1>2. \A i \in 1 .. Len(Boundary) : Boundary[i] # CR /\ Boundary[i] # LF
  <2>1. DOMAIN Boundary = 1 .. Len(Boundary)
    BY Patterns
  <2> QED
    BY <2>1, HttpAssumption, Zenon DEF Parsing!BoundaryAssumption
<1>3. LineEnd \in Seq(Symbols) /\ Len(LineEnd) = 2 /\ LineEnd[1] = CR /\ LineEnd[2] = LF
  BY <1>1 DEF LineEnd
<1> QED
  BY <1>1, <1>2, <1>3

\* A boundary at the front is found there.
LEMMA BoundaryFirst ==
  ASSUME NEW r \in Seq(Symbols)
  PROVE  Parsing!Position(Boundary \o r, Boundary) = 0
<1> DEFINE x == Boundary \o r
<1>1. x \in Seq(Symbols) /\ Len(x) = Len(Boundary) + Len(r)
  BY Patterns, ConcatAt
<1>2. \A i \in 1 .. Len(Boundary) : x[i] = Boundary[i]
  BY Patterns, ConcatAt
<1>3. Len(r) \in Nat /\ Len(Boundary) \in Nat
  BY Patterns
<1> HIDE DEF x
<1>4. Occurs(x, Boundary, 0)
  BY <1>1, <1>2, <1>3 DEF Occurs
<1>5. \A i \in Nat : 0 <= i
  OBVIOUS
<1>6. Parsing!Position(x, Boundary) = 0
  BY <1>1, <1>4, <1>5, Patterns, PositionIs
<1> QED
  BY <1>6 DEF x

\* Behind a content without a boundary and a line end, the boundary that
\* follows is the first: no other one can reach into the line end.
LEMMA BoundaryNext ==
  ASSUME NEW c \in Seq(Symbols), Parsing!Position(c, Boundary) < 0, NEW r \in Seq(Symbols)
  PROVE  Parsing!Position(c \o (LineEnd \o (Boundary \o r)), Boundary) = Len(c) + 2
<1> DEFINE u == Boundary \o r
           v == LineEnd \o u
           x == c \o v
           L == Len(Boundary)
           C == Len(c)
<1>1. C \in Nat /\ L \in Nat /\ Len(r) \in Nat /\ L > 0
  BY Patterns
<1>2. u \in Seq(Symbols) /\ Len(u) = L + Len(r) /\ \A i \in 1 .. L : u[i] = Boundary[i]
  BY Patterns, ConcatAt
<1> HIDE DEF u
<1>3. /\ v \in Seq(Symbols) /\ Len(v) = 2 + Len(u)
      /\ v[1] = CR /\ v[2] = LF /\ \A i \in 1 .. Len(u) : v[2 + i] = u[i]
  <2>1. /\ v \in Seq(Symbols) /\ Len(v) = Len(LineEnd) + Len(u)
        /\ \A i \in 1 .. Len(LineEnd) : v[i] = LineEnd[i]
        /\ \A i \in 1 .. Len(u) : v[Len(LineEnd) + i] = u[i]
    <3>1. LineEnd \in Seq(Symbols) /\ u \in Seq(Symbols)
      BY <1>2, Bytes
    <3>2. v \in Seq(Symbols) /\ Len(v) = Len(LineEnd) + Len(u)
      BY <3>1
    <3>3. \A i \in 1 .. Len(LineEnd) : v[i] = LineEnd[i]
      BY <3>1
    <3>4. \A i \in 1 .. Len(u) : v[Len(LineEnd) + i] = u[i]
      BY <3>1
    <3> QED
      BY <3>2, <3>3, <3>4
  <2> HIDE DEF v
  <2> QED
    BY <2>1, Bytes
<1> HIDE DEF v
<1>4. /\ x \in Seq(Symbols) /\ Len(x) = C + Len(v)
      /\ \A i \in 1 .. Len(v) : x[C + i] = v[i]
  <2>0. v \in Seq(Symbols)
    BY <1>3
  <2>1. x \in Seq(Symbols) /\ Len(x) = C + Len(v)
    BY <2>0
  <2>2. \A i \in 1 .. Len(v) : x[C + i] = v[i]
    BY <2>0
  <2> QED
    BY <2>1, <2>2
<1>5. /\ Len(x) = C + 2 + L + Len(r) /\ x[C + 1] = CR /\ x[C + 2] = LF
      /\ \A i \in 1 .. L : x[C + 2 + i] = Boundary[i]
  <2> HIDE DEF x, L, C
  <2>1. Len(x) = C + 2 + L + Len(r)
    BY <1>1, <1>2, <1>3, <1>4
  <2>2. x[C + 1] = CR /\ x[C + 2] = LF
    BY <1>1, <1>2, <1>3, <1>4
  <2>3. ASSUME NEW i \in 1 .. L PROVE x[C + 2 + i] = Boundary[i]
    <3>1. i \in 1 .. Len(u) /\ 2 + i \in 1 .. Len(v)
      BY <1>1, <1>2, <1>3
    <3>2. x[C + (2 + i)] = Boundary[i]
      BY <1>2, <1>3, <1>4, <3>1
    <3>3. C + (2 + i) = C + 2 + i
      BY <1>1
    <3> QED
      BY <3>2, <3>3
  <2> QED
    BY <2>1, <2>2, <2>3
<1>6. Occurs(x, Boundary, C + 2)
  <2> HIDE DEF x, C
  <2> QED
    BY <1>1, <1>5 DEF Occurs
<1>7. ASSUME NEW i \in Nat, Occurs(x, Boundary, i) PROVE C + 2 <= i
  <2> SUFFICES ASSUME i < C + 2 PROVE FALSE
    BY <1>1
  <2>1. \A k \in 1 .. L : x[i + k] = Boundary[k]
    BY <1>7 DEF Occurs
  <2>2. \A k \in 1 .. L : Boundary[k] # CR /\ Boundary[k] # LF
    BY Bytes
  <2>3. CASE i + L <= C
    <3>1. Occurs(c, Boundary, i)
      BY <1>3, <1>7, <2>3, Patterns, OccursConcat
    <3>2. Parsing!Position(c, Boundary) >= 0
      BY <3>1, Patterns, PositionFirst
    <3> HIDE DEF x, L, C
    <3>3. PICK at : at = Parsing!Position(c, Boundary)
      OBVIOUS
    <3>4. at = -1 \/ at \in Nat
      BY <3>3, PlaceType
    <3> QED
      BY <3>2, <3>3, <3>4
  <2>4. CASE i + L > C /\ i <= C
    <3> HIDE DEF x, L, C
    <3>1. C + 1 - i \in 1 .. L /\ i + (C + 1 - i) = C + 1
      BY <1>1, <2>4
    <3> QED
      BY <1>5, <2>1, <2>2, <3>1
  <2>5. CASE i = C + 1
    <3> HIDE DEF x, L, C
    <3>1. 1 \in 1 .. L /\ i + 1 = C + 2
      BY <1>1, <2>5
    <3> QED
      BY <1>5, <2>1, <2>2, <3>1
  <2> HIDE DEF x, L, C
  <2> QED
    BY <1>1, <2>3, <2>4, <2>5
<1>8. C + 2 \in Nat
  BY <1>1
<1> HIDE DEF x, C
<1>9. Parsing!Position(x, Boundary) = C + 2
  BY <1>4, <1>6, <1>7, <1>8, Patterns, PositionIs
<1> QED
  BY <1>9 DEF x, v, u, C

\* WaitForHeadersEnd reads the headers of a part.
LEMMA OpeningRead ==
  ASSUME NEW h \in DOMAIN FieldOf, NEW r \in Seq(Symbols), NEW f, NEW n
  PROVE  Parsing!Process(ParserOf(Parsing!ProcessingHeaders, Opening(h) \o r, f, n)) =
           ParserOf(Parsing!ProcessingContentOfTheField, r, WithField(f, FieldOf[h]), FieldOf[h].name)
<1> DEFINE o == Opening(h)
           x == o \o r
           hs == <<CR, LF, h>>
<1>1. h \in Symbols /\ h # CR /\ h # LF /\ h # NUL
  BY HttpAssumption DEF Parsing!BoundaryAssumption
<1>2. o \in Seq(Symbols) /\ Len(o) = 7
  BY <1>1, Bytes DEF Opening
<1>3. o[1] = CR /\ o[2] = LF /\ o[3] = h /\ o[4] = CR /\ o[5] = LF /\ o[6] = CR /\ o[7] = LF
  BY DEF Opening
<1> HIDE DEF o
<1>4. Parsing!Position(o, EndOfHeaders) = 3
  <2>1. EndOfHeaders[1] = CR /\ EndOfHeaders[2] = LF /\ EndOfHeaders[3] = CR /\ EndOfHeaders[4] = LF
    BY DEF EndOfHeaders
  <2>2. Occurs(o, EndOfHeaders, 3)
    <3>1. Len(EndOfHeaders) = 4
      BY Patterns
    <3>2. ASSUME NEW k \in 1 .. 4 PROVE o[3 + k] = EndOfHeaders[k]
      <4>1. k = 1 \/ k = 2 \/ k = 3 \/ k = 4
        OBVIOUS
      <4> QED
        BY <1>3, <2>1, <4>1
    <3> QED
      BY <1>2, <3>1, <3>2 DEF Occurs
  <2>3. ASSUME NEW i \in Nat, Occurs(o, EndOfHeaders, i) PROVE 3 <= i
    <3>1. 1 \in 1 .. Len(EndOfHeaders)
      BY Patterns
    <3>2. o[i + 1] = CR
      BY <2>1, <2>3, <3>1 DEF Occurs
    <3>3. 3 \in 1 .. Len(EndOfHeaders) /\ o[i + 3] = CR
      BY <2>1, <2>3, Patterns DEF Occurs
    <3>4. i # 0 /\ i # 1 /\ i # 2
      BY <1>1, <1>3, <3>2, <3>3, Bytes
    <3> QED
      BY <3>4
  <2> QED
    BY <1>2, <2>2, <2>3, Patterns, PositionIs
<1>5. x \in Seq(Symbols) /\ Parsing!Position(x, EndOfHeaders) = 3
  <2>1. x \in Seq(Symbols)
    BY <1>2, ConcatProperties
  <2>2. Parsing!Position(o, EndOfHeaders) >= 0
    BY <1>4
  <2> QED
    BY <1>2, <1>4, <2>1, <2>2, Patterns, PositionConcat
<1>6. Parsing!Drop(x, 3 + 4) = r
  <2>1. Parsing!Drop(x, Len(o)) = r
    BY <1>2, DropAll
  <2> QED
    BY <1>2, <2>1
<1>7. Parsing!Take(x, 3) = hs
  <2>0. 3 \in 0 .. Len(o)
    BY <1>2
  <2>1. Parsing!Take(x, 3) = Parsing!Take(o, 3)
    BY <1>2, <2>0, DropConcat
  <2>2. /\ Parsing!Take(o, 3) \in Seq(Symbols) /\ Len(Parsing!Take(o, 3)) = 3
        /\ \A i \in 1 .. 3 : Parsing!Take(o, 3)[i] = o[i]
    BY <1>2, <2>0, TakeIs
  <2>3. PICK z : z = Parsing!Take(o, 3)
    OBVIOUS
  <2>4. z \in Seq(Symbols) /\ Len(z) = 3 /\ z[1] = CR /\ z[2] = LF /\ z[3] = h
    BY <1>3, <2>2, <2>3
  <2>5. z = hs
    BY <1>1, <2>4
  <2> QED
    BY <2>1, <2>3, <2>5
<1>8. HeadersIn(x) = hs
  <2>1. hs \in Seq(Symbols) /\ Len(hs) = 3 /\ <<NUL>> \in Seq(Symbols) /\ Len(<<NUL>>) = 1 /\ <<NUL>>[1] = NUL
    BY <1>1, Bytes
  <2>2. hs[1] # NUL /\ hs[2] # NUL /\ hs[3] # NUL
    BY <1>1, Bytes
  <2>3. PICK y, z : y = hs /\ z = <<NUL>>
    OBVIOUS
  <2>4. ASSUME NEW i \in Nat, Occurs(y, z, i) PROVE FALSE
    <3>1. i + 1 <= 3 /\ y[i + 1] = NUL
      BY <2>1, <2>3, <2>4 DEF Occurs
    <3>2. i = 0 \/ i = 1 \/ i = 2
      BY <3>1
    <3> QED
      BY <2>2, <2>3, <3>1, <3>2
  <2>5. Parsing!Position(y, z) = -1
    BY <2>1, <2>3, <2>4, PositionNone
  <2>6. Parsing!CString(y) = y
    <3>1. -1 < 0
      OBVIOUS
    <3> QED
      BY <2>3, <2>5, <3>1 DEF Parsing!CString
  <2> QED
    BY <1>5, <1>7, <2>3, <2>6 DEF HeadersIn
<1>9. Named(hs) = {3} /\ FieldIn(hs) = FieldOf[h]
  <2>1. DOMAIN hs = 1 .. 3 /\ hs[1] = CR /\ hs[2] = LF /\ hs[3] = h
    OBVIOUS
  <2>2. CR \notin DOMAIN FieldOf /\ LF \notin DOMAIN FieldOf
    BY HttpAssumption DEF Parsing!BoundaryAssumption
  <2>3. Named(hs) = {3}
    <3> HIDE DEF hs
    <3>1. ASSUME NEW i \in Named(hs) PROVE i = 3
      <4>1. i \in 1 .. 3 /\ hs[i] \in DOMAIN FieldOf
        BY <2>1, <3>1 DEF Named
      <4>2. i = 1 \/ i = 2 \/ i = 3
        BY <4>1
      <4> QED
        BY <2>1, <2>2, <4>1, <4>2
    <3>2. 3 \in Named(hs)
      BY <2>1 DEF Named
    <3> QED
      BY <3>1, <3>2
  <2>4. (CHOOSE i \in {3} : \A j \in {3} : i <= j) = 3
    OBVIOUS
  <2>5. FieldIn(hs) = FieldOf[hs[3]]
    <3> HIDE DEF hs
    <3> QED
      BY <2>3, <2>4, Zenon DEF FieldIn
  <2> QED
    BY <2>1, <2>3, <2>5
<1>10. Named(HeadersIn(x)) # {} /\ FieldIn(HeadersIn(x)) = FieldOf[h]
  BY <1>8, <1>9
<1> HIDE DEF x
<1>11. Parsing!Process(ParserOf(Parsing!ProcessingHeaders, x, f, n)) =
         IF 3 < 0 THEN ParserOf(Parsing!ProcessingHeaders, x, f, n)
         ELSE IF Named(HeadersIn(x)) = {} THEN ParserOf(Parsing!Thrown, x, f, n)
         ELSE ParserOf(Parsing!ProcessingContentOfTheField, Parsing!Drop(x, 3 + 4),
                       WithField(f, FieldIn(HeadersIn(x))), FieldIn(HeadersIn(x)).name)
  BY <1>5, ProcessHeaders
<1>12. ~(3 < 0)
  OBVIOUS
<1> QED
  BY <1>6, <1>10, <1>11, <1>12, Zenon DEF x, o

\* ProcessContentOfTheField reads the content of a part.
LEMMA ContentRead ==
  ASSUME NEW c \in Seq(Symbols), Parsing!Position(c, Boundary) < 0, NEW r \in Seq(Symbols),
         NEW f, NEW n, f[n] \in FieldType
  PROVE  Parsing!Process(ParserOf(Parsing!ProcessingContentOfTheField,
                                  c \o (LineEnd \o (Boundary \o r)), f, n)) =
           ParserOf(Parsing!LookingForStartingBoundary, LineEnd \o (Boundary \o r), Accepted(f, n, c), n)
<1> DEFINE v == LineEnd \o (Boundary \o r)
           x == c \o v
<1>1. v \in Seq(Symbols)
  <2>1. Boundary \o r \in Seq(Symbols)
    BY Patterns, ConcatProperties
  <2> DEFINE u == Boundary \o r
  <2> HIDE DEF u
  <2>2. LineEnd \o u \in Seq(Symbols)
    BY <2>1, Bytes, ConcatProperties DEF u
  <2> QED
    BY <2>2 DEF u
<1>2. PICK at : at = Parsing!Position(x, Boundary) /\ at = Len(c) + 2
  BY BoundaryNext
<1> HIDE DEF v
<1>3. x \in Seq(Symbols) /\ Len(c) \in Nat
  BY <1>1, ConcatProperties
<1>4. Parsing!Drop(x, Len(c)) = v /\ Parsing!Take(x, Len(c)) = c
  BY <1>1, DropAll
<1> HIDE DEF x
<1>5. ToField(x, at) = Len(c) /\ at >= 0
  BY <1>2, <1>3 DEF ToField
<1>6. Left(x, Len(c)) = v /\ Sent(x, Len(c)) = c
  <2>1. CASE Len(c) > 0
    BY <1>4, <2>1, Zenon DEF Left, Sent
  <2>2. CASE ~(Len(c) > 0)
    <3>1. c = <<>>
      BY <1>3, <2>2, EmptySeq
    <3>2. x = v
      BY <1>1, <3>1 DEF x
    <3> QED
      BY <2>2, <3>1, <3>2, Zenon DEF Left, Sent
  <2> QED
    BY <2>1, <2>2
<1>7. f[n].content \in Seq(Symbols)
  BY DEF FieldType
<1>8. Parsing!Process(ParserOf(Parsing!ProcessingContentOfTheField, x, f, n)) =
        ParserOf(IF at >= 0 THEN Parsing!LookingForStartingBoundary
                            ELSE Parsing!ProcessingContentOfTheField,
                 Left(x, ToField(x, at)), Accepted(f, n, Sent(x, ToField(x, at))), n)
  BY <1>2, <1>3, <1>7, ProcessContent, Zenon
<1> QED
  BY <1>5, <1>6, <1>8, Zenon DEF x, v

\* FindStartingBoundary finds a boundary at the front, or behind a line end.
LEMMA BoundaryRead ==
  ASSUME NEW r \in Seq(Symbols), NEW f, NEW n, NEW z,
         z = Boundary \o r \/ z = LineEnd \o (Boundary \o r)
  PROVE  Parsing!Process(ParserOf(Parsing!LookingForStartingBoundary, z, f, n)) =
           ParserOf(Parsing!ProcessingHeaders, r, f, n)
<1> DEFINE u == Boundary \o r
<1>1. u \in Seq(Symbols) /\ Len(Boundary) \in Nat /\ Parsing!Drop(u, Len(Boundary)) = r
  BY Patterns, ConcatProperties, DropAll
<1>2. PICK at \in Nat : at = Parsing!Position(z, Boundary) /\ Parsing!Drop(z, at + Len(Boundary)) = r
  <2>1. CASE z = u
    <3>1. Parsing!Position(u, Boundary) = 0
      BY BoundaryFirst
    <3> HIDE DEF u
    <3>2. 0 + Len(Boundary) = Len(Boundary) /\ 0 \in Nat
      BY <1>1
    <3> QED
      BY <1>1, <2>1, <3>1, <3>2
  <2>2. CASE z = LineEnd \o u
    <3>1. <<>> \in Seq(Symbols) /\ Len(<<>>) = 0 /\ Len(<<>>) < Len(Boundary)
      BY Patterns
    <3>2. Parsing!Position(<<>>, Boundary) < 0
      <4>1. Parsing!Position(<<>>, Boundary) = -1
        BY <3>1, TooShort
      <4> QED
        BY <4>1
    <3>3. Parsing!Position(<<>> \o (LineEnd \o u), Boundary) = Len(<<>>) + 2
      BY <3>1, <3>2, BoundaryNext
    <3> HIDE DEF u
    <3>4. z \in Seq(Symbols)
      BY <1>1, <2>2, Bytes, ConcatProperties
    <3>5. <<>> \o z = z
      BY <3>4
    <3>6. Parsing!Position(z, Boundary) = 2
      BY <2>2, <3>1, <3>3, <3>5
    <3>7. Parsing!Drop(z, 2) = u
      <4>1. Len(LineEnd) = 2 /\ LineEnd \in Seq(Symbols)
        BY Bytes
      <4>2. Parsing!Drop(z, Len(LineEnd)) = u
        BY <1>1, <2>2, <4>1, DropAll
      <4> QED
        BY <4>1, <4>2
    <3>8. Parsing!Drop(z, 2 + Len(Boundary)) = r
      <4>1. 2 + Len(Boundary) <= Len(z)
        <5>1. PICK at : at = Parsing!Position(z, Boundary)
          OBVIOUS
        <5>2. at = -1 \/ (at \in Nat /\ at + Len(Boundary) <= Len(z))
          BY <3>4, <5>1, PlaceType
        <5> QED
          BY <3>6, <5>1, <5>2
      <4>2. Parsing!Drop(Parsing!Drop(z, 2), Len(Boundary)) = Parsing!Drop(z, 2 + Len(Boundary))
        BY <1>1, <3>4, <4>1, TakeTwice
      <4> QED
        BY <1>1, <3>7, <4>2
    <3> QED
      BY <3>6, <3>8
  <2> QED
    BY <2>1, <2>2
<1>3. Parsing!Process(ParserOf(Parsing!LookingForStartingBoundary, z, f, n)) =
        IF at < 0 THEN ParserOf(Parsing!LookingForStartingBoundary, z, f, n)
        ELSE ParserOf(Parsing!ProcessingHeaders, Parsing!Drop(z, at + Len(Boundary)), f, n)
  BY <1>2, ProcessLooking
<1>4. ~(at < 0)
  OBVIOUS
<1> QED
  BY <1>2, <1>3, <1>4, Zenon

\* The name of the i-th part of a form, the last of the first i parts with the
\* name n, and the fields that these parts make.
NameOf(f, i) == FieldOf[f[i].header].name
LastIn(f, i, n) == CHOOSE j \in 1 .. i : NameOf(f, j) = n /\ \A k \in 1 .. i : NameOf(f, k) = n => k <= j
FieldsUpTo(f, i) ==
  [n \in {NameOf(f, j) : j \in 1 .. i} |->
     [type |-> FieldOf[f[LastIn(f, i, n)].header].type, content |-> f[LastIn(f, i, n)].content]]

\* All parts make the fields of the form.
LEMMA FieldsAll ==
  ASSUME NEW f \in Seq(Parsing!FormPart)
  PROVE  FieldsUpTo(f, Len(f)) = Parsing!Fields(f)
<1>1. DOMAIN f = 1 .. Len(f)
  OBVIOUS
<1> QED
  BY <1>1, Zenon DEF FieldsUpTo, LastIn, NameOf, Parsing!Fields

\* No part makes no field.
LEMMA FieldsNone ==
  ASSUME NEW f
  PROVE  FieldsUpTo(f, 0) = <<>>
<1>1. {NameOf(f, j) : j \in 1 .. 0} = {}
  OBVIOUS
<1> DEFINE g == FieldsUpTo(f, 0)
<1>2. DOMAIN g = {}
  BY <1>1, Zenon DEF FieldsUpTo
<1>3. g = [n \in DOMAIN g |-> g[n]]
  BY Zenon DEF FieldsUpTo
<1>4. g = [n \in {} |-> g[n]]
  BY <1>2, <1>3, Zenon
<1> HIDE DEF g
<1>5. g = <<>>
  <2>1. g \in [1 .. 0 -> {0}]
    <3>1. 1 .. 0 = {}
      OBVIOUS
    <3> QED
      BY <1>4, <3>1
  <2>2. g \in Seq({0}) /\ Len(g) = 0
    BY <2>1
  <2> QED
    BY <2>2, EmptySeq
<1> QED
  BY <1>5 DEF g

\* There is a last one.
LEMMA LastInIs ==
  ASSUME NEW f, NEW i \in Nat, NEW l \in 1 .. i, NEW n, NameOf(f, l) = n,
         \A k \in 1 .. i : NameOf(f, k) = n => k <= l
  PROVE  LastIn(f, i, n) = l
<1> DEFINE Q(j) == j \in 1 .. i /\ NameOf(f, j) = n /\ \A k \in 1 .. i : NameOf(f, k) = n => k <= j
<1>1. Q(l)
  OBVIOUS
<1>2. ASSUME NEW j, Q(j) PROVE j = l
  <2>1. l <= j /\ j <= l /\ j \in Int
    BY <1>2
  <2> QED
    BY <2>1
<1>3. LastIn(f, i, n) = CHOOSE j : Q(j)
  BY Zenon DEF LastIn
<1> HIDE DEF Q
<1>4. Q(CHOOSE j : Q(j))
  BY <1>1, Zenon
<1> QED
  BY <1>2, <1>3, <1>4, Zenon

\* The part i more: its field is new or replaces one.
LEMMA FieldsMore ==
  ASSUME NEW f \in Seq(Parsing!FormPart), NEW i \in 1 .. Len(f), f[i].header \in DOMAIN FieldOf,
         NEW g, g = WithField(FieldsUpTo(f, i - 1), FieldOf[f[i].header])
  PROVE  /\ NameOf(f, i) \in DOMAIN g /\ g[NameOf(f, i)] \in FieldType
         /\ Accepted(g, NameOf(f, i), f[i].content) = FieldsUpTo(f, i)
<1> DEFINE nm == NameOf(f, i)
           ty == FieldOf[f[i].header].type
           a == f[i].content
           e == FieldsUpTo(f, i - 1)
           N(k) == {NameOf(f, j) : j \in 1 .. k}
<1>1. ty \in {"text", "file"} /\ a \in Seq(Symbols)
  <2>1. f[i] \in Parsing!FormPart
    OBVIOUS
  <2>2. a \in Seq(Symbols)
    BY <2>1, Pieces
  <2> QED
    BY <2>2, HttpAssumption DEF Parsing!BoundaryAssumption
<1>2. /\ DOMAIN g = DOMAIN e \cup {nm}
      /\ g[nm] = [type |-> ty, content |-> <<>>]
      /\ \A n \in DOMAIN e : n # nm => g[n] = e[n]
  BY DEF WithField, NameOf
<1>3. nm \in DOMAIN g /\ g[nm] \in FieldType
  <2>1. <<>> \in Seq(Symbols)
    BY EmptySeq
  <2>2. [type |-> ty, content |-> <<>>] \in FieldType
    <3> HIDE DEF ty
    <3> QED
      BY <1>1, <2>1 DEF FieldType
  <2> QED
    BY <1>2, <2>2
<1> DEFINE w == Accepted(g, nm, a)
           x == FieldsUpTo(f, i)
<1>4. DOMAIN e = N(i - 1) /\ DOMAIN x = N(i)
  BY Zenon DEF FieldsUpTo
<1>5. N(i) = N(i - 1) \cup {nm}
  <2>1. ASSUME NEW j \in 1 .. i PROVE NameOf(f, j) \in N(i - 1) \cup {nm}
    <3>1. j \in 1 .. i - 1 \/ j = i
      OBVIOUS
    <3> QED
      BY <3>1, Zenon
  <2>2. \A j \in 1 .. i - 1 : j \in 1 .. i
    OBVIOUS
  <2>3. i \in 1 .. i
    OBVIOUS
  <2> QED
    BY <2>1, <2>2, <2>3, Zenon
<1>6. /\ DOMAIN w = DOMAIN g
      /\ w[nm] = [type |-> g[nm].type, content |-> g[nm].content \o a]
      /\ \A m \in DOMAIN g : m # nm => w[m] = g[m]
  BY <1>1, <1>3, AcceptedIs, Zenon
<1>7. w[nm] = [type |-> ty, content |-> a]
  <2>1. g[nm].type = ty /\ g[nm].content = <<>>
    <3> HIDE DEF ty, nm
    <3> QED
      BY <1>2
  <2>2. <<>> \o a = a
    BY <1>1
  <2> QED
    BY <1>6, <2>1, <2>2, Zenon
<1>8. ASSUME NEW n \in N(i) PROVE w[n] = x[n]
  <2>1. x[n] = [type |-> FieldOf[f[LastIn(f, i, n)].header].type, content |-> f[LastIn(f, i, n)].content]
    BY <1>8, Zenon DEF FieldsUpTo
  <2>2. CASE n = nm
    <3>1. LastIn(f, i, n) = i
      <4>1. i \in Nat /\ i \in 1 .. i /\ \A k \in 1 .. i : k <= i
        OBVIOUS
      <4> QED
        BY <2>2, <4>1, LastInIs
    <3> QED
      BY <1>7, <2>1, <2>2, <3>1, Zenon
  <2>3. CASE n # nm
    <3>1. n \in N(i - 1)
      BY <1>5, <2>3, Zenon
    <3>2. e[n] = [type |-> FieldOf[f[LastIn(f, i - 1, n)].header].type, content |-> f[LastIn(f, i - 1, n)].content]
      BY <3>1, Zenon DEF FieldsUpTo
    <3>3. LastIn(f, i - 1, n) = LastIn(f, i, n)
      <4>1. PICK j \in 1 .. i - 1 : NameOf(f, j) = n
        BY <3>1, Zenon
      <4> DEFINE T == {k \in 1 .. i - 1 : NameOf(f, k) = n}
      <4>2. PICK l \in T : \A k \in T : k <= l
        <5>1. i - 1 \in Nat /\ T \subseteq 1 .. i - 1 /\ T # {}
          BY <4>1
        <5> HIDE DEF T
        <5> QED
          BY <5>1, NatMax
      <4>3. l \in 1 .. i - 1 /\ l \in 1 .. i /\ NameOf(f, l) = n /\ i - 1 \in Nat /\ i \in Nat
        OBVIOUS
      <4>4. \A k \in 1 .. i - 1 : NameOf(f, k) = n => k <= l
        BY <4>2
      <4>5. \A k \in 1 .. i : NameOf(f, k) = n => k <= l
        <5>1. \A k \in 1 .. i : k \in 1 .. i - 1 \/ k = i
          OBVIOUS
        <5> QED
          BY <2>3, <4>4, <5>1, Zenon
      <4>6. LastIn(f, i - 1, n) = l
        BY <4>3, <4>4, LastInIs
      <4>7. LastIn(f, i, n) = l
        BY <4>3, <4>5, LastInIs
      <4> QED
        BY <4>6, <4>7
    <3>4. w[n] = e[n]
      BY <1>2, <1>4, <1>6, <2>3, <3>1, Zenon
    <3> QED
      BY <2>1, <3>2, <3>3, <3>4, Zenon
  <2> QED
    BY <2>2, <2>3
<1>9. w = x
  <2>1. w = [n \in DOMAIN w |-> w[n]]
    <3>1. g = [n \in DOMAIN g |-> g[n]]
      BY Zenon DEF WithField
    <3> QED
      BY <3>1 DEF Accepted
  <2>2. x = [n \in DOMAIN x |-> x[n]]
    BY Zenon DEF FieldsUpTo
  <2>3. DOMAIN w = N(i) /\ DOMAIN x = N(i)
    BY <1>2, <1>4, <1>5, <1>6, Zenon
  <2> HIDE DEF w, x, N
  <2> QED
    BY <1>8, <2>1, <2>2, <2>3, Zenon
<1> QED
  BY <1>3, <1>9

\* What follows when the first i parts have been read.
NameUpTo(f, i) == IF i = 0 THEN 0 ELSE NameOf(f, i)

\* Behind the first i parts, and the boundary that follows them, the parser
\* waits for headers with the fields of these parts.
ReadUpTo(f, i) ==
  \A r \in Seq(Symbols) :
    Whole(Parsing!PartsUpTo(f)[i] \o (Boundary \o r)) =
      Parsing!_ProcessData(ParserOf(Parsing!ProcessingHeaders, r, FieldsUpTo(f, i), NameUpTo(f, i)))

\* Before the first part there is only the boundary.
LEMMA ReadNone ==
  ASSUME NEW f \in Seq(Parsing!FormPart)
  PROVE  ReadUpTo(f, 0)
<1> SUFFICES ASSUME NEW r \in Seq(Symbols)
             PROVE  Whole(Parsing!PartsUpTo(f)[0] \o (Boundary \o r)) =
                      Parsing!_ProcessData(ParserOf(Parsing!ProcessingHeaders, r, FieldsUpTo(f, 0), NameUpTo(f, 0)))
  BY DEF ReadUpTo
<1> DEFINE u == Boundary \o r
<1>1. u \in Seq(Symbols)
  BY Patterns, ConcatProperties
<1>2. Parsing!Process(ParserOf(Parsing!LookingForStartingBoundary, u, <<>>, 0)) =
        ParserOf(Parsing!ProcessingHeaders, r, <<>>, 0)
  BY BoundaryRead
<1> HIDE DEF u
<1>3. Parsing!PartsUpTo(f)[0] \o u = u
  <2>1. Parsing!PartsUpTo(f)[0] = <<>>
    BY PartsIs
  <2>2. <<>> \o u = u
    BY <1>1
  <2> QED
    BY <2>1, <2>2, Zenon
<1>4. Parsing!_ProcessData(ParserOf(Parsing!LookingForStartingBoundary, u, <<>>, 0)) =
        Parsing!_ProcessData(ParserOf(Parsing!ProcessingHeaders, r, <<>>, 0))
  BY <1>1, <1>2, NewValid, StatusesDiffer, RunGoes
<1>5. FieldsUpTo(f, 0) = <<>> /\ NameUpTo(f, 0) = 0
  BY FieldsNone DEF NameUpTo
<1> QED
  BY <1>3, <1>4, <1>5, Zenon DEF Whole, u

\* Concatenation is associative.
LEMMA ConcatThree ==
  \A a, b, c \in Seq(Symbols) : (a \o b) \o c = a \o (b \o c)
BY ConcatAssociative

\* The part of a form and all that follows.
LEMMA PartThen ==
  ASSUME NEW P \in Seq(Symbols), NEW q \in Parsing!FormPart, NEW u \in Seq(Symbols)
  PROVE  /\ q.content \o (LineEnd \o u) \in Seq(Symbols)
         /\ Opening(q.header) \o (q.content \o (LineEnd \o u)) \in Seq(Symbols)
         /\ (P \o Parsing!Part(q)) \o u
              = P \o (Boundary \o (Opening(q.header) \o (q.content \o (LineEnd \o u))))
<1> DEFINE o == Opening(q.header)
           c == q.content
           B == Boundary
           l == LineEnd
<1>1. o \in Seq(Symbols) /\ c \in Seq(Symbols) /\ B \in Seq(Symbols) /\ l \in Seq(Symbols)
  BY Pieces, Patterns, Bytes
<1>2. Parsing!Part(q) = ((B \o o) \o c) \o l
  BY DEF Parsing!Part, Opening, LineEnd
<1> HIDE DEF o, c, B, l
<1>3. B \o o \in Seq(Symbols) /\ l \o u \in Seq(Symbols)
  BY <1>1, ConcatProperties
<1>4. PICK bo, lu : bo \in Seq(Symbols) /\ lu \in Seq(Symbols) /\ bo = B \o o /\ lu = l \o u
  BY <1>3
<1>5. bo \o c \in Seq(Symbols) /\ c \o lu \in Seq(Symbols)
  BY <1>1, <1>4, ConcatProperties
<1>6. PICK boc, clu : boc \in Seq(Symbols) /\ clu \in Seq(Symbols) /\ boc = bo \o c /\ clu = c \o lu
  BY <1>5
<1>7. boc \o l \in Seq(Symbols) /\ o \o clu \in Seq(Symbols)
  BY <1>1, <1>6, ConcatProperties
<1>8. PICK bocl : bocl \in Seq(Symbols) /\ bocl = boc \o l
  BY <1>7
<1>9. /\ bo \in Seq(Symbols) /\ lu \in Seq(Symbols) /\ bocl \in Seq(Symbols)
      /\ boc \in Seq(Symbols) /\ clu \in Seq(Symbols)
  BY <1>4, <1>6, <1>8
<1>10. (P \o bocl) \o u = P \o (bocl \o u)
  BY <1>9, ConcatThree, Zenon
<1>11. (boc \o l) \o u = boc \o (l \o u)
  <2>1. boc \in Seq(Symbols) /\ l \in Seq(Symbols) /\ u \in Seq(Symbols)
    BY <1>1, <1>9
  <2> QED
    BY <2>1, ConcatThree, Zenon
<1>12. (bo \o c) \o lu = bo \o (c \o lu)
  <2>1. bo \in Seq(Symbols) /\ c \in Seq(Symbols) /\ lu \in Seq(Symbols)
    BY <1>1, <1>9
  <2> QED
    BY <2>1, ConcatThree, Zenon
<1>13. (B \o o) \o clu = B \o (o \o clu)
  <2>1. B \in Seq(Symbols) /\ o \in Seq(Symbols) /\ clu \in Seq(Symbols)
    BY <1>1, <1>9
  <2> QED
    BY <2>1, ConcatThree, Zenon
<1>14. (P \o bocl) \o u = P \o (B \o (o \o clu))
  BY <1>4, <1>6, <1>8, <1>10, <1>11, <1>12, <1>13, Zenon
<1> QED
  BY <1>2, <1>4, <1>6, <1>7, <1>8, <1>14, Zenon DEF o, c, B, l

\* A part more is read in three rounds.
LEMMA ReadMore ==
  ASSUME NEW f \in Seq(Parsing!FormPart), Parsing!WellFormed(f), NEW i \in 1 .. Len(f), ReadUpTo(f, i - 1)
  PROVE  ReadUpTo(f, i)
<1> SUFFICES ASSUME NEW r \in Seq(Symbols)
             PROVE  Whole(Parsing!PartsUpTo(f)[i] \o (Boundary \o r)) =
                      Parsing!_ProcessData(ParserOf(Parsing!ProcessingHeaders, r, FieldsUpTo(f, i), NameUpTo(f, i)))
  BY DEF ReadUpTo
<1> DEFINE P == Parsing!PartsUpTo(f)
           q == f[i]
           c == q.content
           h == q.header
           u == Boundary \o r
           e == LineEnd \o u
           x == c \o e
           y == Opening(h) \o x
           F == FieldsUpTo(f, i - 1)
           G == WithField(F, FieldOf[h])
           m == NameUpTo(f, i - 1)
           n == NameOf(f, i)
<1>1. q \in Parsing!FormPart /\ i - 1 \in 0 .. Len(f) /\ i \in DOMAIN f
  OBVIOUS
<1>2. /\ h \in DOMAIN FieldOf /\ c \in Seq(Symbols)
      /\ Parsing!Position(c, Boundary) < 0
  <2>1. h \in DOMAIN FieldOf /\ Parsing!Position(c, Boundary) < 0
    BY <1>1, Zenon DEF Parsing!WellFormed, Parsing!BoundaryPosition
  <2> QED
    BY <1>1, <2>1, Pieces
<1>3. u \in Seq(Symbols) /\ P[i - 1] \in Seq(Symbols) /\ P[i] = P[i - 1] \o Parsing!Part(q)
  <2>1. u \in Seq(Symbols)
    BY Patterns, ConcatProperties
  <2> QED
    BY <1>1, <2>1, PartsIs, Zenon
<1>4. x \in Seq(Symbols) /\ y \in Seq(Symbols) /\ P[i] \o u = P[i - 1] \o (Boundary \o y)
  <2> HIDE DEF u, P
  <2>1. PICK p : p = P[i - 1] /\ p \in Seq(Symbols)
    BY <1>3
  <2>2. x \in Seq(Symbols) /\ y \in Seq(Symbols) /\ (p \o Parsing!Part(q)) \o u = p \o (Boundary \o y)
    BY <1>1, <1>3, <2>1, PartThen, Zenon
  <2> HIDE DEF x, y, q
  <2> QED
    BY <1>3, <2>1, <2>2, Zenon
<1>5. Whole(P[i] \o u) = Parsing!_ProcessData(ParserOf(Parsing!ProcessingHeaders, y, F, m))
  <2> HIDE DEF u, y, F, m, P
  <2>1. \A v \in Seq(Symbols) :
          Whole(P[i - 1] \o (Boundary \o v)) = Parsing!_ProcessData(ParserOf(Parsing!ProcessingHeaders, v, F, m))
    BY Zenon DEF ReadUpTo, F, m, P
  <2> QED
    BY <1>4, <2>1, Zenon
<1>6. Parsing!Process(ParserOf(Parsing!ProcessingHeaders, y, F, m)) =
        ParserOf(Parsing!ProcessingContentOfTheField, x, G, n)
  <2>1. FieldOf[h].name = n
    BY DEF NameOf
  <2> HIDE DEF x, F, G, m, n, h
  <2> QED
    BY <1>2, <1>4, <2>1, OpeningRead DEF G
<1>7. n \in DOMAIN G /\ G[n] \in FieldType /\ Accepted(G, n, c) = FieldsUpTo(f, i)
  BY <1>2, FieldsMore, Zenon
<1>8. Parsing!Process(ParserOf(Parsing!ProcessingContentOfTheField, x, G, n)) =
        ParserOf(Parsing!LookingForStartingBoundary, e, Accepted(G, n, c), n)
  <2> HIDE DEF G, n, c
  <2> QED
    BY <1>2, <1>7, ContentRead
<1>9. Parsing!Process(ParserOf(Parsing!LookingForStartingBoundary, e, FieldsUpTo(f, i), n)) =
        ParserOf(Parsing!ProcessingHeaders, r, FieldsUpTo(f, i), n)
  BY BoundaryRead
<1>10. Valid(Parsing!ProcessingHeaders, y, F, m)
  <2> HIDE DEF y, F, m
  <2> QED
    BY <1>4, StatusesDiffer DEF Valid, Statuses
<1> HIDE DEF x, y, e, F, G, m, n, c
<1>11. /\ Valid(Parsing!ProcessingContentOfTheField, x, G, n)
       /\ Parsing!_ProcessData(ParserOf(Parsing!ProcessingHeaders, y, F, m)) =
            Parsing!_ProcessData(ParserOf(Parsing!ProcessingContentOfTheField, x, G, n))
  BY <1>6, <1>10, StatusesDiffer, RunGoes
<1>12. /\ Valid(Parsing!LookingForStartingBoundary, e, FieldsUpTo(f, i), n)
       /\ Parsing!_ProcessData(ParserOf(Parsing!ProcessingContentOfTheField, x, G, n)) =
            Parsing!_ProcessData(ParserOf(Parsing!LookingForStartingBoundary, e, FieldsUpTo(f, i), n))
  <2>1. Parsing!Process(ParserOf(Parsing!ProcessingContentOfTheField, x, G, n)) =
          ParserOf(Parsing!LookingForStartingBoundary, e, FieldsUpTo(f, i), n)
    BY <1>7, <1>8, Zenon
  <2> QED
    BY <1>11, <2>1, StatusesDiffer, RunGoes
<1>13. Parsing!_ProcessData(ParserOf(Parsing!LookingForStartingBoundary, e, FieldsUpTo(f, i), n)) =
         Parsing!_ProcessData(ParserOf(Parsing!ProcessingHeaders, r, FieldsUpTo(f, i), n))
  BY <1>9, <1>12, StatusesDiffer, RunGoes
<1>14. NameUpTo(f, i) = n
  <2>1. i # 0
    OBVIOUS
  <2> QED
    BY <2>1, Zenon DEF NameUpTo, n
<1> QED
  BY <1>5, <1>11, <1>12, <1>13, <1>14, Zenon DEF P, u

\* So a well-formed form is read: the end of the body holds no headers.
LEMMA BodyRead ==
  ASSUME NEW f \in Seq(Parsing!FormPart), Parsing!WellFormed(f)
  PROVE  /\ Whole(Parsing!Body(f)).status # Parsing!Thrown
         /\ Whole(Parsing!Body(f)).fields = Parsing!Fields(f)
<1> DEFINE S == {i \in 0 .. Len(f) : ReadUpTo(f, i)}
<1>1. Len(f) \in Nat
  OBVIOUS
<1>2. 0 \in S
  BY <1>1, ReadNone
<1>3. ASSUME NEW i \in 1 .. Len(f), i - 1 \in S PROVE i \in S
  <2>1. ReadUpTo(f, i - 1) /\ i \in 0 .. Len(f)
    BY <1>1, <1>3
  <2>2. ReadUpTo(f, i)
    BY <2>1, ReadMore
  <2> QED
    BY <2>1, <2>2
<1> HIDE DEF S
<1>4. Len(f) \in S
  <2>1. \A i \in 0 .. Len(f) : i \in S
    BY <1>1, <1>2, <1>3, InductionTo
  <2> QED
    BY <1>1, <2>1
<1>5. ReadUpTo(f, Len(f))
  BY <1>4 DEF S
<1> DEFINE m == NameUpTo(f, Len(f))
           F == Parsing!Fields(f)
           e == ParserOf(Parsing!ProcessingHeaders, Closing, F, m)
<1>6. Closing \in Seq(Symbols) /\ Len(Closing) = 4 /\ Closing[1] = "-"
  BY Bytes DEF Closing
<1>7. Whole(Parsing!Body(f)) = Parsing!_ProcessData(e)
  <2>1. Whole(Parsing!PartsUpTo(f)[Len(f)] \o (Boundary \o Closing)) =
          Parsing!_ProcessData(ParserOf(Parsing!ProcessingHeaders, Closing, FieldsUpTo(f, Len(f)), m))
    BY <1>5, <1>6, Zenon DEF ReadUpTo
  <2>2. FieldsUpTo(f, Len(f)) = F
    BY FieldsAll
  <2>3. Parsing!Body(f) = Parsing!PartsUpTo(f)[Len(f)] \o (Boundary \o Closing)
    BY BodyType
  <2> QED
    BY <2>1, <2>2, <2>3, Zenon
<1> HIDE DEF m, F
<1>8. Parsing!Position(Closing, EndOfHeaders) = -1
  <2>1. ASSUME NEW i \in Nat, Occurs(Closing, EndOfHeaders, i) PROVE FALSE
    <3>1. Len(EndOfHeaders) = 4 /\ EndOfHeaders[1] = CR
      BY Patterns DEF EndOfHeaders
    <3>2. i = 0 /\ Closing[i + 1] = CR
      BY <1>6, <2>1, <3>1 DEF Occurs
    <3> QED
      BY <1>6, <3>2, Bytes
  <2> QED
    BY <1>6, <2>1, Patterns, PositionNone
<1>9. Parsing!Process(e) = e
  <2>1. PICK at : at = Parsing!Position(Closing, EndOfHeaders) /\ at < 0
    BY <1>8
  <2> QED
    BY <2>1, ProcessHeaders
<1>10. Valid(Parsing!ProcessingHeaders, Closing, F, m)
  BY <1>6, StatusesDiffer DEF Valid, Statuses
<1>11. Parsing!_ProcessData(e) = e
  BY <1>9, <1>10, RunStays
<1>12. e.status = Parsing!ProcessingHeaders /\ e.fields = F
  BY ParserStatus
<1> HIDE DEF e
<1> QED
  BY <1>7, <1>11, <1>12, StatusesDiffer DEF F

\* A parser that throws in the middle throws in the end.
LEMMA ThrownStays ==
  ASSUME NEW b \in Seq(Symbols), NEW i \in 0 .. Len(b),
         Whole(Parsing!Take(b, i)).status = Parsing!Thrown
  PROVE  Whole(b).status = Parsing!Thrown
<1> DEFINE a == Parsing!Take(b, i)
           d == Parsing!Drop(b, i)
<1>1. a \in Seq(Symbols) /\ d \in Seq(Symbols)
  BY TakeIs, DropIs
<1>2. a \o d = b
  <2>1. 1 \in 1 .. Len(b) + 1 /\ i \in 1 - 1 .. Len(b) /\ Len(b) \in i .. Len(b)
    OBVIOUS
  <2>2. SubSeq(b, 1, Len(b)) = b
    OBVIOUS
  <2> QED
    BY <2>1, <2>2, ConcatAdjacentSubSeq DEF Parsing!Take, Parsing!Drop
<1> HIDE DEF a, d
<1>3. Chunked(Parsing!LookingForStartingBoundary, a, <<>>, 0, d)
  BY <1>1, NewValid, RunConcat
<1>4. PICK t, y, g, m :
        /\ Valid(t, y, g, m) /\ Whole(a) = ParserOf(t, y, g, m)
        /\ Parsing!_ProcessData(ParserOf(t, y \o d, g, m)) = Whole(a \o d)
  BY <1>3, Zenon DEF Chunked, Whole
<1>5. t = Parsing!Thrown
  <2>1. ParserOf(t, y, g, m).status = t
    BY ParserStatus
  <2> QED
    BY <1>4, <2>1 DEF a
<1>6. PICK z : z = y \o d
  OBVIOUS
<1>7. Valid(t, z, g, m)
  BY <1>1, <1>4, <1>6, ValidConcat
<1>8. Parsing!Process(ParserOf(t, z, g, m)) = ParserOf(t, z, g, m)
  BY <1>5, ProcessThrown
<1>9. Parsing!_ProcessData(ParserOf(t, z, g, m)) = ParserOf(t, z, g, m)
  BY <1>7, <1>8, RunStays
<1>10. ParserOf(t, z, g, m).status = t
  BY ParserStatus
<1> QED
  BY <1>2, <1>4, <1>5, <1>6, <1>9, <1>10, Zenon

\* A step of another part leaves the invariant of the parser alone.
LEMMA MultipartStutter == MultipartInv /\ UNCHANGED parsing => MultipartInv'
BY DEF MultipartInv, parsing

\* The invariant holds of the parser of the model.
LEMMA MultipartInvariant == MCSpec => []MultipartInv
<1>1. MCInit => MultipartInv
  BY MultipartInit DEF MCInit
<1>2. MultipartInv /\ [MCNext]_<<part, vars, backend, parsing>> => MultipartInv'
  <2> SUFFICES ASSUME MultipartInv, [MCNext]_<<part, vars, backend, parsing>> PROVE MultipartInv'
    OBVIOUS
  <2>1. Parsing!Next \/ UNCHANGED parsing
    BY Zenon DEF MCNext
  <2> QED
    BY <2>1, MultipartStep, MultipartStutter
<1> QED
  BY <1>1, <1>2, PTL DEF MCSpec

\* AcceptSomeData of a new parser.
LEMMA AcceptNew ==
  ASSUME NEW a \in Seq(Symbols), NEW max
  PROVE  Parsing!Accept(Parsing!NewParser, a, max) =
           IF Len(a) > max THEN ParserOf(Parsing!Thrown, a, <<>>, 0) ELSE Whole(a)
<1>1. <<>> \o a = a
  OBVIOUS
<1>2. PICK e : e = <<>>
  OBVIOUS
<1>3. Parsing!NewParser = ParserOf(Parsing!LookingForStartingBoundary, e, e, 0)
  BY <1>2 DEF Parsing!NewParser, ParserOf
<1>4. Parsing!Accept(ParserOf(Parsing!LookingForStartingBoundary, e, e, 0), a, max) =
        IF Len(e \o a) > max THEN ParserOf(Parsing!Thrown, e \o a, e, 0)
        ELSE Parsing!_ProcessData(ParserOf(Parsing!LookingForStartingBoundary, e \o a, e, 0))
  BY AcceptIs
<1> QED
  BY <1>1, <1>2, <1>3, <1>4, Zenon DEF Whole

\* AtOnce is the parser that was given everything in one call.
LEMMA AtOnceIs == MultipartInv => Parsing!AtOnce = Whole(Parsing!Take(Parsing!Body(form), fed))
<1> SUFFICES ASSUME MultipartInv PROVE Parsing!AtOnce = Whole(Parsing!Take(Parsing!Body(form), fed))
  OBVIOUS
<1> DEFINE b == Parsing!Body(form)
           a == Parsing!Take(b, fed)
<1>1. b \in Seq(Symbols) /\ fed \in 0 .. Len(b)
  BY BodyType DEF MultipartInv
<1>2. a \in Seq(Symbols) /\ Len(a) = fed
  <2> HIDE DEF b
  <2> QED
    BY <1>1, TakeIs
<1> HIDE DEF a, b
<1>3. ~(Len(a) > fed)
  BY <1>1, <1>2
<1>4. Parsing!Accept(Parsing!NewParser, a, fed) = Whole(a)
  BY <1>2, <1>3, AcceptNew, Zenon
<1> QED
  BY <1>4 DEF Parsing!AtOnce, a, b

\* However the body is cut, the parser is as if it had come in one call, for
\* every form, every boundary and every limit on the data collector.
THEOREM MultipartChunksInvisible == MCSpec => []ChunksInvisible
<1>1. MultipartInv => ChunksInvisible
  <2> SUFFICES ASSUME MultipartInv PROVE Parsing!ChunksInvisible
    BY DEF ChunksInvisible
  <2>1. parser.status # Parsing!Thrown => parser = Parsing!AtOnce
    BY AtOnceIs DEF MultipartInv
  <2>2. Parsing!AtOnce.status = Parsing!Thrown => parser.status = Parsing!Thrown
    BY <2>1
  <2> QED
    BY <2>1, <2>2 DEF Parsing!ChunksInvisible
<1> QED
  BY <1>1, MultipartInvariant, PTL

\* A well-formed form is read byte by byte, whatever its contents look like
\* and however it is cut, or refused for the data that was held back.
THEOREM MultipartFormRead == MCSpec => []FormRead
<1>1. MultipartInv => FormRead
  <2> SUFFICES ASSUME MultipartInv, Parsing!WellFormed(form)
               PROVE  /\ parser.status = Parsing!Thrown => Len(parser.data) > MaxLength
                      /\ parser.status # Parsing!Thrown /\ fed = Len(Parsing!Body(form))
                           => parser.fields = Parsing!Fields(form)
    BY DEF FormRead, Parsing!FormRead
  <2> DEFINE b == Parsing!Body(form)
  <2>1. form \in Seq(Parsing!FormPart) /\ fed \in 0 .. Len(b) /\ b \in Seq(Symbols)
    BY BodyType DEF MultipartInv
  <2>2. Whole(b).status # Parsing!Thrown /\ Whole(b).fields = Parsing!Fields(form)
    BY <2>1, BodyRead
  <2>3. Whole(Parsing!Take(b, fed)).status # Parsing!Thrown
    <3> HIDE DEF b
    <3> QED
      BY <2>1, <2>2, ThrownStays
  <2>4. fed = Len(b) => Parsing!Take(b, fed) = b
    <3> HIDE DEF b
    <3> QED
      BY <2>1 DEF Parsing!Take
  <2> QED
    BY <2>2, <2>3, <2>4 DEF MultipartInv
<1> QED
  BY <1>1, MultipartInvariant, PTL

-----------------------------------------------------------------------------
(* Backend: its instance of the parser is the parser.                      *)

\* The helpers.
LEMMA SameHelpers ==
  ASSUME NEW x, NEW y
  PROVE  /\ Rest!Position(x, y) = Parsing!Position(x, y) /\ Rest!Take(x, y) = Parsing!Take(x, y)
         /\ Rest!Drop(x, y) = Parsing!Drop(x, y) /\ Rest!CString(x) = Parsing!CString(x)
         /\ Rest!Part(x) = Parsing!Part(x) /\ Rest!FormPart = Parsing!FormPart
         /\ Rest!Thrown = Parsing!Thrown /\ Rest!NewParser = Parsing!NewParser
         /\ Rest!BoundaryPosition(x) = Parsing!BoundaryPosition(x)
         /\ Rest!Fields(x) = Parsing!Fields(x)
<1>1. Rest!Position(x, y) = Parsing!Position(x, y)
  BY Zenon DEF Rest!Position, Parsing!Position
<1>2. Rest!Take(x, y) = Parsing!Take(x, y) /\ Rest!Drop(x, y) = Parsing!Drop(x, y)
  BY Zenon DEF Rest!Take, Parsing!Take, Rest!Drop, Parsing!Drop
<1>3. Rest!CString(x) = Parsing!CString(x)
  BY Zenon DEF Rest!CString, Parsing!CString, Rest!Position, Parsing!Position, Rest!Take, Parsing!Take
<1>4. Rest!Part(x) = Parsing!Part(x) /\ Rest!FormPart = Parsing!FormPart
  BY Zenon DEF Rest!Part, Parsing!Part, Rest!FormPart, Parsing!FormPart
<1>5. Rest!Thrown = Parsing!Thrown
  BY Zenon DEF Rest!Thrown, Parsing!Thrown
<1>6. Rest!NewParser = Parsing!NewParser
  BY Zenon DEF Rest!NewParser, Parsing!NewParser, Rest!LookingForStartingBoundary, Parsing!LookingForStartingBoundary
<1>7. Rest!BoundaryPosition(x) = Parsing!BoundaryPosition(x)
  BY Zenon DEF Rest!BoundaryPosition, Parsing!BoundaryPosition, Rest!Position, Parsing!Position
<1>8. Rest!Fields(x) = Parsing!Fields(x)
  BY Zenon DEF Rest!Fields, Parsing!Fields
<1> QED
  BY <1>1, <1>2, <1>3, <1>4, <1>5, <1>6, <1>7, <1>8

\* Forms and their bodies.
LEMMA SameForms ==
  ASSUME NEW f
  PROVE  (Rest!WellFormed(f) <=> Parsing!WellFormed(f)) /\ Rest!Body(f) = Parsing!Body(f)
<1>1. Rest!WellFormed(f) <=> Parsing!WellFormed(f)
  BY Zenon DEF Rest!WellFormed, Parsing!WellFormed, Rest!BoundaryPosition, Parsing!BoundaryPosition, Rest!Position, Parsing!Position
<1>2. Rest!Body(f) = Parsing!Body(f)
  BY Zenon DEF Rest!Body, Parsing!Body, Rest!PartsUpTo, Parsing!PartsUpTo, Rest!Part, Parsing!Part
<1> QED
  BY <1>1, <1>2

\* The steps of the loop.
LEMMA SameProcess ==
  ASSUME NEW p
  PROVE  Rest!Process(p) = Parsing!Process(p)
<1>1. Rest!FindStartingBoundary(p) = Parsing!FindStartingBoundary(p)
  BY Zenon DEF Rest!FindStartingBoundary, Parsing!FindStartingBoundary,
       Rest!TruncateDataCollector, Parsing!TruncateDataCollector, Rest!Drop, Parsing!Drop,
       Rest!BoundaryPosition, Parsing!BoundaryPosition, Rest!Position, Parsing!Position,
       Rest!ProcessingHeaders, Parsing!ProcessingHeaders
<1>2. Rest!WaitForHeadersEnd(p) = Parsing!WaitForHeadersEnd(p)
  <2>1. ASSUME NEW q, NEW n PROVE Rest!TruncateDataCollector(q, n) = Parsing!TruncateDataCollector(q, n)
    BY Zenon DEF Rest!TruncateDataCollector, Parsing!TruncateDataCollector, Rest!Drop, Parsing!Drop
  <2>2. ASSUME NEW h PROVE Rest!_ParseHeaders(p, h) = Parsing!_ParseHeaders(p, h)
    BY Zenon DEF Rest!_ParseHeaders, Parsing!_ParseHeaders, Rest!Thrown, Parsing!Thrown,
       Rest!ProcessingContentOfTheField, Parsing!ProcessingContentOfTheField
  <2>3. PICK i : i = Parsing!Position(p.data, <<CR, LF, CR, LF>>)
    OBVIOUS
  <2>4. Rest!Position(p.data, <<CR, LF, CR, LF>>) = i
    BY <2>3, SameHelpers, Zenon
  <2>5. PICK q : q = Parsing!_ParseHeaders(p, Parsing!CString(Parsing!Take(p.data, i)))
    OBVIOUS
  <2>6. Rest!_ParseHeaders(p, Rest!CString(Rest!Take(p.data, i))) = q
    <3>1. Rest!Take(p.data, i) = Parsing!Take(p.data, i)
      BY SameHelpers, Zenon
    <3>2. Rest!CString(Rest!Take(p.data, i)) = Parsing!CString(Parsing!Take(p.data, i))
      BY <3>1, SameHelpers, Zenon
    <3> QED
      BY <2>2, <2>5, <3>2, Zenon
  <2>7. Parsing!WaitForHeadersEnd(p) =
          IF i < 0 THEN p ELSE IF q.status = Parsing!Thrown THEN q ELSE Parsing!TruncateDataCollector(q, i + 4)
    BY <2>3, <2>5, Zenon DEF Parsing!WaitForHeadersEnd
  <2>8. Rest!WaitForHeadersEnd(p) =
          IF i < 0 THEN p ELSE IF q.status = Rest!Thrown THEN q ELSE Rest!TruncateDataCollector(q, i + 4)
    BY <2>4, <2>6, Zenon DEF Rest!WaitForHeadersEnd
  <2>9. Rest!Thrown = Parsing!Thrown /\ Rest!TruncateDataCollector(q, i + 4) = Parsing!TruncateDataCollector(q, i + 4)
    BY <2>1, Zenon DEF Rest!Thrown, Parsing!Thrown
  <2> QED
    BY <2>7, <2>8, <2>9
<1>3. Rest!ProcessContentOfTheField(p) = Parsing!ProcessContentOfTheField(p)
  BY Zenon DEF Rest!ProcessContentOfTheField, Parsing!ProcessContentOfTheField,
       Rest!FieldAccept, Parsing!FieldAccept, Rest!Take, Parsing!Take, Rest!Drop, Parsing!Drop,
       Rest!BoundaryPosition, Parsing!BoundaryPosition, Rest!Position, Parsing!Position,
       Rest!LookingForStartingBoundary, Parsing!LookingForStartingBoundary
<1>4. /\ Rest!LookingForStartingBoundary = Parsing!LookingForStartingBoundary
      /\ Rest!ProcessingHeaders = Parsing!ProcessingHeaders
      /\ Rest!ProcessingContentOfTheField = Parsing!ProcessingContentOfTheField
      /\ Rest!Thrown = Parsing!Thrown
  BY Zenon DEF Rest!LookingForStartingBoundary, Parsing!LookingForStartingBoundary,
       Rest!ProcessingHeaders, Parsing!ProcessingHeaders,
       Rest!ProcessingContentOfTheField, Parsing!ProcessingContentOfTheField, Rest!Thrown, Parsing!Thrown
<1>5. PICK a, b, c, t : /\ a = Parsing!LookingForStartingBoundary /\ b = Parsing!ProcessingHeaders
                        /\ c = Parsing!ProcessingContentOfTheField /\ t = Parsing!Thrown
  OBVIOUS
<1>6. PICK x, y, z : /\ x = Parsing!FindStartingBoundary(p) /\ y = Parsing!WaitForHeadersEnd(p)
                     /\ z = Parsing!ProcessContentOfTheField(p)
  OBVIOUS
<1>7. Parsing!Process(p) = CASE p.status = a -> x [] p.status = b -> y [] p.status = c -> z [] p.status = t -> p
  BY <1>5, <1>6 DEF Parsing!Process
<1>8. Rest!Process(p) = CASE p.status = a -> x [] p.status = b -> y [] p.status = c -> z [] p.status = t -> p
  BY <1>1, <1>2, <1>3, <1>4, <1>5, <1>6 DEF Rest!Process
<1> QED
  BY <1>7, <1>8, Zenon

\* _ProcessData: the rounds are the same, so their sequences are.
LEMMA SameRun ==
  ASSUME NEW s, NEW x, NEW f, NEW n, Valid(s, x, f, n)
  PROVE  Rest!_ProcessData(ParserOf(s, x, f, n)) = Parsing!_ProcessData(ParserOf(s, x, f, n))
<1> DEFINE p == ParserOf(s, x, f, n)
           N == Parsing!Rounds(p)
           RestLoop(g) == g = [i \in 0 .. N |-> IF i = 0 THEN Start(p) ELSE Rest!Round(g[i - 1])]
<1>1. N \in Nat /\ Rest!Rounds(p) = N
  BY RoundsSuffice DEF Rest!Rounds, Parsing!Rounds
<1>2. ASSUME NEW t PROVE Rest!Round(t) = Parsing!Round(t)
  <2>1. Rest!Process(t.parser) = Parsing!Process(t.parser)
    BY SameProcess
  <2> QED
    BY <2>1, Zenon DEF Rest!Round, Parsing!Round
<1> HIDE DEF p, N
<1>3. ASSUME NEW g PROVE RestLoop(g) <=> Loop(g, N, Start(p))
  <2> DEFINE A == [i \in 0 .. N |-> IF i = 0 THEN Start(p) ELSE Rest!Round(g[i - 1])]
             B == [i \in 0 .. N |-> IF i = 0 THEN Start(p) ELSE Parsing!Round(g[i - 1])]
  <2>1. A = B
    BY <1>2, Zenon
  <2> QED
    BY <2>1, Zenon DEF Loop
<1>4. Rest!_ProcessData(p) = (CHOOSE g : RestLoop(g))[N].parser
  BY <1>1 DEF Rest!_ProcessData, Start
<1>5. PICK h : Loop(h, N, Start(p)) /\ Parsing!_ProcessData(p) = h[N].parser
  BY <1>1, RunIs DEF N
<1> DEFINE g == CHOOSE g : RestLoop(g)
<1>6. Loop(g, N, Start(p))
  <2>1. \E e : RestLoop(e)
    BY <1>3, <1>5
  <2>2. RestLoop(g)
    <3> HIDE DEF RestLoop
    <3> QED
      BY <2>1, Zenon
  <2> HIDE DEF g, RestLoop
  <2> QED
    BY <1>3, <2>2
<1> HIDE DEF g, RestLoop
<1>7. g[0] = h[0] /\ \A i \in 1 .. N : g[i] = Parsing!Round(g[i - 1]) /\ h[i] = Parsing!Round(h[i - 1])
  BY <1>1, <1>5, <1>6, LoopIs
<1> DEFINE S == {i \in 0 .. N : g[i] = h[i]}
<1>8. 0 \in S
  BY <1>1, <1>7
<1>9. ASSUME NEW i \in 1 .. N, i - 1 \in S PROVE i \in S
  <2>1. g[i - 1] = h[i - 1] /\ i \in 0 .. N
    BY <1>1, <1>9
  <2>2. g[i] = h[i]
    BY <1>7, <2>1, Zenon
  <2> QED
    BY <2>1, <2>2
<1>10. N \in S
  <2> HIDE DEF S
  <2>1. \A i \in 0 .. N : i \in S
    BY <1>1, <1>8, <1>9, InductionTo
  <2> QED
    BY <1>1, <2>1
<1> QED
  BY <1>4, <1>5, <1>10 DEF g, p

\* AcceptSomeData of a new parser.
LEMMA RestAccept ==
  ASSUME NEW a \in Seq(Symbols), NEW max
  PROVE  Rest!Accept(Rest!NewParser, a, max) =
           IF Len(a) > max THEN ParserOf(Parsing!Thrown, a, <<>>, 0) ELSE Whole(a)
<1> DEFINE q == ParserOf(Parsing!LookingForStartingBoundary, a, <<>>, 0)
<1>1. [Rest!NewParser EXCEPT !.data = @ \o a] = q
  <2>1. <<>> \o a = a
    OBVIOUS
  <2>2. Rest!NewParser = ParserOf(Parsing!LookingForStartingBoundary, <<>>, <<>>, 0)
    BY DEF Rest!NewParser, ParserOf, Rest!LookingForStartingBoundary, Parsing!LookingForStartingBoundary
  <2>3. [ParserOf(Parsing!LookingForStartingBoundary, <<>>, <<>>, 0) EXCEPT !.data = @ \o a]
          = ParserOf(Parsing!LookingForStartingBoundary, <<>> \o a, <<>>, 0)
    BY DEF ParserOf
  <2> QED
    BY <2>1, <2>2, <2>3, Zenon
<1>2. q.data = a
  BY ParserStatus
<1>3. [q EXCEPT !.status = Rest!Thrown] = ParserOf(Parsing!Thrown, a, <<>>, 0)
  BY DEF ParserOf, Rest!Thrown, Parsing!Thrown
<1>4. Rest!_ProcessData(q) = Whole(a)
  BY NewValid, SameRun DEF Whole
<1> HIDE DEF q
<1> QED
  BY <1>1, <1>2, <1>3, <1>4, Zenon DEF Rest!Accept

-----------------------------------------------------------------------------
(* Backend: what is stored is what was meant.                              *)

\* The value of an upload that can be stored.
LEMMA ValueMeant ==
  ASSUME NEW r \in Requests, Rest!Storable(r.upload)
  PROVE  Rest!Value(r.upload) = Rest!Meant(r.upload)
<1> DEFINE u == r.upload
<1>1. u.form \in BOOLEAN /\ u.bytes \in Seq(Symbols) /\ u.parts \in Seq(Parsing!FormPart)
  <2>1. Rest!FormPart = Parsing!FormPart
    BY SameHelpers
  <2> QED
    BY <2>1, HttpAssumption DEF Rest!BackendAssumption
<1>2. CASE u.form
  <2> DEFINE b == Parsing!Body(u.parts)
             p == Rest!Accept(Rest!NewParser, b, max_upload_file_size)
             F == Parsing!Fields(u.parts)
  <2>1. /\ Parsing!WellFormed(u.parts) /\ Rest!FileFields(F) # {} /\ Len(b) <= max_upload_file_size
        /\ b \in Seq(Symbols) /\ Rest!Bytes(u) = b /\ Rest!Fields(u.parts) = F
    <3>1. Rest!Body(u.parts) = b /\ Rest!Fields(u.parts) = F /\ (Rest!WellFormed(u.parts) <=> Parsing!WellFormed(u.parts))
      BY SameForms, SameHelpers
    <3>2. b \in Seq(Symbols)
      BY <1>1, BodyType
    <3> QED
      BY <1>2, <3>1, <3>2, Zenon DEF Rest!Storable, Rest!Bytes
  <2>2. p = Whole(b)
    <3>1. max_upload_file_size \in Nat
      BY HttpAssumption DEF Rest!BackendAssumption
    <3> HIDE DEF b
    <3>2. ~(Len(b) > max_upload_file_size)
      BY <2>1, <3>1
    <3> QED
      BY <2>1, <3>2, RestAccept, Zenon
  <2>3. p.status # Rest!Thrown /\ p.fields = F
    <3>1. Rest!Thrown = Parsing!Thrown
      BY SameHelpers
    <3> QED
      BY <1>1, <2>1, <2>2, <3>1, BodyRead, Zenon
  <2> HIDE DEF p, F
  <2>4. Rest!ParasrMultipartPost(b) = F[Rest!Min(Rest!FileFields(F))].content
    BY <2>1, <2>3, Zenon DEF Rest!ParasrMultipartPost, p
  <2> QED
    BY <1>2, <2>1, <2>4, Zenon DEF Rest!Value, Rest!Meant
<1>3. CASE ~u.form
  <2> DEFINE b == u.bytes
  <2>1. \A i \in DOMAIN b : b[i] # NUL
    BY <1>3, Zenon DEF Rest!Storable
  <2>2. Rest!CString(b) = b
    <3> HIDE DEF b
    <3>1. b \in Seq(Symbols)
      BY <1>1 DEF b
    <3>2. PICK z : z = <<NUL>>
      OBVIOUS
    <3>3. z \in Seq(Symbols) /\ Len(z) = 1 /\ z[1] = NUL
      BY <3>2, Bytes
    <3>4. ASSUME NEW i \in Nat, Occurs(b, z, i) PROVE FALSE
      <4>1. i + 1 <= Len(b) /\ b[i + 1] = NUL
        BY <3>3, <3>4 DEF Occurs
      <4>2. i + 1 \in DOMAIN b
        BY <3>1, <4>1
      <4> QED
        BY <2>1, <4>1, <4>2
    <3>5. Parsing!Position(b, z) = -1
      BY <3>1, <3>3, <3>4, PositionNone
    <3>6. -1 < 0
      OBVIOUS
    <3>7. Parsing!CString(b) = b
      BY <3>2, <3>5, <3>6 DEF Parsing!CString
    <3> QED
      BY <3>7, SameHelpers, Zenon
  <2> QED
    BY <1>3, <2>2, Zenon DEF Rest!Value, Rest!Meant, Rest!Bytes
<1> QED
  BY <1>1, <1>2, <1>3

\* The invariant of the backend: clients know the rows, and the tables are
\* finite.
BackendInv ==
  /\ rows = acked /\ DOMAIN rows = Rest!Databases
  /\ \A db \in Rest!Databases : DOMAIN rows[db] \subseteq Nat /\ IsFiniteSet(DOMAIN rows[db])

\* A reply with the body b to the request r, when a is what clients know.
Told(r, failed, status, b, a) ==
  LET t == a[Rest!Addressed(r)]
      S == {k \in DOMAIN t : k >= r.start}
  IN  (status \in {"OK", "NOTFOUND"} /\ ~failed /\ r.method = "GET") =>
        /\ (Route[r.key] \in {"rest", "admin"} /\ r.key # 0)
             => IF status = "OK" THEN r.key \in DOMAIN t /\ b = t[r.key] ELSE r.key \notin DOMAIN t
        /\ Route[r.key] = "scan" =>
             /\ Rest!ToSet(b) \subseteq S
             /\ \A k \in S : \/ k \in Rest!ToSet(b)
                             \/ Len(b) = r.limit /\ \A i \in 1 .. Len(b) : b[i] < k

\* The fields of a reply.
LEMMA ReplyFields ==
  ASSUME NEW r, NEW failed \in BOOLEAN, NEW status, NEW b, NEW a,
         a = [request |-> r, failed |-> failed, status |-> status, body |-> b]
  PROVE  a.request = r /\ (a.failed <=> failed) /\ a.status = status /\ a.body = b
OBVIOUS

\* ReadsAcked is about the reply that was sent.
LEMMA ReadsTold ==
  ASSUME NEW r, NEW failed \in BOOLEAN, NEW status, NEW b,
         Rest!SendReply(r, failed, status, b), Told(r, failed, status, b, acked')
  PROVE  Rest!ReadsAcked'
<1>1. answer'.request = r /\ (answer'.failed <=> failed) /\ answer'.status = status /\ answer'.body = b
  BY ReplyFields DEF Rest!SendReply
<1> QED
  BY <1>1, Zenon DEF Rest!ReadsAcked, Told, Rest!Addressed

\* A table with a row more or less stays finite.
LEMMA TableChanges ==
  ASSUME NEW t, DOMAIN t \subseteq Nat, IsFiniteSet(DOMAIN t), NEW k \in Nat, NEW v
  PROVE  /\ DOMAIN Rest!WithRow(t, k, v) \subseteq Nat /\ IsFiniteSet(DOMAIN Rest!WithRow(t, k, v))
         /\ DOMAIN Rest!WithoutRow(t, k) \subseteq Nat /\ IsFiniteSet(DOMAIN Rest!WithoutRow(t, k))
<1>1. DOMAIN Rest!WithRow(t, k, v) = DOMAIN t \cup {k} /\ DOMAIN Rest!WithoutRow(t, k) = DOMAIN t \ {k}
  BY DEF Rest!WithRow, Rest!WithoutRow
<1>2. IsFiniteSet(DOMAIN t \cup {k})
  BY FS_AddElement
<1>3. IsFiniteSet(DOMAIN t \ {k})
  BY FS_RemoveElement
<1>4. DOMAIN t \cup {k} \subseteq Nat /\ DOMAIN t \ {k} \subseteq Nat
  OBVIOUS
<1> QED
  BY <1>1, <1>2, <1>3, <1>4, Zenon

\* A change of one table that clients know of keeps the invariant.
LEMMA TableChanged ==
  ASSUME BackendInv, NEW db \in Rest!Databases, NEW t,
         DOMAIN t \subseteq Nat, IsFiniteSet(DOMAIN t),
         rows' = [rows EXCEPT ![db] = t], acked' = [acked EXCEPT ![db] = t]
  PROVE  BackendInv'
<1>1. rows' = acked' /\ DOMAIN rows' = Rest!Databases
  BY DEF BackendInv, Rest!Databases
<1>2. ASSUME NEW d \in Rest!Databases PROVE DOMAIN rows'[d] \subseteq Nat /\ IsFiniteSet(DOMAIN rows'[d])
  <2>1. CASE d = db
    <3>1. rows'[d] = t
      BY <2>1 DEF BackendInv
    <3> QED
      BY <3>1
  <2>2. CASE d # db
    <3>1. rows'[d] = rows[d]
      BY <2>2 DEF BackendInv
    <3>2. DOMAIN rows[d] \subseteq Nat /\ IsFiniteSet(DOMAIN rows[d])
      BY Zenon DEF BackendInv
    <3> QED
      BY <3>1, <3>2, Zenon
  <2> QED
    BY <2>1, <2>2
<1>3. Rest!Databases' = Rest!Databases
  BY DEF Rest!Databases
<1> QED
  BY <1>1, <1>2, <1>3, Zenon DEF BackendInv

\* A reply after which clients know what they knew.
LEMMA NothingChanged ==
  ASSUME BackendInv, UNCHANGED rows, NEW r, NEW failed, NEW status, NEW b,
         Rest!SendReply(r, failed, status, b), status # "ACCEPTED",
         status = "OK" => r.method \notin {"POST", "PUT"}
  PROVE  acked' = acked /\ BackendInv'
<1>1. Rest!Believes(r, status) = acked
  BY DEF Rest!Believes
<1>2. acked' = acked
  BY <1>1, Zenon DEF Rest!SendReply
<1>3. Rest!Databases' = Rest!Databases
  BY DEF Rest!Databases
<1> QED
  BY <1>2, <1>3, Zenon DEF BackendInv

\* RESTfulPro on the database that the client means.
LEMMA RestStep ==
  ASSUME BackendInv, Rest!StorableRequests, NEW r \in Requests, NEW db \in Rest!Databases,
         db = Rest!Addressed(r), Rest!Authorised(r), NEW fails \in BOOLEAN,
         Route[r.key] # "scan", Rest!RESTfulPro(r, db, fails)
  PROVE  BackendInv' /\ Rest!ReadsAcked'
<1>1. r.key \in Nat
  BY HttpAssumption DEF Rest!BackendAssumption
<1>2. DOMAIN rows[db] \subseteq Nat /\ IsFiniteSet(DOMAIN rows[db]) /\ rows = acked
  BY Zenon DEF BackendInv
<1>3. ASSUME r.method # "GET", NEW status, Rest!SendReply(r, fails, status, Rest!None)
      PROVE  Rest!ReadsAcked'
  <2>1. Told(r, fails, status, Rest!None, acked')
    BY <1>3, Zenon DEF Told
  <2> QED
    BY <1>3, <2>1, ReadsTold
<1>4. CASE Rest!RestGet(r, db, fails)
  <2>1. PICK status, b :
          /\ Rest!SendReply(r, fails, status, b) /\ status \in {"OK", "NOTFOUND"}
          /\ ~fails /\ status = "OK" => r.key \in DOMAIN rows[db] /\ b = rows[db][r.key]
          /\ ~fails /\ status = "NOTFOUND" => r.key \notin DOMAIN rows[db]
    <3>1. CASE ~fails /\ r.key \notin DOMAIN rows[db]
      <4>1. Rest!SendReply(r, fails, "NOTFOUND", Rest!None)
        BY <1>4, <3>1, Zenon DEF Rest!RestGet
      <4>2. "NOTFOUND" # "OK" /\ "NOTFOUND" \in {"OK", "NOTFOUND"}
        OBVIOUS
      <4> QED
        BY <3>1, <4>1, <4>2, Zenon
    <3>2. CASE ~(~fails /\ r.key \notin DOMAIN rows[db])
      <4> DEFINE b == IF fails THEN Rest!None ELSE rows[db][r.key]
      <4>1. Rest!SendReply(r, fails, "OK", b)
        BY <1>4, <3>2, Zenon DEF Rest!RestGet
      <4>2. "OK" # "NOTFOUND" /\ "OK" \in {"OK", "NOTFOUND"}
        OBVIOUS
      <4>3. ~fails => r.key \in DOMAIN rows[db] /\ b = rows[db][r.key]
        BY <3>2, Zenon
      <4> HIDE DEF b
      <4> QED
        BY <4>1, <4>2, <4>3, Zenon
    <3> QED
      BY <3>1, <3>2
  <2>2. UNCHANGED rows /\ r.method = "GET"
    BY <1>4 DEF Rest!RestGet
  <2>3. acked' = acked /\ BackendInv'
    <3>1. status # "ACCEPTED" /\ r.method \notin {"POST", "PUT"}
      BY <2>1, <2>2
    <3> QED
      BY <2>1, <2>2, <3>1, NothingChanged, Zenon
  <2>4. Told(r, fails, status, b, acked')
    <3>1. acked'[Rest!Addressed(r)] = rows[db]
      BY <1>2, <2>3, Zenon
    <3> QED
      BY <2>1, <3>1 DEF Told
  <2> QED
    BY <2>1, <2>3, <2>4, ReadsTold
<1>5. CASE Rest!RestPut(r, db, fails)
  <2>1. r.method \in {"POST", "PUT"} /\ r.method # "GET"
    BY <1>5 DEF Rest!RestPut
  <2>2. CASE fails
    <3>1. Rest!SendReply(r, fails, "SERVERR", Rest!None) /\ UNCHANGED rows
      BY <1>5, <2>2, Zenon DEF Rest!RestPut
    <3>2. "SERVERR" # "ACCEPTED" /\ "SERVERR" # "OK"
      OBVIOUS
    <3>3. BackendInv'
      BY <3>1, <3>2, NothingChanged, Zenon
    <3> QED
      BY <1>3, <2>1, <3>1, <3>3
  <2>3. CASE ~fails
    <3> DEFINE t == Rest!WithRow(rows[db], r.key, Rest!Value(r.upload))
    <3>1. /\ rows' = [rows EXCEPT ![db] = t]
          /\ Rest!SendReply(r, fails, "OK", Rest!None)
      BY <1>5, <2>3, Zenon DEF Rest!RestPut
    <3>2. Rest!Value(r.upload) = Rest!Meant(r.upload)
      BY <2>1, ValueMeant, Zenon DEF Rest!StorableRequests
    <3>3. acked' = [acked EXCEPT ![db] = t]
      <4>1. acked' = Rest!Believes(r, "OK")
        BY <3>1 DEF Rest!SendReply
      <4>2. Rest!Believes(r, "OK") =
              [acked EXCEPT ![Rest!Addressed(r)] = Rest!WithRow(@, r.key, Rest!Meant(r.upload))]
        BY <2>1 DEF Rest!Believes
      <4> QED
        BY <1>2, <3>2, <4>1, <4>2, Zenon
    <3>4. DOMAIN t \subseteq Nat /\ IsFiniteSet(DOMAIN t)
      BY <1>1, <1>2, TableChanges, Zenon
    <3> HIDE DEF t
    <3>5. BackendInv'
      BY <3>1, <3>3, <3>4, TableChanged
    <3> QED
      BY <1>3, <2>1, <3>1, <3>5
  <2> QED
    BY <2>2, <2>3
<1>6. CASE Rest!RestDelete(r, db, fails)
  <2>1. r.method = "DELETE" /\ r.method # "GET" /\ r.method \notin {"POST", "PUT"}
    BY <1>6 DEF Rest!RestDelete
  <2>2. CASE fails
    <3>1. Rest!SendReply(r, fails, "NOTFOUND", Rest!None) /\ UNCHANGED rows
      BY <1>6, <2>2, Zenon DEF Rest!RestDelete
    <3>2. "NOTFOUND" # "ACCEPTED"
      OBVIOUS
    <3>3. BackendInv'
      BY <2>1, <3>1, <3>2, NothingChanged, Zenon
    <3> QED
      BY <1>3, <2>1, <3>1, <3>3
  <2>3. CASE ~fails
    <3> DEFINE t == Rest!WithoutRow(rows[db], r.key)
    <3>1. /\ rows' = [rows EXCEPT ![db] = t]
          /\ Rest!SendReply(r, fails, "ACCEPTED", Rest!None)
      BY <1>6, <2>3, Zenon DEF Rest!RestDelete
    <3>2. acked' = [acked EXCEPT ![db] = t]
      <4>1. acked' = Rest!Believes(r, "ACCEPTED")
        BY <3>1 DEF Rest!SendReply
      <4>2. Rest!Believes(r, "ACCEPTED") =
              [acked EXCEPT ![Rest!Addressed(r)] = Rest!WithoutRow(@, r.key)]
        BY DEF Rest!Believes
      <4> QED
        BY <1>2, <4>1, <4>2, Zenon
    <3>3. DOMAIN t \subseteq Nat /\ IsFiniteSet(DOMAIN t)
      BY <1>1, <1>2, TableChanges, Zenon
    <3> HIDE DEF t
    <3>4. BackendInv'
      BY <3>1, <3>2, <3>3, TableChanged
    <3> QED
      BY <1>3, <2>1, <3>1, <3>4
  <2> QED
    BY <2>2, <2>3
<1>7. CASE Rest!RestOther(r, db, fails)
  <2>1. /\ r.method # "GET" /\ r.method \notin {"POST", "PUT"}
        /\ Rest!SendReply(r, fails, "BADREQ", Rest!None) /\ UNCHANGED rows
    BY <1>7 DEF Rest!RestOther
  <2>2. "BADREQ" # "ACCEPTED"
    OBVIOUS
  <2>3. BackendInv'
    BY <2>1, <2>2, NothingChanged, Zenon
  <2> QED
    BY <1>3, <2>1, <2>3
<1> QED
  BY <1>4, <1>5, <1>6, <1>7 DEF Rest!RESTfulPro

-----------------------------------------------------------------------------
(* Backend: a scan lists the first keys.                                   *)

\* Sizes of sets in the instance of the backend.
LEMMA RestSizes ==
  ASSUME NEW S
  PROVE  Rest!Cardinality(S) = Cardinality(S)
BY DEF Rest!Cardinality, Cardinality

\* How many keys of S come before k.
KeyRank(S, k) == Cardinality({j \in S : j < k})

\* A key has fewer keys before it than there are.
LEMMA KeyRankType ==
  ASSUME NEW S \in SUBSET Nat, IsFiniteSet(S), NEW k \in S
  PROVE  KeyRank(S, k) \in 0 .. Cardinality(S) - 1
<1> DEFINE T == {j \in S : j < k}
<1>1. T \subseteq S /\ T # S
  OBVIOUS
<1> HIDE DEF T
<1>2. IsFiniteSet(T) /\ Cardinality(T) <= Cardinality(S) /\ Cardinality(T) # Cardinality(S)
  BY <1>1, FS_Subset
<1>3. Cardinality(T) \in Nat /\ Cardinality(S) \in Nat
  BY <1>2, FS_CardinalityType
<1>4. Cardinality(T) \in 0 .. Cardinality(S) - 1
  BY <1>2, <1>3
<1> QED
  BY <1>4 DEF KeyRank, T

\* A larger key has more keys before it.
LEMMA KeyRankLess ==
  ASSUME NEW S \in SUBSET Nat, IsFiniteSet(S), NEW k \in S, NEW l \in S, k < l
  PROVE  KeyRank(S, k) < KeyRank(S, l)
<1> DEFINE T == {j \in S : j < k}
           U == {j \in S : j < l}
<1>1. T \subseteq U
  <2>1. ASSUME NEW j \in S, j < k PROVE j < l
    <3>1. j \in Nat /\ k \in Nat /\ l \in Nat
      OBVIOUS
    <3> QED
      BY <2>1, <3>1
  <2> QED
    BY <2>1
<1>2. k \in U /\ k \notin T /\ U \subseteq S
  OBVIOUS
<1> HIDE DEF T, U
<1>3. IsFiniteSet(U)
  BY <1>2, FS_Subset
<1>4. IsFiniteSet(T) /\ Cardinality(T) <= Cardinality(U) /\ Cardinality(T) # Cardinality(U)
  BY <1>1, <1>2, <1>3, FS_Subset
<1>5. Cardinality(T) \in Nat /\ Cardinality(U) \in Nat
  BY <1>3, <1>4, FS_CardinalityType
<1>6. Cardinality(T) < Cardinality(U)
  BY <1>4, <1>5
<1> QED
  BY <1>6 DEF KeyRank, T, U

\* So the ranks are in the order of the keys.
LEMMA KeyRankOrder ==
  ASSUME NEW S \in SUBSET Nat, IsFiniteSet(S), NEW k \in S, NEW l \in S
  PROVE  /\ KeyRank(S, k) = KeyRank(S, l) => k = l
         /\ KeyRank(S, k) < KeyRank(S, l) => k < l
<1>1. KeyRank(S, k) \in Int /\ KeyRank(S, l) \in Int
  BY KeyRankType
<1>2. (k < l => KeyRank(S, k) < KeyRank(S, l)) /\ (l < k => KeyRank(S, l) < KeyRank(S, k))
  BY KeyRankLess
<1>3. k \in Int /\ l \in Int
  OBVIOUS
<1> QED
  BY <1>1, <1>2, <1>3

\* Every rank below the size of S is that of a key.
LEMMA KeyRankOnto ==
  ASSUME NEW S \in SUBSET Nat, IsFiniteSet(S), NEW i \in 1 .. Cardinality(S)
  PROVE  \E k \in S : KeyRank(S, k) = i - 1
<1> DEFINE n == Cardinality(S)
           R == 0 .. n - 1
           f == [k \in S |-> KeyRank(S, k)]
<1>1. n \in Nat
  BY FS_CardinalityType
<1> HIDE DEF n
<1>2. f \in [S -> R]
  BY KeyRankType DEF n
<1>3. \A k, l \in S : f[k] = f[l] => k = l
  BY KeyRankOrder
<1> HIDE DEF f
<1>4. f \in Injection(S, R)
  BY <1>2, <1>3 DEF Injection, IsInjective
<1>5. IsFiniteSet(R) /\ Cardinality(R) = n
  BY <1>1, FS_Interval
<1>6. f \in Surjection(S, R)
  BY <1>4, <1>5, FS_Injection DEF n
<1>7. i - 1 \in R
  BY <1>1 DEF n
<1>8. \E k \in S : f[k] = i - 1
  BY <1>6, <1>7 DEF Surjection
<1> QED
  BY <1>8 DEF f

\* Ascending gives every key of S its place, by its rank.
LEMMA AscendingKeys ==
  ASSUME NEW S \in SUBSET Nat, IsFiniteSet(S), NEW A, A = Rest!Ascending(S)
  PROVE  /\ Cardinality(S) \in Nat
         /\ A \in [1 .. Cardinality(S) -> S]
         /\ \A i \in 1 .. Cardinality(S) : KeyRank(S, A[i]) = i - 1
<1> DEFINE n == Cardinality(S)
<1>1. n \in Nat
  BY FS_CardinalityType
<1> DEFINE P(k, i) == Rest!Cardinality({j \in S : j < k}) = i - 1
<1>2. A = [i \in 1 .. n |-> CHOOSE k \in S : P(k, i)]
  BY RestSizes DEF Rest!Ascending
<1>3. ASSUME NEW i \in 1 .. n PROVE A[i] \in S /\ KeyRank(S, A[i]) = i - 1
  <2>1. \A k \in S : P(k, i) <=> KeyRank(S, k) = i - 1
    BY RestSizes DEF KeyRank
  <2>2. \E k \in S : KeyRank(S, k) = i - 1
    BY KeyRankOnto
  <2> HIDE DEF P
  <2>3. A[i] = CHOOSE k \in S : P(k, i)
    BY <1>2
  <2>4. A[i] \in S /\ P(A[i], i)
    BY <2>1, <2>2, <2>3
  <2> QED
    BY <2>1, <2>4
<1> HIDE DEF P
<1>4. A \in [1 .. n -> S]
  <2> HIDE DEF n
  <2> QED
    BY <1>2, <1>3
<1> QED
  BY <1>1, <1>3, <1>4

\* The smaller of two numbers.
LEMMA MinOfTwo ==
  ASSUME NEW a \in Nat, NEW b \in Nat
  PROVE  /\ Rest!Min({a, b}) \in Nat /\ Rest!Min({a, b}) <= a /\ Rest!Min({a, b}) <= b
         /\ Rest!Min({a, b}) = a \/ Rest!Min({a, b}) = b
<1> DEFINE P(x) == x \in {a, b} /\ \A y \in {a, b} : x <= y
<1>1. \E x : P(x)
  <2>1. CASE a <= b
    <3>1. P(a)
      BY <2>1
    <3> HIDE DEF P
    <3> QED
      BY <3>1
  <2>2. CASE ~(a <= b)
    <3>1. P(b)
      BY <2>2
    <3> HIDE DEF P
    <3> QED
      BY <3>1
  <2> QED
    BY <2>1, <2>2
<1>2. Rest!Min({a, b}) = CHOOSE x : P(x)
  BY Zenon DEF Rest!Min
<1>3. PICK m : m = Rest!Min({a, b}) /\ P(m)
  <2> HIDE DEF P
  <2> QED
    BY <1>1, <1>2, Zenon
<1>4. m \in {a, b} /\ m <= a /\ m <= b
  BY <1>3
<1>5. m \in Nat /\ (m = a \/ m = b)
  BY <1>4
<1> QED
  BY <1>3, <1>4, <1>5, Zenon

\* b lists keys of S, all of them or the first ones, as many as the limit.
ListsFirst(b, S, limit) ==
  /\ Rest!ToSet(b) \subseteq S
  /\ \A k \in S : \/ k \in Rest!ToSet(b)
                  \/ Len(b) = limit /\ \A i \in 1 .. Len(b) : b[i] < k

\* A scan lists keys from its start on, and leaves out only keys behind the
\* ones it lists, when these are as many as it may list.
LEMMA ScanLists ==
  ASSUME NEW t, DOMAIN t \subseteq Nat, IsFiniteSet(DOMAIN t), NEW start \in Nat, NEW limit \in Nat,
         NEW S, S = {k \in DOMAIN t : k >= start}, NEW b, b = Rest!ScanKey(t, start, limit)
  PROVE  ListsFirst(b, S, limit)
<1> DEFINE n == Cardinality(S)
           A == Rest!Ascending(S)
           m == Rest!Min({limit, n})
<1>1. S \in SUBSET Nat /\ IsFiniteSet(S)
  <2>1. S \subseteq DOMAIN t
    OBVIOUS
  <2> QED
    BY <2>1, FS_Subset
<1>2. n \in Nat /\ A \in [1 .. n -> S] /\ \A i \in 1 .. n : KeyRank(S, A[i]) = i - 1
  BY <1>1, AscendingKeys
<1>3. b = Rest!Take(A, m)
  <2>1. Rest!Cardinality(S) = n
    BY RestSizes
  <2> QED
    BY <2>1, Zenon DEF Rest!ScanKey
<1> HIDE DEF n, A
<1>4. m \in Nat /\ m <= limit /\ m <= n /\ (m = limit \/ m = n)
  BY <1>2, MinOfTwo
<1> HIDE DEF m
<1>5. A \in Seq(S) /\ Len(A) = n
  BY <1>2
<1>6. /\ b \in Seq(S) /\ Len(b) = m
      /\ \A i \in 1 .. m : b[i] = A[i]
  <2>1. m \in 0 .. Len(A)
    BY <1>2, <1>4, <1>5
  <2>2. b = Parsing!Take(A, m)
    BY <1>3, SameHelpers, Zenon
  <2> QED
    BY <1>5, <2>1, <2>2, TakeIs, Zenon
<1>7. Rest!ToSet(b) = {b[i] : i \in 1 .. m}
  <2>1. DOMAIN b = 1 .. m
    BY <1>6
  <2> QED
    BY <2>1, Zenon DEF Rest!ToSet
<1>8. Rest!ToSet(b) \subseteq S
  <2>1. \A i \in 1 .. m : b[i] \in S
    BY <1>6
  <2> QED
    BY <1>7, <2>1
<1>9. ASSUME NEW k \in S, k \notin Rest!ToSet(b)
      PROVE  Len(b) = limit /\ \A i \in 1 .. Len(b) : b[i] < k
  <2> DEFINE j == KeyRank(S, k) + 1
  <2>1. KeyRank(S, k) \in 0 .. n - 1
    BY <1>1, KeyRankType DEF n
  <2>2. j \in 1 .. n /\ KeyRank(S, k) = j - 1
    BY <1>2, <2>1
  <2> HIDE DEF j
  <2>3. A[j] = k
    <3>1. A[j] \in S /\ KeyRank(S, A[j]) = KeyRank(S, k)
      BY <1>2, <2>2
    <3> QED
      BY <1>1, <3>1, KeyRankOrder
  <2>4. j > m
    <3> SUFFICES ASSUME j <= m PROVE FALSE
      BY <1>4, <2>2
    <3>1. j \in 1 .. m
      BY <1>4, <2>2
    <3>2. b[j] = k
      BY <1>6, <2>3, <3>1
    <3> QED
      BY <1>7, <1>9, <3>1, <3>2
  <2>5. m = limit
    BY <1>4, <2>2, <2>4, <1>2
  <2>6. ASSUME NEW i \in 1 .. m PROVE b[i] < k
    <3>1. i \in 1 .. n /\ b[i] = A[i] /\ A[i] \in S /\ KeyRank(S, A[i]) = i - 1
      <4>1. i \in 1 .. n
        BY <1>2, <1>4
      <4> QED
        BY <1>2, <1>6, <4>1
    <3>2. i - 1 < j - 1
      BY <1>4, <2>2, <2>4
    <3>3. KeyRank(S, A[i]) < KeyRank(S, k)
      BY <2>2, <3>1, <3>2
    <3> QED
      BY <1>1, <3>1, <3>3, KeyRankOrder
  <2> QED
    BY <1>6, <2>5, <2>6
<1> QED
  BY <1>8, <1>9 DEF ListsFirst

-----------------------------------------------------------------------------
(* Backend: the requests.                                                  *)

\* A client that CheckSession lets in is authorised.
LEMMA SessionAuthorised ==
  ASSUME NEW r, Rest!CheckSession(r)
  PROVE  Rest!Authorised(r)
BY DEF Rest!CheckSession, Rest!Authorised

\* A reply that is no answer about rows, for a request that stores nothing.
LEMMA PlainReply ==
  ASSUME BackendInv, UNCHANGED rows, NEW r, NEW status, status # "ACCEPTED",
         Rest!SendReply(r, FALSE, status, Rest!None),
         status = "OK" => r.method \notin {"POST", "PUT"},
         status \in {"OK", "NOTFOUND"} =>
           ~(Route[r.key] \in {"rest", "admin"} /\ r.key # 0) /\ Route[r.key] # "scan"
  PROVE  BackendInv' /\ Rest!ReadsAcked'
<1>1. BackendInv'
  BY NothingChanged, Zenon
<1>2. Told(r, FALSE, status, Rest!None, acked')
  BY Zenon DEF Told
<1>3. FALSE \in BOOLEAN
  OBVIOUS
<1> QED
  BY <1>1, <1>2, <1>3, ReadsTold

\* A request keeps the invariant and is answered with what clients knew.
LEMMA BackendStep ==
  ASSUME BackendInv, Rest!StorableRequests, Rest!Next
  PROVE  BackendInv' /\ Rest!ReadsAcked'
<1>1. PICK r \in Requests : \/ Rest!Unauthorised(r) \/ Rest!EmptyPath(r) \/ Rest!RESTCallback(r)
                            \/ Rest!AdminShellCallback(r) \/ Rest!StatisticsCallback(r)
                            \/ Rest!ConfigCallback(r) \/ Rest!KeyScanCallback(r)
  BY Zenon DEF Rest!Next
<1>2. r.method \in {"POST", "PUT"} => Route[r.key] \in {"rest", "admin"}
  BY Zenon DEF Rest!StorableRequests
<1>3. r.key \in Paths /\ r.start \in Nat /\ r.limit \in Nat
  BY HttpAssumption DEF Rest!BackendAssumption
<1>4. Rest!Database(r) \in Rest!Databases /\ "sysdb" \in Rest!Databases
  BY DEF Rest!Database, Rest!Databases
<1>5. CASE Rest!Unauthorised(r)
  <2>1. UNCHANGED rows /\ Rest!SendReply(r, FALSE, "UNAUTH", Rest!None)
    BY <1>5 DEF Rest!Unauthorised
  <2>2. "UNAUTH" # "ACCEPTED" /\ "UNAUTH" \notin {"OK", "NOTFOUND"} /\ "UNAUTH" # "OK"
    OBVIOUS
  <2> QED
    BY <2>1, <2>2, PlainReply, Zenon
<1>6. CASE Rest!EmptyPath(r)
  <2>1. /\ UNCHANGED rows /\ Rest!SendReply(r, FALSE, "NOTFOUND", Rest!None)
        /\ Route[r.key] = "rest" /\ r.key = 0
    BY <1>6 DEF Rest!EmptyPath
  <2>2. "NOTFOUND" # "ACCEPTED" /\ "NOTFOUND" # "OK" /\ Route[r.key] # "scan"
    BY <2>1
  <2> QED
    BY <2>1, <2>2, PlainReply, Zenon
<1>7. CASE Rest!RESTCallback(r)
  <2>1. /\ Route[r.key] = "rest" /\ Rest!CheckSession(r)
        /\ \E fails \in BOOLEAN : Rest!RESTfulPro(r, Rest!Database(r), fails)
    BY <1>7, Zenon DEF Rest!RESTCallback
  <2>2. PICK fails \in BOOLEAN : Rest!RESTfulPro(r, Rest!Database(r), fails)
    BY <2>1
  <2>3. Route[r.key] # "scan" /\ Rest!Database(r) = Rest!Addressed(r)
    BY <2>1 DEF Rest!Database, Rest!Addressed
  <2> QED
    BY <1>4, <2>1, <2>2, <2>3, RestStep, SessionAuthorised, Zenon
<1>8. CASE Rest!AdminShellCallback(r)
  <2>1. /\ Route[r.key] = "admin" /\ Rest!CheckSession(r)
        /\ \E fails \in BOOLEAN : Rest!RESTfulPro(r, "sysdb", fails)
    BY <1>8, Zenon DEF Rest!AdminShellCallback
  <2>2. PICK fails \in BOOLEAN : Rest!RESTfulPro(r, "sysdb", fails)
    BY <2>1
  <2>3. Route[r.key] # "scan" /\ "sysdb" = Rest!Addressed(r)
    BY <2>1 DEF Rest!Addressed
  <2> QED
    BY <1>4, <2>1, <2>2, <2>3, RestStep, SessionAuthorised, Zenon
<1>9. CASE Rest!StatisticsCallback(r) \/ Rest!ConfigCallback(r)
  <2>1. /\ UNCHANGED rows /\ Rest!SendReply(r, FALSE, "OK", Rest!None)
        /\ Route[r.key] = "statistics" \/ Route[r.key] = "config"
    BY <1>9 DEF Rest!StatisticsCallback, Rest!ConfigCallback
  <2>2. "OK" # "ACCEPTED" /\ Route[r.key] # "scan" /\ Route[r.key] \notin {"rest", "admin"}
    BY <2>1
  <2>3. r.method \notin {"POST", "PUT"}
    BY <1>2, <2>2, Zenon
  <2> QED
    BY <2>1, <2>2, <2>3, PlainReply, Zenon
<1>10. CASE Rest!KeyScanCallback(r)
  <2> DEFINE t == rows[Rest!Database(r)]
  <2>1. Route[r.key] = "scan" /\ UNCHANGED rows
    BY <1>10 DEF Rest!KeyScanCallback
  <2>2. PICK fails \in BOOLEAN :
          Rest!SendReply(r, fails, "OK", IF fails THEN Rest!None ELSE Rest!ScanKey(t, r.start, r.limit))
    BY <1>10, Zenon DEF Rest!KeyScanCallback
  <2>3. PICK b : b = IF fails THEN Rest!None ELSE Rest!ScanKey(t, r.start, r.limit)
    OBVIOUS
  <2>4. Rest!SendReply(r, fails, "OK", b)
    BY <2>2, <2>3, Zenon
  <2>5. "OK" # "ACCEPTED" /\ Route[r.key] \notin {"rest", "admin"}
    BY <2>1
  <2>6. acked' = acked /\ BackendInv'
    <3>1. r.method \notin {"POST", "PUT"}
      BY <1>2, <2>5, Zenon
    <3> QED
      BY <2>1, <2>4, <2>5, <3>1, NothingChanged, Zenon
  <2>7. acked'[Rest!Addressed(r)] = t
    <3>1. Rest!Addressed(r) = Rest!Database(r)
      BY <2>1 DEF Rest!Database, Rest!Addressed
    <3> QED
      BY <2>6, <3>1, Zenon DEF BackendInv
  <2>8. Told(r, fails, "OK", b, acked')
    <3>1. CASE fails
      BY <3>1, Zenon DEF Told
    <3>2. CASE ~fails
      <4>1. DOMAIN t \subseteq Nat /\ IsFiniteSet(DOMAIN t)
        BY <1>4, Zenon DEF BackendInv
      <4>2. b = Rest!ScanKey(t, r.start, r.limit)
        BY <2>3, <3>2, Zenon
      <4> HIDE DEF t
      <4>3. PICK S : S = {k \in DOMAIN t : k >= r.start}
        OBVIOUS
      <4>4. ListsFirst(b, S, r.limit)
        BY <1>3, <4>1, <4>2, <4>3, ScanLists
      <4> QED
        BY <2>5, <2>7, <4>3, <4>4, Zenon DEF Told, ListsFirst
    <3> QED
      BY <3>1, <3>2
  <2> QED
    BY <2>4, <2>6, <2>8, ReadsTold
<1> QED
  BY <1>1, <1>5, <1>6, <1>7, <1>8, <1>9, <1>10

\* The invariant, with what the last reply told.
BackendTold == BackendInv /\ Rest!ReadsAcked

\* It holds of the model, when the uploads can be stored.
LEMMA BackendInvariant == Rest!StorableRequests /\ MCSpec => []BackendTold
<1> SUFFICES ASSUME Rest!StorableRequests PROVE MCSpec => []BackendTold
  OBVIOUS
<1>1. MCInit => BackendTold
  <2> SUFFICES ASSUME MCInit PROVE BackendTold
    OBVIOUS
  <2>1. /\ rows = [db \in Rest!Databases |-> Rest!None] /\ acked = [db \in Rest!Databases |-> Rest!None]
        /\ answer = Rest!NoReply
    BY DEF MCInit, Rest!Init
  <2>2. Rest!None = <<>> /\ DOMAIN <<>> = {} /\ {} \subseteq Nat /\ IsFiniteSet({})
    BY FS_EmptySet DEF Rest!None
  <2>3. BackendInv
    <3>1. rows = acked /\ DOMAIN rows = Rest!Databases /\ \A db \in Rest!Databases : rows[db] = <<>>
      BY <2>1, <2>2, Zenon
    <3> QED
      BY <2>2, <3>1, Zenon DEF BackendInv
  <2>4. answer.status \notin {"OK", "NOTFOUND"}
    BY <2>1 DEF Rest!NoReply
  <2>5. Rest!ReadsAcked
    BY <2>4, Zenon DEF Rest!ReadsAcked
  <2> QED
    BY <2>3, <2>5 DEF BackendTold
<1>2. BackendTold /\ [MCNext]_<<part, vars, backend, parsing>> => BackendTold'
  <2> SUFFICES ASSUME BackendTold, [MCNext]_<<part, vars, backend, parsing>> PROVE BackendTold'
    OBVIOUS
  <2>1. Rest!Next \/ UNCHANGED backend
    BY Zenon DEF MCNext
  <2>2. CASE Rest!Next
    BY <2>2, BackendStep DEF BackendTold
  <2>3. CASE UNCHANGED backend
    <3>1. rows' = rows /\ acked' = acked /\ answer' = answer
      BY <2>3 DEF backend
    <3>2. BackendInv'
      BY <3>1 DEF BackendTold, BackendInv
    <3>3. Rest!ReadsAcked'
      BY <3>1 DEF BackendTold, Rest!ReadsAcked, Rest!Addressed
    <3> QED
      BY <3>2, <3>3 DEF BackendTold
  <2> QED
    BY <2>1, <2>2, <2>3
<1> QED
  BY <1>1, <1>2, PTL DEF MCSpec

\* The databases hold what clients were told, for every set of requests whose
\* uploads can be stored: what RESTfulPro writes of a body is, byte by byte,
\* what the client meant, in the database the client meant.
THEOREM BackendAckedIsKept == Rest!StorableRequests /\ MCSpec => []AckedIsKept
<1>1. BackendTold => AckedIsKept
  BY DEF BackendTold, BackendInv, AckedIsKept, Rest!AckedIsKept
<1> QED
  BY <1>1, BackendInvariant, PTL

\* Under the same condition a GET tells what clients were told before, and a
\* scan lists the first keys from its start on, for any keys and limits.
THEOREM BackendReadsAcked == Rest!StorableRequests /\ MCSpec => []ReadsAcked
<1>1. BackendTold => ReadsAcked
  BY DEF BackendTold, ReadsAcked
<1> QED
  BY <1>1, BackendInvariant, PTL
=============================================================================
