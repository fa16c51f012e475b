-------------------------- MODULE RedisConnections --------------------------
(***************************************************************************)
(* The connections of the redis port (common/xRedisServerLib.cpp): the     *)
(* objects, their libevent registrations, connectionmap, which finds them  *)
(* by session number, and the timer that closes the idle ones.             *)
(*                                                                         *)
(* All callbacks run on one thread.  Each refers to its connection by a    *)
(* raw pointer, and frees it through connectionmap by its session number.  *)
(* Time is kept as the age of each connection's last activity and as what  *)
(* is left of its timer, so it needs no bound.                             *)
(***************************************************************************)
EXTENDS Integers, Functions

CONSTANTS
  Objects,        \* addresses at which a connection object may be allocated
  SidSpace,       \* how many session numbers there are: 2^32 in the code
  MaxAccepts,     \* bound: connections accepted
  TIMEVAL_TIME,   \* the timer's period: 600 in the code
  TIMEOUT_CLOSE   \* idle time after which a connection is closed: 3600 in the code

ConnectionsAssumption ==
  /\ SidSpace \in Nat \ {0} /\ MaxAccepts \in Nat
  /\ TIMEVAL_TIME \in Nat \ {0} /\ TIMEOUT_CLOSE \in Nat

Sids == 0 .. SidSpace - 1

Off == -1         \* a timer that is not armed

Longest == TIMEOUT_CLOSE + TIMEVAL_TIME

VARIABLES
  accepted,       \* connections accepted so far; sessionbase is this number's low bits
  live,           \* the objects that are allocated
  gone,           \* the ones whose peer has closed the connection
  sid,            \* the session number of each
  idle,           \* time since activetime, at most Longest + 1
  timer,          \* what is left of evtimer, or Off
  bev,            \* the objects that a bufferevent's callbacks point to
  connectionmap   \* session number -> object

vars == <<accepted, live, gone, sid, idle, timer, bev, connectionmap>>

sessionbase == accepted % SidSpace

Init ==
  /\ accepted = 0 /\ live = {} /\ gone = {} /\ bev = {}
  /\ sid = [c \in Objects |-> 0]
  /\ idle = [c \in Objects |-> 0]
  /\ timer = [c \in Objects |-> Off]
  /\ connectionmap = [s \in {} |-> 0]
-----------------------------------------------------------------------------
\* map::insert leaves an entry that is there as it is.
Insert(f, s, c) == [x \in DOMAIN f \cup {s} |-> IF x \in DOMAIN f THEN f[x] ELSE c]

(***************************************************************************)
(* Faulty variants, each with the slip a change of this code could make.   *)
(***************************************************************************)
\* The timer of a freed connection stays armed.
FreeConnectionKeepsTimer(s, timers) ==
  IF s \notin DOMAIN connectionmap THEN timer' = timers /\ UNCHANGED <<live, bev, connectionmap>>
  ELSE LET c == connectionmap[s]
       IN  /\ live' = live \ {c} /\ bev' = bev \ {c} /\ timer' = timers
           /\ connectionmap' = Restrict(connectionmap, DOMAIN connectionmap \ {s})

\* The entry of a freed connection stays in the map.
FreeConnectionKeepsEntry(s, timers) ==
  IF s \notin DOMAIN connectionmap THEN timer' = timers /\ UNCHANGED <<live, bev, connectionmap>>
  ELSE LET c == connectionmap[s]
       IN  /\ live' = live \ {c} /\ bev' = bev \ {c} /\ timer' = [timers EXCEPT ![c] = Off]
           /\ UNCHANGED connectionmap
-----------------------------------------------------------------------------
(***************************************************************************)
(* FreeConnection: event_del, bufferevent_free, delete and erase for the   *)
(* object that the map has under the number, if it has one; timers are the *)
(* timers as they are otherwise.                                           *)
(***************************************************************************)
FreeConnection(s, timers) ==
  IF s \notin DOMAIN connectionmap THEN timer' = timers /\ UNCHANGED <<live, bev, connectionmap>>
  ELSE LET c == connectionmap[s]
       IN  /\ live' = live \ {c} /\ bev' = bev \ {c} /\ timer' = [timers EXCEPT ![c] = Off]
           /\ connectionmap' = Restrict(connectionmap, DOMAIN connectionmap \ {s})

(***************************************************************************)
(* AcceptCallback and MallocConnection.  sessionbase counts modulo its     *)
(* width.                                                                  *)
(***************************************************************************)
MallocConnection(c) ==
  /\ c \notin live /\ accepted < MaxAccepts
  /\ accepted' = accepted + 1
  /\ live' = live \cup {c} /\ bev' = bev \cup {c} /\ gone' = gone \ {c}
  /\ sid' = [sid EXCEPT ![c] = sessionbase]
  /\ idle' = [idle EXCEPT ![c] = 0]
  /\ timer' = [timer EXCEPT ![c] = TIMEVAL_TIME]
  /\ connectionmap' = Insert(connectionmap, sessionbase, c)

\* ReadCallback and ProcessCmd, which note the time of the last activity.
ReadCallback(c) ==
  /\ c \in bev \ gone
  /\ idle' = [idle EXCEPT ![c] = 0]
  /\ UNCHANGED <<accepted, live, gone, sid, timer, bev, connectionmap>>

\* The peer closes the connection, or the connection breaks.
PeerCloses(c) ==
  /\ c \in live \ gone
  /\ gone' = gone \cup {c}
  /\ UNCHANGED <<accepted, live, sid, idle, timer, bev, connectionmap>>

\* ErrorCallback, on which the bufferevent stops.
ErrorCallback(c) ==
  /\ c \in bev \cap gone
  /\ FreeConnection(sid[c], timer)
  /\ UNCHANGED <<accepted, gone, sid, idle>>

\* OnTimer
OnTimer(c) == idle[c] <= TIMEOUT_CLOSE

\* A faulty variant: the period is added to the idle time that is allowed.
TimeoutCallbackLate(c) ==
  /\ timer[c] = 0
  /\ IF idle[c] > TIMEOUT_CLOSE + TIMEVAL_TIME THEN FreeConnection(sid[c], [timer EXCEPT ![c] = Off])
     ELSE /\ timer' = [timer EXCEPT ![c] = TIMEVAL_TIME]
          /\ UNCHANGED <<live, bev, connectionmap>>
  /\ UNCHANGED <<accepted, gone, sid, idle>>

\* A faulty variant: idle for a period is idle.
TimeoutCallbackPeriod(c) ==
  /\ timer[c] = 0
  /\ IF idle[c] >= TIMEVAL_TIME THEN FreeConnection(sid[c], [timer EXCEPT ![c] = Off])
     ELSE /\ timer' = [timer EXCEPT ![c] = TIMEVAL_TIME]
          /\ UNCHANGED <<live, bev, connectionmap>>
  /\ UNCHANGED <<accepted, gone, sid, idle>>

\* TimeoutCallback; the event is not persistent, it is added again.
TimeoutCallback(c) ==
  /\ timer[c] = 0
  /\ IF ~OnTimer(c) THEN FreeConnection(sid[c], [timer EXCEPT ![c] = Off])
     ELSE /\ timer' = [timer EXCEPT ![c] = TIMEVAL_TIME]
          /\ UNCHANGED <<live, bev, connectionmap>>
  /\ UNCHANGED <<accepted, gone, sid, idle>>

\* A second passes; libevent runs a timer that is due before it waits again.
Tick ==
  /\ \A c \in Objects : timer[c] # 0
  /\ timer' = [c \in Objects |-> IF timer[c] = Off THEN Off ELSE timer[c] - 1]
  /\ idle' = [c \in Objects |->
                IF c \in live /\ idle[c] <= Longest THEN idle[c] + 1 ELSE idle[c]]
  /\ UNCHANGED <<accepted, live, gone, sid, bev, connectionmap>>

Next ==
  \/ Tick
  \/ \E c \in Objects :
       \/ MallocConnection(c) \/ ReadCallback(c) \/ PeerCloses(c)
       \/ ErrorCallback(c) \/ TimeoutCallback(c)

Spec == Init /\ [][Next]_vars
-----------------------------------------------------------------------------
\* The objects, their registrations and the map are well-typed.
TypeOK ==
  /\ accepted \in 0 .. MaxAccepts
  /\ live \subseteq Objects /\ gone \subseteq Objects /\ bev \subseteq Objects
  /\ sid \in [Objects -> Sids]
  /\ idle \in [Objects -> 0 .. Longest + 1]
  /\ timer \in [Objects -> Off .. TIMEVAL_TIME]
  /\ DOMAIN connectionmap \subseteq Sids
  /\ \A s \in DOMAIN connectionmap : connectionmap[s] \in Objects

(***************************************************************************)
(* No callback is left registered for an object that has been deleted:     *)
(* FreeConnection removes the timer and the bufferevent with it, whichever *)
(* of the two callbacks it is called from.                                 *)
(***************************************************************************)
NoDangling ==
  \A c \in Objects : c \notin live => timer[c] = Off /\ c \notin bev

(***************************************************************************)
(* connectionmap finds exactly the open connections, each under its number *)
(* (MallocConnection, FreeConnection): none is leaked, none is freed twice.*)
(***************************************************************************)
MapExact ==
  /\ \A s \in DOMAIN connectionmap :
       connectionmap[s] \in live /\ sid[connectionmap[s]] = s
  /\ \A c \in live : sid[c] \in DOMAIN connectionmap /\ connectionmap[sid[c]] = c

(***************************************************************************)
(* A connection on which nothing happens is closed after TIMEOUT_CLOSE and *)
(* at most one period of its timer more (OnTimer, TimeoutCallback).        *)
(***************************************************************************)
IdleBounded == \A c \in live : idle[c] <= Longest

(***************************************************************************)
(* A connection is closed only because its own peer has gone or because it *)
(* was idle itself (ErrorCallback, TimeoutCallback).                       *)
(***************************************************************************)
ClosedForItself ==
  [][\A c \in live \ live' : c \in gone \/ idle[c] > TIMEOUT_CLOSE]_vars
=============================================================================
