--------------------------- MODULE RedisPortProofs ---------------------------
(***************************************************************************)
(* Proofs about the redis port below its commands: RedisConnections, for   *)
(* any set of addresses, period and idle limit, and any number of          *)
(* connections, and RespStream, for any commands and any division of the   *)
(* stream into pieces.                                                     *)
(*                                                                         *)
(* Session numbers repeat once SidSpace connections have been accepted,    *)
(* and map::insert then leaves the older connection in the map.  What      *)
(* depends on the map is therefore proved of the states before that, and,  *)
(* as a corollary, of a server that never gets there.                      *)
(***************************************************************************)
EXTENDS MCRedisPort, FiniteSetTheorems, WellFoundedInduction, TLAPS
-----------------------------------------------------------------------------
(* The connections.                                                        *)

\* No session number has been given out twice.
SidsFresh == accepted <= SidSpace

\* The numbers in the map have been given out.
MapGiven == \A s \in DOMAIN connectionmap : s < accepted

(***************************************************************************)
(* The timer of an open connection is armed, and it runs out before the    *)
(* connection has been idle for Longest.                                   *)
(***************************************************************************)
TimerArmed ==
  \A c \in live : timer[c] \in Nat /\ idle[c] + timer[c] <= Conn!Longest

\* What holds of the map and the timers while the numbers are fresh.
FreshInv == MapGiven /\ Conn!MapExact /\ TimerArmed

ConnInv == Conn!TypeOK /\ Conn!NoDangling /\ (SidsFresh => FreshInv)

(***************************************************************************)
(* A number that has not wrapped is its own remainder.                     *)
(***************************************************************************)
LEMMA SmallMod ==
  ASSUME NEW n \in Nat \ {0}, NEW a \in Nat
  PROVE  a % n \in 0 .. n - 1 /\ (a < n => a % n = a)
OBVIOUS

(***************************************************************************)
(* The invariant holds at the start.                                       *)
(***************************************************************************)
LEMMA InitConn == Conn!ConnectionsAssumption /\ Conn!Init => ConnInv
BY DEF Conn!ConnectionsAssumption, Conn!Init, ConnInv, Conn!TypeOK, Conn!NoDangling,
       SidsFresh, FreshInv,
       MapGiven, Conn!MapExact, TimerArmed, Conn!Sids, Conn!Off, Conn!Longest

(***************************************************************************)
(* A new connection: its number is below accepted', so no entry of the map *)
(* has it while the numbers are fresh.                                     *)
(***************************************************************************)
LEMMA MallocConn ==
  ASSUME Conn!ConnectionsAssumption, ConnInv, NEW c \in Objects, Conn!MallocConnection(c)
  PROVE  ConnInv'
<1>1. /\ Conn!sessionbase \in Conn!Sids
      /\ SidsFresh' => Conn!sessionbase = accepted
  <2>1. SidSpace \in Nat \ {0} /\ accepted \in Nat /\ accepted' = accepted + 1
    BY DEF Conn!ConnectionsAssumption, ConnInv, Conn!TypeOK, Conn!MallocConnection
  <2>2. /\ accepted % SidSpace \in 0 .. SidSpace - 1
        /\ accepted < SidSpace => accepted % SidSpace = accepted
    BY <2>1, SmallMod
  <2> QED
    BY <2>1, <2>2 DEF Conn!sessionbase, Conn!Sids, SidsFresh
<1>2. /\ DOMAIN connectionmap' = DOMAIN connectionmap \cup {Conn!sessionbase}
      /\ \A x \in DOMAIN connectionmap : connectionmap'[x] = connectionmap[x]
      /\ Conn!sessionbase \notin DOMAIN connectionmap => connectionmap'[Conn!sessionbase] = c
  BY DEF Conn!Insert, Conn!MallocConnection
<1>3. Conn!TypeOK'
  BY <1>1, <1>2 DEF Conn!ConnectionsAssumption, ConnInv, Conn!TypeOK, Conn!MallocConnection,
     Conn!Off, Conn!Longest
<1>4. Conn!NoDangling'
  BY DEF ConnInv, Conn!TypeOK, Conn!NoDangling, Conn!MallocConnection
<1>5. ASSUME SidsFresh' PROVE FreshInv'
  <2>1. FreshInv
    BY <1>5 DEF ConnInv, Conn!TypeOK, SidsFresh, Conn!MallocConnection,
       Conn!ConnectionsAssumption
  <2>2. Conn!sessionbase \notin DOMAIN connectionmap /\ Conn!sessionbase = accepted
    BY <1>1, <1>5, <2>1 DEF FreshInv, MapGiven, ConnInv, Conn!TypeOK, Conn!Sids
  <2>3. MapGiven'
    BY <1>2, <2>1, <2>2
    DEF FreshInv, MapGiven, Conn!MallocConnection, ConnInv, Conn!TypeOK, Conn!Sids,
    Conn!ConnectionsAssumption
  <2>4. Conn!MapExact'
    BY <1>2, <2>1, <2>2 DEF FreshInv, Conn!MapExact, Conn!MallocConnection, ConnInv, Conn!TypeOK
  <2>5. TimerArmed'
    BY <2>1 DEF FreshInv, TimerArmed, Conn!MallocConnection, ConnInv, Conn!TypeOK,
       Conn!ConnectionsAssumption, Conn!Longest
  <2> QED
    BY <2>3, <2>4, <2>5 DEF FreshInv
<1> QED
  BY <1>3, <1>4, <1>5 DEF ConnInv

(***************************************************************************)
(* FreeConnection removes the object it finds with its registrations; the  *)
(* timers it is given may differ from the ones there are only in one that  *)
(* is off.                                                                 *)
(***************************************************************************)
LEMMA FreeConn ==
  ASSUME Conn!ConnectionsAssumption, ConnInv, NEW c \in Objects,
         NEW timers \in {timer, [timer EXCEPT ![c] = Conn!Off]},
         Conn!FreeConnection(sid[c], timers), c \in live,
         UNCHANGED <<accepted, gone, sid, idle>>
  PROVE  /\ ConnInv'
         /\ SidsFresh => live' = live \ {c}
<1>1. /\ timers \in [Objects -> Conn!Off .. TIMEVAL_TIME]
      /\ \A d \in Objects \ {c} : timers[d] = timer[d]
  BY DEF ConnInv, Conn!TypeOK, Conn!Off, Conn!ConnectionsAssumption
<1>2. CASE sid[c] \notin DOMAIN connectionmap
  <2>1. timer' = timers /\ UNCHANGED <<live, bev, connectionmap>>
    BY <1>2 DEF Conn!FreeConnection
  <2>2. Conn!TypeOK'
    BY <1>1, <2>1 DEF ConnInv, Conn!TypeOK
  <2>3. Conn!NoDangling'
    BY <1>1, <2>1 DEF ConnInv, Conn!NoDangling, Conn!TypeOK
  <2>4. ~SidsFresh
    BY <1>2 DEF ConnInv, FreshInv, Conn!MapExact
  <2> QED
    BY <2>2, <2>3, <2>4 DEF ConnInv, SidsFresh
<1>3. CASE sid[c] \in DOMAIN connectionmap
  <2> DEFINE d == connectionmap[sid[c]]
  <2>1. /\ d \in Objects
        /\ live' = live \ {d} /\ bev' = bev \ {d} /\ timer' = [timers EXCEPT ![d] = Conn!Off]
        /\ DOMAIN connectionmap' = DOMAIN connectionmap \ {sid[c]}
        /\ \A x \in DOMAIN connectionmap' : connectionmap'[x] = connectionmap[x]
    BY <1>3 DEF Conn!FreeConnection, Conn!Restrict, ConnInv, Conn!TypeOK
  <2> HIDE DEF d
  <2>2. Conn!TypeOK'
    BY <1>1, <2>1 DEF ConnInv, Conn!TypeOK, Conn!Off, Conn!ConnectionsAssumption
  <2>3. Conn!NoDangling'
    BY <1>1, <2>1 DEF ConnInv, Conn!NoDangling, Conn!TypeOK
  <2>4. ASSUME SidsFresh PROVE d = c /\ FreshInv'
    <3>1. FreshInv /\ d = c
      BY <2>4 DEF ConnInv, FreshInv, Conn!MapExact, d
    <3>2. MapGiven'
      BY <2>1, <3>1 DEF FreshInv, MapGiven
    <3>3. Conn!MapExact'
      BY <2>1, <3>1 DEF FreshInv, Conn!MapExact, ConnInv, Conn!TypeOK
    <3>4. TimerArmed'
      BY <1>1, <2>1, <3>1 DEF FreshInv, TimerArmed, ConnInv, Conn!TypeOK
    <3> QED
      BY <3>1, <3>2, <3>3, <3>4 DEF FreshInv
  <2> QED
    BY <2>1, <2>2, <2>3, <2>4 DEF ConnInv, SidsFresh
<1> QED
  BY <1>2, <1>3

(***************************************************************************)
(* An object with a registration is allocated, so the callbacks refer to   *)
(* one that is.                                                            *)
(***************************************************************************)
LEMMA ErrorConn ==
  ASSUME Conn!ConnectionsAssumption, ConnInv, NEW c \in Objects, Conn!ErrorCallback(c)
  PROVE  /\ ConnInv'
         /\ SidsFresh => live' = live \ {c}
<1>1. c \in live
  BY DEF ConnInv, Conn!NoDangling, Conn!ErrorCallback
<1> QED
  BY <1>1, FreeConn DEF Conn!ErrorCallback

\* The timer of a connection frees it when it was silent for too long.
LEMMA TimeoutConn ==
  ASSUME Conn!ConnectionsAssumption, ConnInv, NEW c \in Objects, Conn!TimeoutCallback(c)
  PROVE  /\ ConnInv'
         /\ SidsFresh => live' = live \/ (live' = live \ {c} /\ idle[c] > TIMEOUT_CLOSE)
<1>1. c \in live
  BY DEF ConnInv, Conn!NoDangling, Conn!TimeoutCallback, Conn!Off
<1>2. idle[c] \in Int /\ TIMEOUT_CLOSE \in Int
  BY DEF ConnInv, Conn!TypeOK, Conn!ConnectionsAssumption, Conn!Longest
<1>3. CASE ~Conn!OnTimer(c)
  <2>1. Conn!FreeConnection(sid[c], [timer EXCEPT ![c] = Conn!Off])
    BY <1>3 DEF Conn!TimeoutCallback
  <2>2. UNCHANGED <<accepted, gone, sid, idle>>
    BY DEF Conn!TimeoutCallback
  <2> QED
    BY <1>1, <1>2, <1>3, <2>1, <2>2, FreeConn DEF Conn!OnTimer
<1>4. CASE Conn!OnTimer(c)
  <2>1. /\ timer' = [timer EXCEPT ![c] = TIMEVAL_TIME]
        /\ UNCHANGED <<accepted, gone, sid, idle, live, bev, connectionmap>>
    BY <1>4 DEF Conn!TimeoutCallback
  <2>2. Conn!TypeOK' /\ Conn!NoDangling'
    BY <1>1, <2>1 DEF ConnInv, Conn!TypeOK, Conn!NoDangling, Conn!Off,
       Conn!ConnectionsAssumption
  <2>3. SidsFresh => FreshInv'
    BY <1>2, <1>4, <2>1
    DEF ConnInv, Conn!TypeOK, FreshInv, MapGiven, Conn!MapExact, TimerArmed, Conn!OnTimer,
    Conn!Longest, Conn!ConnectionsAssumption
  <2> QED
    BY <2>1, <2>2, <2>3 DEF ConnInv, SidsFresh
<1> QED
  BY <1>3, <1>4

(***************************************************************************)
(* A tick takes as much from a timer as it adds to the idle time.          *)
(***************************************************************************)
LEMMA TickConn ==
  ASSUME Conn!ConnectionsAssumption, ConnInv, Conn!Tick
  PROVE  ConnInv'
<1>1. Conn!TypeOK'
  BY DEF ConnInv, Conn!TypeOK, Conn!Tick, Conn!Off, Conn!Longest, Conn!ConnectionsAssumption
<1>2. Conn!NoDangling'
  BY DEF ConnInv, Conn!TypeOK, Conn!NoDangling, Conn!Tick, Conn!Off
<1>3. SidsFresh => TimerArmed'
  BY DEF ConnInv, Conn!TypeOK, FreshInv, TimerArmed, Conn!Tick, Conn!Off, Conn!Longest,
         Conn!ConnectionsAssumption
<1> QED
  BY <1>1, <1>2, <1>3 DEF ConnInv, FreshInv, MapGiven, Conn!MapExact, SidsFresh, Conn!Tick

(***************************************************************************)
(* Every step keeps the invariant.                                         *)
(***************************************************************************)
LEMMA NextConn == Conn!ConnectionsAssumption /\ ConnInv /\ [Conn!Next]_(Conn!vars) => ConnInv'
<1> SUFFICES ASSUME Conn!ConnectionsAssumption, ConnInv, [Conn!Next]_(Conn!vars) PROVE ConnInv'
  OBVIOUS
<1>1. ASSUME NEW c \in Objects, Conn!ReadCallback(c) PROVE ConnInv'
  <2>1. Conn!TypeOK' /\ Conn!NoDangling'
    BY <1>1 DEF Conn!ReadCallback, ConnInv, Conn!TypeOK, Conn!NoDangling, Conn!Longest,
       Conn!ConnectionsAssumption
  <2>2. SidsFresh => TimerArmed'
    BY <1>1 DEF Conn!ReadCallback, ConnInv, Conn!TypeOK, FreshInv, TimerArmed, Conn!Longest,
       Conn!ConnectionsAssumption
  <2> QED
    BY <1>1, <2>1, <2>2 DEF Conn!ReadCallback, ConnInv, FreshInv, MapGiven, Conn!MapExact,
       SidsFresh
<1>2. ASSUME NEW c \in Objects, Conn!PeerCloses(c) PROVE ConnInv'
  BY <1>2 DEF Conn!PeerCloses, ConnInv, Conn!TypeOK, Conn!NoDangling, FreshInv, MapGiven,
     Conn!MapExact, TimerArmed, SidsFresh
<1>3. CASE UNCHANGED Conn!vars
  BY <1>3 DEF Conn!vars, ConnInv, Conn!TypeOK, Conn!NoDangling, FreshInv, MapGiven,
     Conn!MapExact, TimerArmed, SidsFresh
<1> QED
  BY <1>1, <1>2, <1>3, MallocConn, ErrorConn, TimeoutConn, TickConn DEF Conn!Next

(***************************************************************************)
(* What the invariant says of the idle time.                               *)
(***************************************************************************)
LEMMA ArmedBounds == Conn!ConnectionsAssumption /\ Conn!TypeOK /\ TimerArmed => Conn!IdleBounded
BY DEF Conn!ConnectionsAssumption, Conn!TypeOK, TimerArmed, Conn!IdleBounded, Conn!Longest

(***************************************************************************)
(* Whatever the session numbers do, no timer and no bufferevent is left    *)
(* with a callback to a deleted connection (FreeConnection).               *)
(***************************************************************************)
THEOREM ConnectionsNoDangling ==
  Conn!ConnectionsAssumption => (Conn!Spec => [](Conn!TypeOK /\ NoDangling))
<1> SUFFICES ASSUME Conn!ConnectionsAssumption
             PROVE  Conn!Spec => [](Conn!TypeOK /\ NoDangling)
  OBVIOUS
<1>1. Conn!Init => ConnInv
  BY InitConn
<1>2. ConnInv /\ [Conn!Next]_(Conn!vars) => ConnInv'
  BY NextConn
<1>3. ConnInv => Conn!TypeOK /\ NoDangling
  BY DEF ConnInv, NoDangling
<1> QED
  BY <1>1, <1>2, <1>3, PTL DEF Conn!Spec

(***************************************************************************)
(* Until the session numbers repeat, the map finds exactly the open        *)
(* connections and an idle connection is closed in time.                   *)
(***************************************************************************)
THEOREM ConnectionsExactWhileFresh ==
  Conn!ConnectionsAssumption => (Conn!Spec => [](SidsFresh => MapExact /\ IdleBounded))
<1> SUFFICES ASSUME Conn!ConnectionsAssumption
             PROVE  Conn!Spec => [](SidsFresh => MapExact /\ IdleBounded)
  OBVIOUS
<1>1. Conn!Init => ConnInv
  BY InitConn
<1>2. ConnInv /\ [Conn!Next]_(Conn!vars) => ConnInv'
  BY NextConn
<1>3. ConnInv => (SidsFresh => MapExact /\ IdleBounded)
  BY ArmedBounds DEF ConnInv, FreshInv, MapExact, IdleBounded
<1> QED
  BY <1>1, <1>2, <1>3, PTL DEF Conn!Spec

(***************************************************************************)
(* Who is closed by a step: while the numbers are fresh, only a connection *)
(* whose own peer has gone or that was idle itself.                        *)
(***************************************************************************)
LEMMA NextCloses ==
  ASSUME Conn!ConnectionsAssumption, ConnInv, SidsFresh, Conn!Next
  PROVE  \A c \in live \ live' : c \in gone \/ idle[c] > TIMEOUT_CLOSE
<1>1. ASSUME NEW c \in Objects, Conn!ErrorCallback(c)
      PROVE  live' = live \ {c} /\ c \in gone
  BY <1>1, ErrorConn DEF Conn!ErrorCallback
<1>2. ASSUME NEW c \in Objects, Conn!TimeoutCallback(c)
      PROVE  live' = live \/ (live' = live \ {c} /\ idle[c] > TIMEOUT_CLOSE)
  BY <1>2, TimeoutConn
<1>3. ASSUME NEW c \in Objects,
             Conn!MallocConnection(c) \/ Conn!ReadCallback(c) \/ Conn!PeerCloses(c)
      PROVE  live \subseteq live'
  BY <1>3 DEF Conn!MallocConnection, Conn!ReadCallback, Conn!PeerCloses
<1>4. Conn!Tick => live' = live
  BY DEF Conn!Tick
<1> QED
  BY <1>1, <1>2, <1>3, <1>4 DEF Conn!Next

(***************************************************************************)
(* A server that accepts no more connections than there are session        *)
(* numbers: connectionmap finds exactly the open connections               *)
(* (MallocConnection, FreeConnection).                                     *)
(***************************************************************************)
THEOREM ConnectionsMapExact ==
  Conn!ConnectionsAssumption /\ MaxAccepts <= SidSpace => (Conn!Spec => []MapExact)
<1> SUFFICES ASSUME Conn!ConnectionsAssumption, MaxAccepts <= SidSpace
             PROVE  Conn!Spec => []MapExact
  OBVIOUS
<1>1. Conn!TypeOK => SidsFresh
  BY DEF Conn!ConnectionsAssumption, Conn!TypeOK, SidsFresh
<1> QED
  BY <1>1, ConnectionsNoDangling, ConnectionsExactWhileFresh, PTL

(***************************************************************************)
(* Such a server closes an idle connection at most one period of its timer *)
(* after it may (OnTimer, TimeoutCallback).                                *)
(***************************************************************************)
THEOREM ConnectionsIdleBounded ==
  Conn!ConnectionsAssumption /\ MaxAccepts <= SidSpace => (Conn!Spec => []IdleBounded)
<1> SUFFICES ASSUME Conn!ConnectionsAssumption, MaxAccepts <= SidSpace
             PROVE  Conn!Spec => []IdleBounded
  OBVIOUS
<1>1. Conn!TypeOK => SidsFresh
  BY DEF Conn!ConnectionsAssumption, Conn!TypeOK, SidsFresh
<1> QED
  BY <1>1, ConnectionsNoDangling, ConnectionsExactWhileFresh, PTL

(***************************************************************************)
(* Such a server never closes a connection for what another one did        *)
(* (ErrorCallback, TimeoutCallback and FreeConnection's look-up).          *)
(***************************************************************************)
THEOREM ConnectionsClosedForItself ==
  Conn!ConnectionsAssumption /\ MaxAccepts <= SidSpace => (Conn!Spec => ClosedForItself)
<1> SUFFICES ASSUME Conn!ConnectionsAssumption, MaxAccepts <= SidSpace
             PROVE  Conn!Spec => ClosedForItself
  OBVIOUS
<1>1. Conn!Init => ConnInv
  BY InitConn
<1>2. ConnInv /\ [Conn!Next]_(Conn!vars) => ConnInv'
  BY NextConn
<1>3. ConnInv /\ [Conn!Next]_(Conn!vars) =>
        [\A c \in live \ live' : c \in gone \/ idle[c] > TIMEOUT_CLOSE]_(Conn!vars)
  <2>1. ConnInv => SidsFresh
    BY DEF Conn!ConnectionsAssumption, ConnInv, Conn!TypeOK, SidsFresh
  <2> QED
    BY <2>1, NextCloses
<1> QED
  BY <1>1, <1>2, <1>3, PTL DEF Conn!Spec, ClosedForItself, Conn!ClosedForItself
-----------------------------------------------------------------------------
(* The stream of one connection.                                           *)

\* A set of numbers that is not empty has a least one.
LEMMA LeastOf ==
  ASSUME NEW S \in SUBSET Nat, S # {}
  PROVE  \E m \in S : \A k \in S : m <= k
<1>1. IsWellFoundedOn(OpToRel(<, Nat), Nat)
  BY NatLessThanWellFounded
<1>2. PICK m \in S : \A k \in S : <<k, m>> \notin OpToRel(<, Nat)
  BY <1>1, WFMin
<1>3. \A k \in S : ~(k < m)
  BY <1>2 DEF OpToRel
<1> QED
  BY <1>3

\* The number of items.
N == Len(Stream)

\* An element of a sequence over a set is in the set.
LEMMA SeqElement == ASSUME NEW S, NEW s \in Seq(S), NEW i \in 1 .. Len(s) PROVE s[i] \in S
OBVIOUS

\* The sizes of items are numbers.
LEMMA Sizes ==
  /\ N \in Nat \ {0} /\ Items = 1 .. N
  /\ \A u \in Items : /\ Stream[u].value \in 0 .. 99 /\ Stream[u].kind \in {"*", "$"}
                      /\ Line(u) \in {4, 5} /\ Size(u) \in Nat
                      /\ Size(u) >= Line(u)
                      /\ Stream[u].kind = "$" => Size(u) = Line(u) + Stream[u].value + 2
                      /\ Stream[u].kind = "*" => Size(u) = Line(u)
<1>1. N \in Nat \ {0} /\ Items = 1 .. N
  BY StreamAssumption DEF N, Items
<1>2. ASSUME NEW u \in Items
      PROVE  Stream[u].value \in 0 .. 99 /\ Stream[u].kind \in {"*", "$"}
  <2>1. Stream[u] \in [kind : {"*", "$"}, value : 0 .. 99]
    <3>1. Stream \in Seq([kind : {"*", "$"}, value : 0 .. 99])
      BY StreamAssumption
    <3> QED
      BY <3>1, SeqElement DEF Items
  <2> QED
    BY <2>1
<1>3. ASSUME NEW u \in Items
      PROVE  /\ Line(u) \in {4, 5} /\ Size(u) \in Nat /\ Size(u) >= Line(u)
             /\ Stream[u].kind = "$" => Size(u) = Line(u) + Stream[u].value + 2
             /\ Stream[u].kind = "*" => Size(u) = Line(u)
  BY <1>2 DEF Line, Size
<1> QED
  BY <1>1, <1>2, <1>3

\* The offsets up to the n-th item.
Offsets(n, f) == f = [u \in 1 .. n |-> IF u = 1 THEN 0 ELSE f[u - 1] + Size(u - 1)]

\* There are such offsets: a least n without them would have them, since n - 1 does.
LEMMA OffsetsExist == \A n \in Nat : n <= N + 1 => \E f : Offsets(n, f)
<1> DEFINE Bad == {n \in Nat : n <= N + 1 /\ ~ \E f : Offsets(n, f)}
<1>1. SUFFICES ASSUME Bad # {} PROVE FALSE
  OBVIOUS
<1>2. PICK m \in Bad : \A k \in Bad : m <= k
  BY <1>1, LeastOf
<1>3. m # 0
  <2>1. Offsets(0, [u \in 1 .. 0 |-> 0])
    BY DEF Offsets
  <2> QED
    BY <1>2, <2>1
<1>4. PICK f : Offsets(m - 1, f)
  <2>1. m - 1 \in Nat /\ m - 1 <= N + 1 /\ ~ (m <= m - 1)
    BY <1>2, <1>3, Sizes
  <2>2. m - 1 \notin Bad
    BY <1>2, <2>1
  <2> QED
    BY <2>1, <2>2
<1> DEFINE e(u) == IF u = 1 THEN 0 ELSE f[u - 1] + Size(u - 1)
           g == [u \in 1 .. m |-> e(u)]
<1>5. \A u \in 1 .. m - 1 : f[u] = e(u)
  BY <1>4, Zenon DEF Offsets
<1>6. \A u \in 1 .. m : u # 1 => u - 1 \in 1 .. m - 1 /\ u - 1 \in 1 .. m
  BY <1>2
<1>7. \A u \in 1 .. m : u # 1 => g[u - 1] = f[u - 1]
  BY <1>5, <1>6, Zenon
<1>8. g = [u \in 1 .. m |-> IF u = 1 THEN 0 ELSE g[u - 1] + Size(u - 1)]
  BY <1>7
<1>9. Offsets(m, g)
  BY <1>8, Zenon DEF Offsets
<1> QED
  BY <1>2, <1>9

\* What the recursive definition of Start makes it.
LEMMA StartRec ==
  /\ DOMAIN Start = 1 .. N + 1 /\ Start[1] = 0
  /\ \A u \in Items : Start[u + 1] = Start[u] + Size(u)
<1>1. \E f : Offsets(N + 1, f)
  <2>1. N + 1 \in Nat /\ N + 1 <= N + 1
    BY Sizes
  <2> QED
    BY <2>1, OffsetsExist, Zenon
<1>2. Start = CHOOSE f : Offsets(N + 1, f)
  BY Zenon DEF Start, Offsets, N
<1>3. Offsets(N + 1, Start)
  BY <1>1, <1>2, Zenon
<1>4. Start = [u \in 1 .. N + 1 |-> IF u = 1 THEN 0 ELSE Start[u - 1] + Size(u - 1)]
  BY <1>3, Zenon DEF Offsets
<1> HIDE DEF Start
<1>5. \A u \in Items : u + 1 \in 1 .. N + 1 /\ u + 1 # 1 /\ (u + 1) - 1 = u
  BY Sizes
<1>6. 1 \in 1 .. N + 1
  BY Sizes
<1>7. \A v \in 1 .. N + 1 : Start[v] = IF v = 1 THEN 0 ELSE Start[v - 1] + Size(v - 1)
  BY <1>4, Zenon
<1>8. \A u \in Items : Start[u + 1] = Start[u] + Size(u)
  BY <1>5, <1>7
<1> QED
  BY <1>4, <1>6, <1>7, <1>8

\* The offsets are numbers, and every item ends where or before a later one
\* starts.
LEMMA StartsAscend ==
  /\ \A u \in 1 .. N + 1 : Start[u] \in Nat
  /\ \A u \in Items : \A w \in 1 .. N + 1 : u < w => Start[u] + Size(u) <= Start[w]
<1>1. \A u \in 1 .. N + 1 : Start[u] \in Nat
  <2> DEFINE Bad == {n \in Nat : n \in 1 .. N + 1 /\ Start[n] \notin Nat}
  <2>1. SUFFICES ASSUME Bad # {} PROVE FALSE
    BY Sizes
  <2>2. PICK m \in Bad : \A k \in Bad : m <= k
    BY <2>1, LeastOf
  <2>3. m # 1 /\ m - 1 \in Items /\ (m - 1) + 1 = m /\ m - 1 \in 1 .. N + 1
    BY <2>2, StartRec, Sizes
  <2>4. Start[m - 1] \in Nat
    BY <2>2, <2>3
  <2> QED
    BY <2>2, <2>3, <2>4, StartRec, Sizes
<1>2. ASSUME NEW u \in Items
      PROVE  \A w \in 1 .. N + 1 : u < w => Start[u] + Size(u) <= Start[w]
  <2> DEFINE Bad == {n \in Nat : n \in 1 .. N + 1 /\ u < n /\ ~(Start[u] + Size(u) <= Start[n])}
  <2>1. SUFFICES ASSUME Bad # {} PROVE FALSE
    BY Sizes
  <2>2. PICK m \in Bad : \A k \in Bad : m <= k
    BY <2>1, LeastOf
  <2>3. m # u + 1 /\ m - 1 \in Items /\ (m - 1) + 1 = m /\ m - 1 \in 1 .. N + 1 /\ u < m - 1
    BY <2>2, StartRec, Sizes, <1>1, SMTT(30)
  <2>4. Start[u] + Size(u) <= Start[m - 1]
    BY <2>2, <2>3
  <2>5. Start[m] = Start[m - 1] + Size(m - 1) /\ Size(m - 1) \in Nat /\ Start[m - 1] \in Nat
    BY <2>3, StartRec, Sizes, <1>1
  <2> QED
    BY <2>2, <2>4, <2>5, <1>1, Sizes, SMTT(30)
<1> QED
  BY <1>1, <1>2

\* The headers before item p.
Before(p) == {w \in Headers : w < p}

\* The item behind the arguments of a command.
Behind(u) == u + Stream[u].value + 1

\* Headers are numbered in order, from 1.
LEMMA Numbers ==
  /\ IsFiniteSet(Headers)
  /\ \A p \in 1 .. N + 1 : Cardinality(Before(p)) \in 0 .. Cardinality(Headers)
  /\ \A u \in Headers : Number(u) = Cardinality(Before(u)) + 1
  /\ \A u \in Headers : Number(u) \in Nat /\ Number(u) <= Cardinality(Headers)
  /\ \A u \in Headers, p \in 1 .. N + 1 : u < p => Number(u) <= Cardinality(Before(p))
  /\ \A u, w \in Headers : u < w => Number(u) < Number(w)
<1>1. IsFiniteSet(Items)
  BY Sizes, FS_Interval
<1>2. IsFiniteSet(Headers)
  BY <1>1, FS_Subset DEF Headers
<1>3. Cardinality(Headers) \in Nat
  BY <1>2, FS_CardinalityType
<1>4. ASSUME NEW T \in SUBSET Headers
      PROVE  IsFiniteSet(T) /\ Cardinality(T) \in 0 .. Cardinality(Headers)
  BY <1>2, <1>3, FS_Subset, FS_CardinalityType
<1>5. ASSUME NEW p \in 1 .. N + 1 PROVE Cardinality(Before(p)) \in 0 .. Cardinality(Headers)
  BY <1>4 DEF Before
<1>6. ASSUME NEW u \in Headers
      PROVE  Number(u) = Cardinality(Before(u)) + 1 /\ Number(u) \in 0 .. Cardinality(Headers)
  <2>1. {w \in Headers : w <= u} = Before(u) \cup {u} /\ u \notin Before(u)
    BY Sizes DEF Headers, Before
  <2>2. IsFiniteSet(Before(u))
    BY <1>4 DEF Before
  <2>3. Cardinality(Before(u) \cup {u}) = Cardinality(Before(u)) + 1
    BY <2>1, <2>2, FS_AddElement
  <2>4. {w \in Headers : w <= u} \in SUBSET Headers
    OBVIOUS
  <2> QED
    BY <2>1, <2>3, <2>4, <1>4 DEF Number
<1>7. ASSUME NEW u \in Headers, NEW p \in 1 .. N + 1, u < p
      PROVE  Number(u) <= Cardinality(Before(p))
  <2>1. {x \in Headers : x <= u} \subseteq Before(p)
    BY <1>7, Sizes DEF Headers, Before
  <2>2. IsFiniteSet(Before(p)) /\ Cardinality(Before(p)) \in Nat
    BY <1>3, <1>4 DEF Before
  <2> QED
    BY <2>1, <2>2, FS_Subset DEF Number
<1>8. ASSUME NEW u \in Headers, NEW w \in Headers, u < w PROVE Number(u) < Number(w)
  <2>1. w \in 1 .. N + 1
    BY Sizes DEF Headers
  <2> QED
    BY <2>1, <1>3, <1>5, <1>6, <1>7, <1>8
<1> QED
  BY <1>2, <1>3, <1>5, <1>6, <1>7, <1>8

\* A command ends before the next header, and no header is among its arguments.
LEMMA CommandShape ==
  ASSUME NEW h \in Headers
  PROVE  /\ h \in Items /\ Stream[h].value \in 1 .. 99
         /\ Behind(h) \in 1 .. N + 1 /\ h < Behind(h)
         /\ \A j \in 1 .. Stream[h].value : h + j \in Items /\ Stream[h + j].kind = "$"
         /\ Behind(h) \in Items => Behind(h) \in Headers
         /\ Before(Behind(h)) = {w \in Headers : w <= h}
         /\ Cardinality(Before(Behind(h))) = Number(h)
         /\ \A w \in Headers : w < Behind(h) => w <= h
<1> DEFINE v == Stream[h].value
<1>1. /\ h \in Items /\ Stream[h].kind = "*" /\ v \in 0 .. 99
  BY Sizes DEF Headers
<1>2. /\ v > 0 /\ h + v \in Items
      /\ \A w \in Items : w > h /\ w <= h + v => Stream[w].kind = "$"
      /\ h + v + 1 \in Items => Stream[h + v + 1].kind = "*"
  BY <1>1, StreamAssumption
<1>3. N \in Nat \ {0} /\ Items = 1 .. N /\ Behind(h) = h + v + 1
  BY Sizes DEF Behind
<1> HIDE DEF v
<1>4. v \in 1 .. 99 /\ Behind(h) \in 1 .. N + 1 /\ h < Behind(h)
  BY <1>1, <1>2, <1>3
<1>5. Behind(h) \in Items => Behind(h) \in Headers
  BY <1>2, <1>3 DEF Headers
<1>6. \A j \in 1 .. v : h + j \in Items /\ Stream[h + j].kind = "$"
  BY <1>1, <1>2, <1>3
<1>7. ASSUME NEW w \in Headers, w < Behind(h) PROVE w <= h
  <2>1. w \in Items /\ Stream[w].kind = "*"
    BY DEF Headers
  <2>2. ~(w > h /\ w <= h + v)
    BY <1>2, <2>1
  <2> QED
    BY <1>1, <1>3, <1>4, <1>7, <2>1, <2>2
<1>8. Before(Behind(h)) = {w \in Headers : w <= h}
  <2>1. \A w \in Headers : w \in Int
    BY <1>3 DEF Headers
  <2>2. \A w \in Headers : w < Behind(h) <=> w <= h
    BY <1>1, <1>3, <1>4, <1>7, <2>1
  <2> QED
    BY <2>2, Zenon DEF Before
<1> QED
  BY <1>1, <1>4, <1>5, <1>6, <1>7, <1>8 DEF Number, v

\* The offsets of two items differ.
LEMMA StartsDiffer ==
  ASSUME NEW u \in Items, NEW p \in 1 .. N + 1, Start[u] = Start[p]
  PROVE  u = p
<1>1. u \in Int /\ p \in Int /\ u \in 1 .. N + 1 /\ (p < u => p \in Items)
  BY Sizes
<1>2. ASSUME u < p PROVE FALSE
  BY <1>2, StartsAscend, Sizes
<1>3. ASSUME p < u PROVE FALSE
  BY <1>1, <1>3, StartsAscend, Sizes, SMTT(30)
<1> QED
  BY <1>1, <1>2, <1>3

\* The parser stands before item p, and no command is under way.
Between(p) ==
  /\ pc # "args" /\ argnum = 0 /\ argv = <<>> /\ parsed = 0
  /\ erased = Start[p] /\ (p \in Items => p \in Headers)
  /\ Len(done) = Cardinality(Before(p))

\* It is in the command with header h, behind the arguments that it has.
Within(h) ==
  /\ erased = Start[h] /\ Here = Start[h + Len(argv) + 1]
  /\ Len(argv) + argnum = Stream[h].value
  /\ \A j \in 1 .. Len(argv) : argv[j] = Arguments(h)[j]
  /\ argnum = 0 => pc = "args"
  /\ Len(done) = Cardinality(Before(h))

Place == (\E p \in 1 .. N + 1 : Between(p)) \/ (\E h \in Headers : Within(h))

StreamInv == TypeOK /\ Place /\ InOrder

\* What TypeOK says, number by number.
LEMMA Types ==
  ASSUME TypeOK
  PROVE  /\ End \in Nat /\ wire \in Nat /\ input \in Nat /\ erased \in Nat /\ cmdbuffer \in Nat
         /\ wire + input + erased + cmdbuffer = End
         /\ parsed \in Nat /\ parsed <= cmdbuffer
         /\ argnum \in 0 .. 99 /\ argv \in Seq(Extent) /\ Len(argv) \in Nat
         /\ done \in Seq(Seq(Extent)) /\ Len(done) \in Nat
         /\ Here \in Nat /\ Left \in Nat /\ Here = erased + parsed /\ Left = cmdbuffer - parsed
<1>1. N + 1 \in 1 .. N + 1
  BY Sizes
<1>2. End \in Nat
  BY <1>1, StartsAscend DEF End, N
<1>3. argv \in Seq(Extent) /\ done \in Seq(Seq(Extent)) /\ argnum \in 0 .. 99
  BY DEF TypeOK
<1>4. /\ wire \in Nat /\ input \in Nat /\ erased \in Nat /\ cmdbuffer \in Nat
      /\ wire + input + erased + cmdbuffer = End /\ parsed \in Nat /\ parsed <= cmdbuffer
  BY <1>2 DEF TypeOK
<1> QED
  BY <1>2, <1>3, <1>4 DEF Here, Left

\* A connection starts before the first item.
LEMMA InitStream == Init => StreamInv
<1> SUFFICES ASSUME Init PROVE StreamInv
  OBVIOUS
<1>1. End \in Nat /\ Start[1] = 0 /\ 1 \in 1 .. N + 1 /\ N + 1 \in 1 .. N + 1
  BY StartsAscend, StartRec, Sizes DEF End, N
<1>2. TypeOK
  BY <1>1 DEF Init, TypeOK
<1>3. 1 \in Headers
  BY StreamAssumption, Sizes DEF Headers
<1>4. Before(1) = {}
  BY Sizes DEF Before, Headers
<1>5. Cardinality(Before(1)) = 0
  BY <1>4, FS_EmptySet
<1>6. Between(1)
  BY <1>1, <1>3, <1>5 DEF Init, Between
<1>7. InOrder
  <2>1. Len(done) = 0 /\ Cardinality(Headers) \in Nat
    BY Numbers, FS_CardinalityType DEF Init
  <2>2. \A u \in Headers : ~(Number(u) <= 0)
    <3>1. \A u \in Headers : u \in 1 .. N + 1
      BY Sizes DEF Headers
    <3> QED
      BY <2>1, <3>1, Numbers
  <2> QED
    BY <2>1, <2>2 DEF InOrder
<1> QED
  BY <1>1, <1>2, <1>6, <1>7 DEF StreamInv, Place

\* A step that moves bytes or the program counter only.
LEMMA SamePlace ==
  ASSUME StreamInv, UNCHANGED <<erased, parsed, argnum, argv, done>>,
         argnum = 0 => pc # "args", argnum = 0 => pc' # "args"
  PROVE  Place' /\ InOrder'
<1>1. InOrder'
  BY DEF StreamInv, InOrder
<1>2. ASSUME NEW p \in 1 .. N + 1, Between(p) PROVE Between(p)'
  BY <1>2 DEF Between
<1>3. ASSUME NEW h \in Headers, Within(h) PROVE Within(h)'
  BY <1>3 DEF Within, Here
<1> QED
  BY <1>1, <1>2, <1>3 DEF StreamInv, Place

\* A header is taken at its own start, and its arguments come next.
LEMMA HeaderStream == ASSUME StreamInv, NEW u \in Items, Header(u) PROVE StreamInv'
<1>1. /\ pc = "cmd" /\ argnum = 0 /\ Start[u] = Here /\ Stream[u].kind = "*"
      /\ Left >= Line(u) /\ parsed' = parsed + Line(u)
      /\ argnum' = Stream[u].value /\ pc' = "args"
      /\ UNCHANGED <<wire, input, erased, cmdbuffer, argv, done>>
  <2>1. Line(u) \in Int /\ Left \in Int
    BY Sizes, SMTT(30) DEF StreamInv, TypeOK, Left
  <2> QED
    BY <2>1 DEF Header, At, ParaseLength
<1>2. PICK p \in 1 .. N + 1 : Between(p)
  BY <1>1 DEF StreamInv, Place, Within
<1>3. parsed = 0 /\ Here = Start[p] /\ erased \in Int
  BY <1>2 DEF Between, Here, StreamInv, TypeOK
<1>4. u = p /\ u \in Headers
  BY <1>1, <1>3, StartsDiffer DEF Headers
<1>5. TypeOK'
  <2> DEFINE l == Line(u)
             v == Stream[u].value
  <2>1. /\ l \in {4, 5} /\ v \in 0 .. 99 /\ parsed' = parsed + l /\ argnum' = v
        /\ parsed = 0 /\ cmdbuffer \in Nat /\ cmdbuffer - parsed >= l
    BY <1>1, <1>3, Sizes, Types DEF StreamInv
  <2> HIDE DEF l, v
  <2>2. parsed' \in 0 .. cmdbuffer /\ argnum' \in 0 .. 99
    BY <2>1
  <2> QED
    BY <1>1, <2>2 DEF StreamInv, TypeOK
<1>6. Within(u)'
  <2>1. Start[u + 1] = Start[u] + Line(u)
    BY <1>1, StartRec, Sizes
  <2>2. Here' = Start[u + Len(argv') + 1] /\ Len(argv') = 0
    BY <1>1, <1>2, <1>3, <2>1, Sizes DEF Between, Here
  <2>3. Len(argv') + argnum' = Stream[u].value
    <3> DEFINE v == Stream[u].value
    <3>1. v \in 0 .. 99
      BY Sizes
    <3>2. argnum' = v /\ Len(argv') = 0
      BY <1>1, <2>2, Zenon
    <3> HIDE DEF v
    <3>3. Len(argv') + argnum' = v
      BY ONLY <3>1, <3>2
    <3> QED
      BY <3>3 DEF v
  <2>4. \A j \in 1 .. Len(argv') : argv'[j] = Arguments(u)[j]
    BY <2>2
  <2> QED
    BY <1>1, <1>2, <1>4, <2>2, <2>3, <2>4 DEF Within, Between
<1>7. InOrder'
  BY <1>1 DEF StreamInv, InOrder
<1> QED
  BY <1>4, <1>5, <1>6, <1>7 DEF StreamInv, Place

\* ParaseData takes the next argument of the command, byte for byte.
LEMMA ArgumentStream == ASSUME StreamInv, NEW u \in Items, ParaseData(u) PROVE StreamInv'
<1> DEFINE a == [from |-> Here + Line(u), len |-> Stream[u].value]
<1>1. /\ pc = "args" /\ argnum > 0 /\ Start[u] = Here /\ Stream[u].kind = "$"
      /\ Left >= Line(u) + Stream[u].value + 2
      /\ argv' = Append(argv, a) /\ argnum' = argnum - 1
      /\ parsed' = parsed + Line(u) + Stream[u].value + 2
      /\ UNCHANGED <<wire, input, erased, cmdbuffer, done, pc>>
  BY DEF ParaseData, At, Whole, Arrived
<1>2. PICK h \in Headers : Within(h)
  BY <1>1 DEF StreamInv, Place, Between
<1> DEFINE n == Len(argv)
<1> HIDE DEF a
<1>3. /\ n \in Nat /\ argv \in Seq(Extent) /\ argnum \in 1 .. 99 /\ n + argnum = Stream[h].value
      /\ Here = Start[h + n + 1] /\ erased = Start[h] /\ erased \in Nat /\ parsed \in Nat
  BY <1>1, <1>2, Types DEF Within, StreamInv
<1> HIDE DEF n
<1>4. h \in Items /\ n + 1 \in 1 .. Stream[h].value /\ h + (n + 1) \in Items
  <2>1. /\ h \in Items /\ Stream[h].value \in 1 .. 99
        /\ \A j \in 1 .. Stream[h].value : h + j \in Items
    BY CommandShape
  <2>2. n + 1 \in 1 .. Stream[h].value
    BY <1>3, <2>1
  <2> QED
    BY <2>1, <2>2
<1>5. u = h + n + 1
  <2>1. h + n + 1 \in 1 .. N + 1 /\ h + n + 1 = h + (n + 1)
    BY <1>3, <1>4, Sizes
  <2> QED
    BY <1>1, <1>3, <2>1, StartsDiffer
<1>6. a = Arguments(h)[n + 1]
  <2>1. h + (n + 1) = u
    BY <1>3, <1>4, <1>5, Sizes
  <2> QED
    BY <1>1, <1>4, <2>1 DEF Arguments, a
<1>7. /\ Stream[u].value \in 0 .. 99 /\ Line(u) \in {4, 5}
      /\ Start[u + 1] = Start[u] + Line(u) + Stream[u].value + 2
      /\ Start[u + 1] <= End /\ End \in Nat /\ Start[u] \in Nat
  <2>1. /\ Stream[u].value \in 0 .. 99 /\ Line(u) \in {4, 5}
        /\ Size(u) = Line(u) + Stream[u].value + 2
    BY <1>1, Sizes
  <2>2. u \in 1 .. N + 1 /\ N + 1 \in 1 .. N + 1 /\ u < N + 1
    BY Sizes
  <2>3. Start[u] + Size(u) <= Start[N + 1] /\ Start[u] \in Nat /\ Start[N + 1] \in Nat
    BY <2>2, StartsAscend
  <2>4. Start[u + 1] = Start[u] + Size(u)
    BY StartRec
  <2>5. End = Start[N + 1]
    BY DEF End, N
  <2> QED
    BY <2>1, <2>3, <2>4, <2>5, SMTT(30)
<1>8. a \in Extent
  <2>1. Here + Line(u) \in 0 .. End
    <3> DEFINE l == Line(u)
               v == Stream[u].value
    <3>1. /\ l \in {4, 5} /\ v \in 0 .. 99 /\ Here \in Nat /\ End \in Nat
          /\ Here + l + v + 2 <= End
      BY <1>1, <1>7
    <3> HIDE DEF l, v
    <3>2. Here + l \in 0 .. End
      BY <3>1
    <3> QED
      BY <3>2 DEF l
  <2> QED
    BY <1>7, <2>1 DEF Extent, a
<1>9. TypeOK'
  <2>1. argv' \in Seq(Extent) /\ argnum' \in 0 .. 99
    BY <1>1, <1>3, <1>8
  <2>2. parsed' \in 0 .. cmdbuffer
    <3> DEFINE l == Line(u)
               v == Stream[u].value
    <3>1. /\ l \in {4, 5} /\ v \in 0 .. 99 /\ parsed' = parsed + l + v + 2
          /\ parsed \in Nat /\ cmdbuffer \in Nat /\ cmdbuffer - parsed >= l + v + 2
      BY <1>1, <1>7, Types DEF StreamInv
    <3> HIDE DEF l, v
    <3> QED
      BY <3>1
  <2> QED
    BY <1>1, <2>1, <2>2 DEF StreamInv, TypeOK
<1>10. Within(h)'
  <2>1. Len(argv') = n + 1 /\ \A j \in 1 .. n : argv'[j] = argv[j]
    BY <1>1, <1>3 DEF n
  <2>2. argv'[n + 1] = a
    BY <1>1, <1>3 DEF n
  <2>3. \A j \in 1 .. Len(argv') : argv'[j] = Arguments(h)[j]
    <3>1. \A j \in 1 .. n : argv[j] = Arguments(h)[j]
      BY <1>2 DEF Within, n
    <3>2. \A j \in 1 .. n + 1 : j \in 1 .. n \/ j = n + 1
      BY <1>3
    <3> QED
      BY <1>6, <2>1, <2>2, <3>1, <3>2
  <2>4. Here' = Start[h + Len(argv') + 1]
    <3>1. h + Len(argv') + 1 = u + 1
      BY <1>3, <1>4, <1>5, <2>1, Sizes
    <3>2. Here' = erased + parsed + Line(u) + Stream[u].value + 2 /\ Here = erased + parsed
      <4> DEFINE l == Line(u)
                 v == Stream[u].value
      <4>1. /\ erased' = erased /\ parsed' = parsed + l + v + 2
            /\ l \in {4, 5} /\ v \in 0 .. 99 /\ erased \in Nat /\ parsed \in Nat
        BY <1>1, <1>3, <1>7
      <4> HIDE DEF l, v
      <4>2. Here' = erased + parsed + l + v + 2 /\ Here = erased + parsed
        BY <4>1 DEF Here
      <4> QED
        BY <4>2 DEF l, v
    <3> QED
      BY <1>1, <1>3, <1>7, <3>1, <3>2
  <2>5. Len(argv') + argnum' = Stream[h].value
    <3>1. n + argnum = Stream[h].value /\ argnum' = argnum - 1 /\ argnum \in Int /\ n \in Int
      BY <1>1, <1>3
    <3> QED
      BY ONLY <2>1, <3>1
  <2> QED
    BY <1>1, <1>2, <2>3, <2>4, <2>5 DEF Within
<1>11. InOrder'
  BY <1>1 DEF StreamInv, InOrder
<1> QED
  BY <1>9, <1>10, <1>11 DEF StreamInv, Place

\* What DoCmd executes is the next command, and FreeArg erases all of it.
LEMMA DoCmdStream == ASSUME StreamInv, DoCmd PROVE StreamInv'
<1>1. /\ pc = "args" /\ argnum = 0 /\ done' = Append(done, argv)
      /\ erased' = erased + parsed /\ cmdbuffer' = cmdbuffer - parsed
      /\ parsed' = 0 /\ argnum' = 0 /\ argv' = <<>> /\ pc' = "cmd"
      /\ UNCHANGED <<wire, input>>
  BY DEF DoCmd, FreeArg
<1>2. PICK h \in Headers : Within(h)
  BY <1>1 DEF StreamInv, Place, Between
<1>3. /\ erased \in Nat /\ parsed \in Nat /\ cmdbuffer \in Nat /\ parsed <= cmdbuffer
      /\ wire \in Nat /\ input \in Nat /\ End \in Nat
      /\ wire + input + erased + cmdbuffer = End
      /\ argv \in Seq(Extent) /\ Len(argv) \in Nat
      /\ done \in Seq(Seq(Extent)) /\ Len(done) \in Nat
      /\ Here = erased + parsed
  BY Types DEF StreamInv
<1>4. /\ Len(argv) = Stream[h].value /\ Stream[h].value \in 1 .. 99 /\ h \in Items
      /\ Behind(h) \in 1 .. N + 1 /\ (Behind(h) \in Items => Behind(h) \in Headers)
      /\ Cardinality(Before(Behind(h))) = Number(h)
  <2>1. Len(argv) + 0 = Stream[h].value
    BY <1>1, <1>2 DEF Within
  <2> QED
    BY <1>3, <2>1, CommandShape
<1>5. argv = Arguments(h)
  <2>1. DOMAIN argv = 1 .. Len(argv) /\ DOMAIN Arguments(h) = 1 .. Stream[h].value
    BY <1>3 DEF Arguments
  <2>2. \A j \in 1 .. Len(argv) : argv[j] = Arguments(h)[j]
    BY <1>2 DEF Within
  <2>3. argv = [j \in 1 .. Len(argv) |-> argv[j]]
    BY <1>3, SMTT(30)
  <2>4. Arguments(h) = [j \in 1 .. Stream[h].value |-> Arguments(h)[j]]
    BY DEF Arguments
  <2> QED
    BY <1>4, <2>2, <2>3, <2>4
<1>6. Len(done) = Cardinality(Before(h)) /\ Number(h) = Len(done) + 1
  BY <1>2, Numbers DEF Within
<1>7. /\ done' \in Seq(Seq(Extent)) /\ Len(done') = Len(done) + 1
      /\ done'[Len(done) + 1] = argv /\ \A i \in 1 .. Len(done) : done'[i] = done[i]
  BY <1>1, <1>3
<1>8. TypeOK'
  <2>1. /\ erased + parsed \in 0 .. End /\ cmdbuffer - parsed \in 0 .. End
        /\ wire + input + (erased + parsed) + (cmdbuffer - parsed) = End
    BY <1>3
  <2> QED
    BY <1>1, <1>7, <2>1 DEF StreamInv, TypeOK
<1>9. Between(Behind(h))'
  <2>1. Here = Start[Behind(h)]
    BY <1>2, <1>4 DEF Within, Behind
  <2> QED
    BY <1>1, <1>3, <1>4, <1>6, <1>7, <2>1 DEF Between
<1>10. InOrder'
  <2>1. Len(done') <= Cardinality(Headers)
    BY <1>6, <1>7, Numbers
  <2>2. ASSUME NEW u \in Headers, Number(u) <= Len(done')
        PROVE  done'[Number(u)] = Arguments(u)
    <3>1. Number(u) \in Nat /\ Number(u) >= 1
      <4>1. u \in 1 .. N + 1
        BY Sizes DEF Headers
      <4> QED
        BY <4>1, Numbers
    <3>2. CASE Number(u) <= Len(done)
      <4>1. done[Number(u)] = Arguments(u)
        BY <3>2 DEF StreamInv, InOrder
      <4>2. Number(u) \in 1 .. Len(done)
        BY <1>3, <3>1, <3>2
      <4> QED
        BY <1>7, <4>1, <4>2
    <3>3. CASE Number(u) = Len(done) + 1
      <4>1. u = h
        <5>1. u \in Int /\ h \in Int
          BY Sizes DEF Headers
        <5>2. ~(u < h) /\ ~(h < u)
          BY <1>3, <1>6, <3>1, <3>3, Numbers
        <5> QED
          BY <5>1, <5>2
      <4> QED
        BY <1>5, <1>7, <3>3, <4>1
    <3> QED
      BY <1>3, <1>7, <2>2, <3>1, <3>2, <3>3
  <2> QED
    BY <2>1, <2>2 DEF InOrder
<1> QED
  BY <1>4, <1>8, <1>9, <1>10 DEF StreamInv, Place

\* Every step of the stream keeps the invariant.
LEMMA NextStream == ASSUME StreamInv, [Next]_vars PROVE StreamInv'
<1>1. /\ End \in Nat /\ wire \in Nat /\ input \in Nat /\ erased \in Nat /\ cmdbuffer \in Nat
      /\ wire + input + erased + cmdbuffer = End /\ parsed \in Nat /\ parsed <= cmdbuffer
  BY Types DEF StreamInv
<1>2. ASSUME NEW n \in 1 .. wire, Deliver(n) PROVE StreamInv'
  <2>1. /\ pc = "idle" /\ pc' = "drain" /\ wire' = wire - n /\ input' = input + n
        /\ UNCHANGED <<erased, cmdbuffer, parsed, argnum, argv, done>>
    BY <1>2 DEF Deliver
  <2>2. /\ wire - n \in 0 .. End /\ input + n \in 0 .. End
        /\ (wire - n) + (input + n) + erased + cmdbuffer = End
    BY <1>1
  <2>3. TypeOK'
    BY <2>1, <2>2 DEF StreamInv, TypeOK
  <2> QED
    BY <2>1, <2>3, SamePlace DEF StreamInv
<1>3. CASE ReadCallback
  <2>1. /\ pc = "drain" /\ pc' \in {"idle", "cmd"}
        /\ UNCHANGED <<wire, erased, parsed, argnum, argv, done>>
        /\ \/ input' = input /\ cmdbuffer' = cmdbuffer
           \/ input' = 0 /\ cmdbuffer' = cmdbuffer + input
    BY <1>3 DEF ReadCallback
  <2>2. /\ cmdbuffer + input \in 0 .. End /\ 0 \in 0 .. End
        /\ wire + 0 + erased + (cmdbuffer + input) = End
        /\ parsed \in 0 .. cmdbuffer + input
    BY <1>1
  <2>3. TypeOK'
    BY <2>1, <2>2 DEF StreamInv, TypeOK
  <2> QED
    BY <2>1, <2>3, SamePlace DEF StreamInv
<1>4. CASE NoHeader \/ Resume \/ NoData
  <2>1. /\ argnum = 0 => pc # "args" /\ pc' # "args"
        /\ pc' \in {"idle", "args"}
        /\ UNCHANGED <<wire, input, erased, cmdbuffer, parsed, argnum, argv, done>>
    BY <1>4 DEF NoHeader, Resume, NoData
  <2>2. TypeOK'
    BY <2>1 DEF StreamInv, TypeOK
  <2> QED
    BY <2>1, <2>2, SamePlace DEF StreamInv
<1>5. CASE UNCHANGED vars
  <2>1. TypeOK' /\ InOrder'
    BY <1>5 DEF vars, StreamInv, TypeOK, InOrder
  <2>2. Place'
    BY <1>5 DEF vars, StreamInv, Place, Between, Within, Here
  <2> QED
    BY <2>1, <2>2 DEF StreamInv
<1> QED
  BY <1>2, <1>3, <1>4, <1>5, HeaderStream, ArgumentStream, DoCmdStream DEF Next, Callback

(***************************************************************************)
(* For any commands and any division of the stream into pieces: the        *)
(* commands executed are the ones sent, in order, each once and with its   *)
(* own arguments byte for byte (ProcessCmd, ParaseData, DoCmd, FreeArg).   *)
(***************************************************************************)
THEOREM StreamInOrder == Spec => []InOrder
<1>1. Init => StreamInv
  BY InitStream
<1>2. StreamInv /\ [Next]_vars => StreamInv'
  BY NextStream
<1>3. StreamInv => InOrder
  BY DEF StreamInv
<1> QED
  BY <1>1, <1>2, <1>3, PTL DEF Spec

\* No argument is empty: ParaseLength takes the number 0 for a line that has
\* not come yet, and waits.
NoEmpty == \A u \in Items : Stream[u].value > 0

\* The parser is before item q and n commands are done; if the bytes e do not
\* reach the end of q, those are all the commands that e bytes hold.
LEMMA NoneWaits ==
  ASSUME NEW p \in 1 .. N + 1, NEW q \in 1 .. N + 1, NEW e \in Nat,
         p <= q, \A u \in Headers : p <= u => q < Behind(u),
         q \in Items => e < Start[q] + Size(q)
  PROVE  \A u \in Headers : Start[Behind(u)] <= e => Number(u) <= Cardinality(Before(p))
<1> SUFFICES ASSUME NEW u \in Headers, Start[Behind(u)] <= e
             PROVE  Number(u) <= Cardinality(Before(p))
  OBVIOUS
<1>1. u \in Items /\ Behind(u) \in 1 .. N + 1 /\ Start[Behind(u)] \in Nat
  BY CommandShape, StartsAscend
<1>2. ASSUME p <= u PROVE FALSE
  <2>1. q < Behind(u) /\ q \in Items
    BY <1>1, <1>2, Sizes
  <2>2. Start[q] + Size(q) <= Start[Behind(u)] /\ Start[q] \in Nat /\ Size(q) \in Nat
    BY <1>1, <2>1, StartsAscend, Sizes
  <2> QED
    BY <1>1, <2>1, <2>2
<1>3. u < p
  BY <1>1, <1>2, Sizes
<1> QED
  BY <1>3, Numbers

\* Where a command is waited for: no later command ends before its end.
LEMMA LaterEnds ==
  ASSUME NEW h \in Headers, NEW u \in Headers, h <= u
  PROVE  Behind(h) <= Behind(u)
<1>1. /\ Behind(h) \in 1 .. N + 1 /\ Behind(u) \in 1 .. N + 1 /\ u < Behind(u)
      /\ h \in Int /\ u \in Int /\ (u < Behind(h) => u <= h)
  BY CommandShape, Sizes
<1>2. CASE u < Behind(h)
  BY <1>1, <1>2
<1>3. CASE ~(u < Behind(h))
  BY <1>1, <1>3, Sizes
<1> QED
  BY <1>2, <1>3

\* The callback ends only when what is left of cmdbuffer is not the whole of
\* the item that it waits for.
LEMMA IdleStream == ASSUME StreamInv, NoEmpty, Next, pc' = "idle" PROVE NothingWaits'
<1> DEFINE e == erased + cmdbuffer'
<1>1. /\ erased \in Nat /\ cmdbuffer \in Nat /\ parsed \in Nat /\ parsed <= cmdbuffer
      /\ input \in Nat /\ Here = erased + parsed /\ Left = cmdbuffer - parsed
      /\ argnum \in 0 .. 99 /\ Len(argv) \in Nat
  BY Types DEF StreamInv
<1>2. /\ ReadCallback \/ NoHeader \/ NoData
      /\ erased' = erased /\ done' = done /\ cmdbuffer' \in Nat
  <2>1. ReadCallback \/ NoHeader \/ NoData
    BY DEF Next, Callback, Deliver, Header, ParaseData, Resume, DoCmd
  <2> QED
    BY <1>1, <2>1 DEF ReadCallback, NoHeader, NoData
<1>3. e \in Nat
  <2>1. erased \in Nat /\ cmdbuffer' \in Nat
    BY <1>1, <1>2
  <2>2. ASSUME NEW a \in Nat, NEW b \in Nat PROVE a + b \in Nat
    OBVIOUS
  <2> QED
    BY <2>1, <2>2, Zenon
<1>4. SUFFICES \E p \in 1 .. N + 1, q \in 1 .. N + 1 :
                 /\ Len(done) = Cardinality(Before(p)) /\ p <= q
                 /\ \A u \in Headers : p <= u => q < Behind(u)
                 /\ q \in Items => e < Start[q] + Size(q)
  <2>1. \A u \in Headers : Start[Behind(u)] <= e => Number(u) <= Len(done)
    BY <1>3, <1>4, NoneWaits
  <2> QED
    BY <1>2, <2>1 DEF NothingWaits, Behind
<1> HIDE DEF e
<1>5. \A u \in Headers : u \in 1 .. N + 1 /\ Behind(u) \in 1 .. N + 1 /\ u < Behind(u)
  <2>1. \A u \in Headers : u \in Items /\ Behind(u) \in 1 .. N + 1 /\ u < Behind(u)
    BY CommandShape
  <2>2. \A u \in Items : u \in 1 .. N + 1
    BY Sizes
  <2> QED
    BY <2>1, <2>2
<1>6. CASE ReadCallback
  <2>1. e = erased
    <3>1. cmdbuffer' = 0
      BY <1>2, <1>6 DEF ReadCallback
    <3> QED
      BY <1>1, <3>1 DEF e
  <2>2. PICK p \in 1 .. N + 1 : erased = Start[p] /\ Len(done) = Cardinality(Before(p))
    BY <1>5 DEF StreamInv, Place, Between, Within
  <2>3. p \in Items => e < Start[p] + Size(p)
    <3>1. p \in Items => Size(p) \in Nat /\ Size(p) > 0
      BY Sizes
    <3> QED
      BY <1>1, <2>1, <2>2, <3>1, SMTT(30)
  <2>4. \A u \in Headers : p <= u => p < Behind(u)
    BY <1>5, Sizes
  <2> QED
    BY <2>2, <2>3, <2>4
<1>7. CASE NoHeader
  <2>1. PICK p \in 1 .. N + 1 : Between(p)
    BY <1>7 DEF NoHeader, StreamInv, Place, Within
  <2>2. p \in Items => e < Start[p] + Size(p)
    <3> SUFFICES ASSUME p \in Items PROVE e < Start[p] + Size(p)
      OBVIOUS
    <3>1. /\ parsed = 0 /\ erased = Start[p] /\ Here = Start[p] /\ Left = cmdbuffer
          /\ Stream[p].kind = "*"
      BY <1>1, <2>1 DEF Between, Headers
    <3>2. p \in At("*")
      BY <3>1 DEF At
    <3>3. ParaseLength(p, Left) = 0
      BY <1>7, <3>2 DEF NoHeader
    <3>4. Stream[p].value # 0 /\ Line(p) \in {4, 5} /\ Size(p) = Line(p)
      BY <3>1, Sizes DEF NoEmpty
    <3>5. Left < Line(p)
      BY <3>3, <3>4 DEF ParaseLength
    <3>6. e = erased + cmdbuffer
      BY <1>7 DEF NoHeader, e
    <3> QED
      BY <1>1, <3>1, <3>4, <3>5, <3>6, SMTT(30)
  <2>3. \A u \in Headers : p <= u => p < Behind(u)
    BY <1>5, Sizes
  <2> QED
    BY <2>1, <2>2, <2>3 DEF Between
<1>8. CASE NoData
  <2>1. PICK h \in Headers : Within(h)
    BY <1>8 DEF NoData, StreamInv, Place, Between
  <2> DEFINE n == Len(argv)
             q == h + (n + 1)
  <2>2. n + 1 \in 1 .. Stream[h].value /\ h \in Int /\ n \in Nat
    <3>1. n + argnum = Stream[h].value /\ argnum > 0 /\ h \in Items
      BY <1>8, <2>1 DEF Within, NoData, Headers
    <3>2. Stream[h].value \in 1 .. 99
      BY CommandShape
    <3> HIDE DEF n
    <3>3. n + 1 \in 1 .. Stream[h].value
      BY <1>1, <3>1, <3>2 DEF n
    <3> QED
      BY <1>1, <3>1, <3>3, Sizes DEF n
  <2>3. q \in Items /\ Stream[q].kind = "$" /\ Start[q] = Here /\ q \in 1 .. N + 1 /\ h <= q
    <3>1. q \in Items /\ Stream[q].kind = "$"
      BY <2>2, CommandShape
    <3>2. q = h + n + 1 /\ h <= q
      BY <2>2
    <3>3. Start[q] = Here
      BY <2>1, <3>2 DEF Within
    <3> QED
      BY <3>1, <3>2, <3>3, Sizes
  <2>4. q < Behind(h) /\ q \in Int
    <3>1. Stream[h].value \in 1 .. 99
      BY CommandShape
    <3> HIDE DEF n
    <3> QED
      BY <2>2, <3>1 DEF Behind
  <2> HIDE DEF q, n
  <2>5. e < Start[q] + Size(q)
    <3>1. q \in At("$")
      BY <2>3 DEF At
    <3>2. ~Whole(q)
      BY <1>8, <2>3, <3>1 DEF NoData
    <3> DEFINE l == Line(q)
               v == Stream[q].value
    <3>3. /\ v \in 0 .. 99 /\ v > 0 /\ l \in {4, 5} /\ Size(q) = l + v + 2
      BY <2>3, Sizes DEF NoEmpty
    <3>4. Left < l \/ v = 0 \/ ~(Left >= l + v + 2)
      BY <1>1, <3>2, <3>3 DEF Whole, ParaseLength, Arrived
    <3>5. e = erased + cmdbuffer
      BY <1>8 DEF NoData, e
    <3> HIDE DEF l, v
    <3>6. Left < l + v + 2
      BY <1>1, <3>3, <3>4
    <3>7. Start[q] = erased + parsed /\ Size(q) = l + v + 2 /\ e = erased + parsed + Left
      BY <1>1, <2>3, <3>3, <3>5
    <3> QED
      BY <1>1, <3>3, <3>6, <3>7
  <2>6. \A u \in Headers : h <= u => q < Behind(u)
    <3>1. \A u \in Headers : h <= u => Behind(h) <= Behind(u)
      BY LaterEnds
    <3> QED
      BY <1>5, <2>4, <3>1, Sizes
  <2>7. h \in 1 .. N + 1 /\ Len(done) = Cardinality(Before(h))
    BY <1>5, <2>1 DEF Within
  <2> QED
    BY <2>3, <2>5, <2>6, <2>7
<1> QED
  BY <1>2, <1>6, <1>7, <1>8

(***************************************************************************)
(* For any commands without an empty argument, which blocks the parser,    *)
(* and any pieces: ReadCallback returns only when no command is complete   *)
(* in cmdbuffer.                                                           *)
(***************************************************************************)
THEOREM StreamNothingWaits == NoEmpty => (Spec => []NothingWaits)
<1> SUFFICES ASSUME NoEmpty PROVE Spec => []NothingWaits
  OBVIOUS
<1>1. Init => StreamInv /\ NothingWaits
  <2>1. Init => NothingWaits
    <3> SUFFICES ASSUME Init PROVE NothingWaits
      OBVIOUS
    <3>1. ASSUME NEW u \in Headers, Start[u + Stream[u].value + 1] <= 0 PROVE FALSE
      <4>1. /\ Behind(u) \in 1 .. N + 1 /\ u \in Items /\ u < Behind(u)
            /\ Behind(u) = u + Stream[u].value + 1
        BY CommandShape DEF Behind
      <4>2. /\ Start[u] + Size(u) <= Start[Behind(u)]
            /\ Start[u] \in Nat /\ Size(u) \in Nat /\ Size(u) > 0
        BY <4>1, StartsAscend, Sizes, SMTT(30)
      <4>3. Start[Behind(u)] \in Nat
        BY <4>1, StartsAscend
      <4> QED
        BY <3>1, <4>1, <4>2, <4>3
    <3>2. erased + cmdbuffer = 0
      BY DEF Init
    <3> QED
      BY <3>1, <3>2 DEF NothingWaits
  <2> QED
    BY <2>1, InitStream
<1>2. StreamInv /\ NothingWaits /\ [Next]_vars => (StreamInv /\ NothingWaits)'
  <2> SUFFICES ASSUME StreamInv, NothingWaits, [Next]_vars PROVE (StreamInv /\ NothingWaits)'
    OBVIOUS
  <2>1. CASE UNCHANGED vars
    BY <2>1, NextStream DEF vars, NothingWaits
  <2>2. CASE Next /\ pc' = "idle"
    BY <2>2, NextStream, IdleStream
  <2>3. CASE Next /\ pc' # "idle"
    BY <2>3, NextStream DEF NothingWaits
  <2> QED
    BY <2>1, <2>2, <2>3
<1> QED
  BY <1>1, <1>2, PTL DEF Spec
=============================================================================
