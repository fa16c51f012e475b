----------------------------- MODULE MCRedisPort -----------------------------
(***************************************************************************)
(* One model of the redis port below its commands: the stream of one       *)
(* connection (RespStream) and the connections as a whole                  *)
(* (RedisConnections).  They have no state in common: Init chooses which   *)
(* part moves and the other stays as it is.                                *)
(***************************************************************************)
EXTENDS RespStream

CONSTANTS Objects, SidSpace, MaxAccepts, TIMEVAL_TIME, TIMEOUT_CLOSE

VARIABLES
  part,     \* the part that moves
  accepted, live, gone, sid, idle, timer, bev, connectionmap

connections == <<accepted, live, gone, sid, idle, timer, bev, connectionmap>>

Conn == INSTANCE RedisConnections

ASSUME Conn!ConnectionsAssumption

Announce(n) == [kind |-> "*", value |-> n]

Bulk(n) == [kind |-> "$", value |-> n]

\* GET k; SET k <10 bytes>; DEL k, sent without waiting for the replies.  A
\* bulk of ten bytes has a longer first line.
Pipeline ==
  <<Announce(2), Bulk(3), Bulk(1),
    Announce(3), Bulk(3), Bulk(1), Bulk(10),
    Announce(2), Bulk(3), Bulk(1)>>
-----------------------------------------------------------------------------
MCInit == part \in {"stream", "connections"} /\ Init /\ Conn!Init

MCNext ==
  /\ UNCHANGED part
  /\ \/ part = "stream"      /\ Next             /\ UNCHANGED connections
     \/ part = "connections" /\ Conn!Next /\ UNCHANGED vars

MCSpec == MCInit /\ [][MCNext]_<<part, vars, connections>> /\ Fairness
-----------------------------------------------------------------------------
(* The properties of the connections, see RedisConnections.                *)

\* FreeConnection leaves no callback registered for a deleted object.
NoDangling == Conn!NoDangling

\* connectionmap finds exactly the open connections.
MapExact == Conn!MapExact

\* An idle connection is closed by OnTimer in time.
IdleBounded == Conn!IdleBounded

\* A connection is closed only for what happened to it itself.
ClosedForItself == Conn!ClosedForItself
=============================================================================
