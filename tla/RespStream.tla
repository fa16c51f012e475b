----------------------------- MODULE RespStream -----------------------------
(***************************************************************************)
(* How the redis port cuts a connection's byte stream into commands:       *)
(* ReadCallback, ProcessCmd, ParaseData, ParaseLength, DoCmd and FreeArg   *)
(* of common/xRedisServerLib.cpp.  TCP hands the stream over in pieces of  *)
(* any size, and the parser keeps its place between them in cmdbuffer,     *)
(* parsed, argnum and argc.                                                *)
(*                                                                         *)
(* The text of the stream is abstracted to its items and the offsets they  *)
(* occupy.  An item is a header "*n", which announces n arguments, or a    *)
(* bulk "$n" with n bytes of data behind it and a line end behind those.   *)
(* What the parser copies into argv is the range of the stream that it     *)
(* copied, so a command that got bytes of its neighbour would show.        *)
(*                                                                         *)
(* The callbacks of all connections run on one thread, one at a time, and  *)
(* share nothing that is modelled here: one connection is enough.          *)
(***************************************************************************)
EXTENDS Integers, Sequences, FiniteSets

CONSTANT Stream   \* the items one client sends, in order

Items == 1 .. Len(Stream)

(***************************************************************************)
(* What a redis client sends: every header is followed by the bulks it     *)
(* announces and by nothing else before the next header.  An item's value  *)
(* is written with at most two digits.                                     *)
(***************************************************************************)
ASSUME StreamAssumption ==
  /\ Stream \in Seq([kind : {"*", "$"}, value : 0 .. 99])
  /\ Stream # <<>> /\ Stream[1].kind = "*"
  /\ \A u \in Items : Stream[u].kind = "*" =>
        /\ Stream[u].value > 0
        /\ u + Stream[u].value \in Items
        /\ \A w \in Items : w > u /\ w <= u + Stream[u].value => Stream[w].kind = "$"
        /\ u + Stream[u].value + 1 \in Items => Stream[u + Stream[u].value + 1].kind = "*"

\* The bytes of an item's first line: the kind, the digits, CR and LF.
Line(u) == IF Stream[u].value < 10 THEN 4 ELSE 5

\* All the bytes of an item: a bulk has its data and another CR LF.
Size(u) == Line(u) + (IF Stream[u].kind = "$" THEN Stream[u].value + 2 ELSE 0)

\* The offset at which an item starts; End is where the stream ends.
Start[u \in 1 .. Len(Stream) + 1] == IF u = 1 THEN 0 ELSE Start[u - 1] + Size(u - 1)

End == Start[Len(Stream) + 1]

VARIABLES
  wire,      \* bytes the client has sent that the event loop has not read
  input,     \* bytes in the bufferevent's input evbuffer
  erased,    \* bytes erased from the front of cmdbuffer so far
  cmdbuffer, \* length of cmdbuffer
  parsed,    \* bytes of cmdbuffer that belong to the command being read
  argnum,    \* arguments that the command being read still lacks
  argv,      \* the ones it has: the range of the stream each was copied from
  done,      \* the argv of every command executed, in order
  pc         \* where ReadCallback is: "idle" when it is not running

vars == <<wire, input, erased, cmdbuffer, parsed, argnum, argv, done, pc>>

Extent == [from : 0 .. End, len : 0 .. 99]

Init ==
  /\ wire = End /\ input = 0
  /\ erased = 0 /\ cmdbuffer = 0 /\ parsed = 0
  /\ argnum = 0 /\ argv = <<>> /\ done = <<>>
  /\ pc = "idle"
-----------------------------------------------------------------------------
(* Faulty variants of the operations.                                      *)

\* The executed command is not erased from cmdbuffer.
FreeArgKeepsText ==
  /\ erased' = erased /\ cmdbuffer' = cmdbuffer
  /\ parsed' = 0 /\ argnum' = 0 /\ argv' = <<>>

\* ProcessCmd stops after a command instead of looking for the next one.
DoCmdReturnsFalse ==
  /\ pc = "args" /\ argnum = 0
  /\ done' = Append(done, argv)
  /\ erased' = erased + parsed /\ cmdbuffer' = cmdbuffer - parsed
  /\ parsed' = 0 /\ argnum' = 0 /\ argv' = <<>>
  /\ pc' = "idle"
  /\ UNCHANGED <<wire, input>>

\* One read of a fixed buffer in place of the loop that empties the input.
ReadCallbackReadsOnce ==
  /\ pc = "drain"
  /\ LET n == IF input < 16 THEN input ELSE 16
     IN  input' = input - n /\ cmdbuffer' = cmdbuffer + n
  /\ pc' = IF cmdbuffer' > 0 THEN "cmd" ELSE "idle"
  /\ UNCHANGED <<wire, erased, parsed, argnum, argv, done>>
-----------------------------------------------------------------------------
\* What is left of cmdbuffer after the part already parsed, and where it is.
Left == cmdbuffer - parsed

Here == erased + parsed

\* The items that start where the parser stands, at most one.
At(kind) == {u \in Items : Start[u] = Here /\ Stream[u].kind = kind}

(***************************************************************************)
(* ParaseLength: the bytes of the first line, 0 when its LF has not come   *)
(* yet.  It also returns 0 for a line whose number is 0.                   *)
(***************************************************************************)
ParaseLength(u, size) ==
  IF size < Line(u) \/ Stream[u].value = 0 THEN 0 ELSE Line(u)

\* ParaseData's second test: the data and the CR LF behind it are there.
Arrived(u, size) == size >= Line(u) + Stream[u].value + 2

\* FreeArg: forget the command and its text.
FreeArg ==
  /\ erased' = erased + parsed /\ cmdbuffer' = cmdbuffer - parsed
  /\ parsed' = 0 /\ argnum' = 0 /\ argv' = <<>>

(***************************************************************************)
(* The event loop reads what has come from the socket, some bytes of what  *)
(* is under way, and calls ReadCallback.                                   *)
(***************************************************************************)
Deliver(n) ==
  /\ pc = "idle"
  /\ wire' = wire - n /\ input' = input + n
  /\ pc' = "drain"
  /\ UNCHANGED <<erased, cmdbuffer, parsed, argnum, argv, done>>

(***************************************************************************)
(* ReadCallback moves the input to cmdbuffer, except that a single byte    *)
(* stays where it is, and starts on the commands if cmdbuffer holds text.  *)
(***************************************************************************)
ReadCallback ==
  /\ pc = "drain"
  /\ IF input < 2 THEN UNCHANGED <<input, cmdbuffer>>
     ELSE input' = 0 /\ cmdbuffer' = cmdbuffer + input
  /\ pc' = IF cmdbuffer' > 0 THEN "cmd" ELSE "idle"
  /\ UNCHANGED <<wire, erased, parsed, argnum, argv, done>>

(***************************************************************************)
(* ProcessCmd without a command under way: it needs a whole header.        *)
(***************************************************************************)
Header(u) ==
  /\ pc = "cmd" /\ argnum = 0 /\ u \in At("*")
  /\ ParaseLength(u, Left) # 0
  /\ parsed' = parsed + ParaseLength(u, Left)
  /\ argnum' = Stream[u].value
  /\ pc' = "args"
  /\ UNCHANGED <<wire, input, erased, cmdbuffer, argv, done>>

NoHeader ==
  /\ pc = "cmd" /\ argnum = 0
  /\ ~ \E u \in At("*") : ParaseLength(u, Left) # 0
  /\ pc' = "idle"
  /\ UNCHANGED <<wire, input, erased, cmdbuffer, parsed, argnum, argv, done>>

\* ProcessCmd with a command under way goes on with its arguments.
Resume ==
  /\ pc = "cmd" /\ argnum # 0
  /\ pc' = "args"
  /\ UNCHANGED <<wire, input, erased, cmdbuffer, parsed, argnum, argv, done>>

(***************************************************************************)
(* ParaseData takes one argument, or leaves it for the next piece of the   *)
(* stream, which also ends ReadCallback.                                   *)
(***************************************************************************)
Whole(u) == ParaseLength(u, Left) # 0 /\ Arrived(u, Left)

ParaseData(u) ==
  /\ pc = "args" /\ argnum > 0 /\ u \in At("$") /\ Whole(u)
  /\ argv' = Append(argv, [from |-> Here + Line(u), len |-> Stream[u].value])
  /\ argnum' = argnum - 1
  /\ parsed' = parsed + Line(u) + Stream[u].value + 2
  /\ UNCHANGED <<wire, input, erased, cmdbuffer, done, pc>>

NoData ==
  /\ pc = "args" /\ argnum > 0
  /\ ~ \E u \in At("$") : Whole(u)
  /\ pc' = "idle"
  /\ UNCHANGED <<wire, input, erased, cmdbuffer, parsed, argnum, argv, done>>

\* DoCmd executes a complete command; ReadCallback then asks for the next.
DoCmd ==
  /\ pc = "args" /\ argnum = 0
  /\ done' = Append(done, argv)
  /\ FreeArg
  /\ pc' = "cmd"
  /\ UNCHANGED <<wire, input>>

Callback ==
  \/ ReadCallback
  \/ \E u \in Items : Header(u) \/ ParaseData(u)
  \/ NoHeader \/ Resume \/ NoData \/ DoCmd

Next == (\E n \in 1 .. wire : Deliver(n)) \/ Callback

(***************************************************************************)
(* The event loop reads a readable socket, TCP delivers what was sent, and *)
(* a running callback goes on.                                             *)
(***************************************************************************)
Fairness == WF_vars(\E n \in 1 .. wire : Deliver(n)) /\ WF_vars(Callback)

Spec == Init /\ [][Next]_vars /\ Fairness
-----------------------------------------------------------------------------
\* The headers, the number of a command, and the ranges of its arguments.
Headers == {u \in Items : Stream[u].kind = "*"}

Number(u) == Cardinality({w \in Headers : w <= u})

Arguments(u) ==
  [j \in 1 .. Stream[u].value |->
     [from |-> Start[u + j] + Line(u + j), len |-> Stream[u + j].value]]

(***************************************************************************)
(* The state of the connection is well-typed; no byte of the stream is     *)
(* lost or read twice between the socket and cmdbuffer, and the parser     *)
(* never stands behind the end of cmdbuffer (ReadCallback, FreeArg).       *)
(***************************************************************************)
TypeOK ==
  /\ wire \in 0 .. End /\ input \in 0 .. End
  /\ erased \in 0 .. End /\ cmdbuffer \in 0 .. End
  /\ wire + input + erased + cmdbuffer = End
  /\ parsed \in 0 .. cmdbuffer
  /\ argnum \in 0 .. 99 /\ argv \in Seq(Extent)
  /\ done \in Seq(Seq(Extent))
  /\ pc \in {"idle", "drain", "cmd", "args"}

(***************************************************************************)
(* However the stream is cut into pieces, the commands executed are the    *)
(* ones sent, in the order sent, each once and each with its own arguments *)
(* byte for byte (ProcessCmd, ParaseData, DoCmd).                          *)
(***************************************************************************)
InOrder ==
  /\ Len(done) <= Cardinality(Headers)
  /\ \A u \in Headers : Number(u) <= Len(done) => done[Number(u)] = Arguments(u)

(***************************************************************************)
(* Between two callbacks no command of which every byte is in cmdbuffer    *)
(* waits there: ReadCallback's loop over ProcessCmd runs to the last.      *)
(***************************************************************************)
NothingWaits ==
  pc = "idle" =>
    \A u \in Headers :
      Start[u + Stream[u].value + 1] <= erased + cmdbuffer => Number(u) <= Len(done)

(***************************************************************************)
(* Every command that another one follows is executed in the end: the      *)
(* bytes of the next one flush the byte that ReadCallback may leave.       *)
(***************************************************************************)
FollowedExecuted ==
  \A u \in Headers :
    (\E w \in Headers : w > u) => <>(Number(u) <= Len(done))
=============================================================================
