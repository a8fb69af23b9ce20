--------------------------------- MODULE Wire ---------------------------------
(***************************************************************************)
(* The messages of src/tgt/protocols.py and the sessions they are put in:  *)
(* TcpSession, _tcp_flow and the like. A message is what a monitor follows *)
(* of a frame: the side, the kind of segment, what it does to a layer of   *)
(* the conversation (TCP, TLS, an association, a registered session ...),  *)
(* the handle that it names the layer with, and the number it carries. A   *)
(* payload cut into MSS-sized segments is one message; one that carries    *)
(* several numbered units (u of them) has the number of the last.          *)
(***************************************************************************)
EXTENDS Integers, Sequences, SequencesExt, FiniteSetsExt

NoNumber == -1

Message(c, kind, op, l, n) ==
  [c |-> c, kind |-> kind, op |-> op, l |-> l, h |-> 0, n |-> n, u |-> 1]

Client(op, l, n) == Message(TRUE, "data", op, l, n)
Server(op, l, n) == Message(FALSE, "data", op, l, n)

-----------------------------------------------------------------------------
(* Exchanges: what one side asks and the other answers. A layer is opened  *)
(* by the answer to its request and closed by the answer to its closing.   *)

AskN(l, n) == <<Client("use", l, n), Server("use", l, n)>>
Ask(l) == AskN(l, NoNumber)
TellN(l, n) == <<Client("use", l, n)>>
Tell(l) == TellN(l, NoNumber)
ToldN(l, n) == <<Server("use", l, n)>>
Told(l) == ToldN(l, NoNumber)
BeginN(l, n) == <<Client("ask", l, n), Server("open", l, n)>>
Begin(l) == BeginN(l, NoNumber)
Start(l) == <<Client("open", l, NoNumber)>>
Finish(l) == <<Client("use", l, NoNumber), Server("shut", l, NoNumber)>>
Quit(l) == <<Client("shut", l, NoNumber)>>
Report(l, n) == <<Server("report", l, n)>>
Confirm(l, n) == <<Client("confirm", l, n)>>

Units(exchange, k) == [i \in DOMAIN exchange |->
  IF exchange[i].c THEN exchange[i] ELSE [exchange[i] EXCEPT !.u = k]]

Polls(k, l) == [i \in 1..k |-> Ask(l)]
PollsN(k, l, from) == [i \in 1..k |-> AskN(l, from + i)]
Each(k, F(_)) == FlattenSeq([i \in 1..k |-> F(i - 1)])
AtLeastOne(k) == Max({1, k})

\* The handle (session handle, channel, session id) that a build drew.
Held(frames, h) ==
  [i \in DOMAIN frames |-> [frames[i] EXCEPT !.h = IF frames[i].l = "tcp" THEN 0 ELSE h]]

-----------------------------------------------------------------------------
(* TCP.                                                                    *)

handshake(l) ==
  <<Message(TRUE, "syn", "ask", l, NoNumber),
    Message(FALSE, "syn", "open", l, NoNumber),
    Message(TRUE, "ack", "use", l, NoNumber)>>

\* c closes; an abort is the client's reset alone.
teardown(l, c) ==
  <<Message(c, "fin", "shut", l, NoNumber),
    Message(~c, "fin", "none", l, NoNumber),
    Message(c, "ack", "none", l, NoNumber)>>
abort(l) == <<Message(TRUE, "rst", "shut", l, NoNumber)>>

delayed_ack(c) == Message(c, "ack", "none", "tcp", NoNumber)

Answered(exchange) == \E m \in Range(exchange) : ~m.c

\* From exchange `from` on (counted from 0), a response that is not the
\* last is followed by the client's delayed ACK.
Idle(exs, from) ==
  [i \in DOMAIN exs |-> IF from < i /\ i < Len(exs) /\ Answered(exs[i])
                        THEN Append(exs[i], delayed_ack(TRUE)) ELSE exs[i]]

tcp_flow(exs, rst, from) ==
  handshake("tcp") \o FlattenSeq(Idle(exs, from))
    \o (IF rst THEN abort("tcp") ELSE teardown("tcp", TRUE))

Tcp(exs) == tcp_flow(exs, FALSE, 0)

\* protocols_eng._flow and _session: no idling between the steps.
session(l, exs, client) ==
  handshake(l) \o FlattenSeq(exs) \o teardown(l, client)
Steps(exs) == session("tcp", exs, TRUE)

-----------------------------------------------------------------------------
(* Datagrams, and frames of layer 2: no session under them.                *)

Datagram(c, n) == Message(c, "udp", "free", "udp", n)
PairN(n) == <<Datagram(TRUE, n), Datagram(FALSE, n)>>
Pair == PairN(NoNumber)
CastN(n) == <<Datagram(TRUE, n)>>
Cast == CastN(NoNumber)
NoticeN(n) == <<Datagram(FALSE, n)>>
Notice == NoticeN(NoNumber)
Pairs(k) == Each(k, LAMBDA i : Pair)
===============================================================================
