------------------------------- MODULE Sessions -------------------------------
(***************************************************************************)
(* A conversation of the timed scheduler: class Stream of                  *)
(* src/tgt/schedule.py over the builders, cut up by the table PERSISTENT   *)
(* of src/tgt/timing.py. A persistent one is built a chunk of polls at a   *)
(* time; its TCP connection and what is open on it outlive the chunk, so   *)
(* messages of several builds go out on one connection. What a monitor on  *)
(* the wire makes of them is kept here: open, owed and last.               *)
(***************************************************************************)
EXTENDS Builders

CONSTANTS
  Streamed,       \* what the streams looked at are of: protocols, attacks
  Variants,       \* what two hosts may agree on (OfficeBuilders)
  Counts,         \* exchanges per occurrence
  Chunk,          \* timing.CHUNK, a multiple of 4 and of 8 as 256 is
  MaxTries,       \* tries of _build, 8 in the code
  MaxBuilds,      \* bound: builds of a stream
  Overlapping     \* keys whose occurrences can outlast their period

ASSUME KeysAssumption == Streamed \subseteq Keys \cup ATTACKS /\ Overlapping \subseteq Streamed
ASSUME NumbersAssumption == Chunk % 4 = 0 /\ Counts \subseteq Nat \ {0}

VARIABLES
  key, variant, count, dead,   \* the stream: protocol, hosts, server gone
  persistent,                  \* still to be cut into exchanges
  builds,                      \* builder calls so far
  conn,                        \* a connection is open
  polls, close,                \* exchanges built ahead: polls, the teardown
  apci,                        \* renumber_iec104: next N(S) by side
  flights,                     \* occurrences under way: their messages to come
  open, owed, last             \* the wire: layers open, with handles; a
                               \* report not confirmed; last number by side

stream == <<key, variant, count, dead>>
streamState == <<persistent, builds, conn, polls, close, apci>>
wire == <<open, owed, last>>
vars == <<stream, streamState, flights, wire>>

-----------------------------------------------------------------------------
(* timing.py: exchanges that open and that close a session; those that     *)
(* live for ever; the setup exchange that recurs.                          *)

PERSISTENT ==
  "modbus" :> <<1, 1>> @@ "enip" :> <<2, 2>> @@ "s7comm" :> <<3, 1>>
  @@ "s7plus" :> <<4, 2>> @@ "opcua" :> <<6, 3>> @@ "mms" :> <<6, 2>>
  @@ "slmp" :> <<2, 1>> @@ "srtp" :> <<2, 2>> @@ "hart-ip" :> <<4, 2>>
  @@ "dnp3" :> <<1, 1>> @@ "iec104" :> <<3, 1>> @@ "enip-io" :> <<3, 3>>
  @@ "edr" :> <<3, 1>> @@ "dhcp" :> <<2, 0>> @@ "modbus-rtu-tcp" :> <<1, 1>>
  @@ "dnp3-serial" :> <<1, 1>> @@ "realcom" :> <<1, 1>>
  @@ "realcom-cmd" :> <<2, 1>> @@ "bacnet-sc" :> <<4, 2>>
  @@ "modbus-sec" :> <<3, 2>> @@ "enip-tls" :> <<4, 2>>
  @@ "s7plus-tls" :> <<7, 3>> @@ "opcua-sign-encrypt" :> <<6, 3>>
  @@ "dnp3-tls" :> <<3, 2>> @@ "iec104-tls" :> <<5, 2>> @@ "enip-dtls" :> <<8, 3>>

Everlasting ==
  {"dnp3", "iec104", "enip-io", "dhcp", "dnp3-serial", "realcom", "realcom-cmd",
   "bacnet-sc", "dnp3-tls", "iec104-tls", "enip-dtls"}

REFRESH == "iec104" :> 2 @@ "iec104-tls" :> 4

-----------------------------------------------------------------------------
(* Cutting a build into exchanges.                                         *)

Payload(m) == m.kind \in {"data", "udp"}
Closes(m) == m.kind \in {"fin", "rst"}

\* mutant: what the server sends ends no exchange
NeverServed(frames) == IF frames = <<>> THEN <<>> ELSE <<frames>>

\* A new exchange at each client message that follows the server's data or
\* the handshake; the teardown from the first FIN or RST on.
exchanges(frames) ==
  LET cut(s, m) ==
        LET ends == Closes(m) /\ ~s.closing
            new == \/ s.groups = <<>> \/ ends
                   \/ /\ ~s.closing /\ Payload(m) /\ m.c
                      /\ s.served \/ s.syn
        IN  [groups |-> IF new THEN Append(s.groups, <<m>>)
                        ELSE Front(s.groups) \o <<Append(Last(s.groups), m)>>,
             served |-> IF Payload(m) THEN ~m.c ELSE s.served,
             syn |-> m.kind = "syn" \/ (s.syn /\ ~Payload(m)),
             closing |-> s.closing \/ ends]
  IN  FoldLeft(cut, [groups |-> <<>>, served |-> FALSE, syn |-> FALSE, closing |-> FALSE],
               frames).groups

-----------------------------------------------------------------------------

Init ==
  /\ key \in Streamed /\ variant \in Variants /\ count \in Counts
  /\ dead \in IF key \in ATTACKS THEN {FALSE} ELSE BOOLEAN
  /\ persistent = (key \in DOMAIN PERSISTENT)
  /\ builds = 0 /\ conn = FALSE /\ polls = <<>> /\ close = <<>>
  /\ apci = [c \in BOOLEAN |-> 0]
  /\ flights = <<>> /\ open = <<>> /\ owed = FALSE
  /\ last = [c \in BOOLEAN |-> NoNumber]

\* An occurrence falls due; the one before has gone out, where its period
\* leaves the time for it.
Due ==
  /\ flights = <<>> \/ (key \in Overlapping /\ Len(flights) = 1)
  /\ UNCHANGED <<stream, wire>>

Numbered(m) == m.n # NoNumber

\* renumber_iec104: each side's numbers go on from the connection's.
Renumber(frames) ==
  FoldLeft(LAMBDA s, m :
    IF Numbered(m)
    THEN [out |-> Append(s.out, [m EXCEPT !.n = s.next[m.c] + m.u - 1]),
          next |-> [s.next EXCEPT ![m.c] = @ + m.u]]
    ELSE [s EXCEPT !.out = Append(@, m)], [out |-> <<>>, next |-> apci], frames)

Sent(frames) == IF frames = <<>> THEN flights ELSE Append(flights, frames)
Send(frames) == flights' = Sent(frames) /\ UNCHANGED apci
Ride(frames) ==
  IF key = "iec104"
  THEN flights' = Sent(Renumber(frames).out) /\ apci' = Renumber(frames).next
  ELSE Send(frames)

BuiltAt(n, messages) == Build(key, messages, builds + n - 1, variant)

\* _build: each try is another build, until the 4-tuple of its TCP session
\* is not that of an open connection of another stream.
HasTuple == \E m \in Range(BuiltAt(1, 1)) : m.kind = "syn"
Tries == {n \in 1..MaxTries : builds + n <= MaxBuilds /\ (n > 1 => HasTuple)}

Setup == PERSISTENT[key][1]
Teardown == PERSISTENT[key][2]
CanBeCut(groups) == Len(groups) > Setup + Teardown

\* The next exchanges of the ones built ahead.
Pop(ahead) == FlattenSeq(SubSeq(ahead, 1, Min({count, Len(ahead)})))
Rest(ahead) == SubSeq(ahead, 1 + Min({count, Len(ahead)}), Len(ahead))

\* mutant: the first poll keeps the last exchange of the setup
CutsLate(groups) == SubSeq(groups, Setup, Len(groups) - Teardown)

Cut(groups) == SubSeq(groups, Setup + 1, Len(groups) - Teardown)

KeepClose(groups) == close' = SubSeq(groups, Len(groups) - Teardown + 1, Len(groups))

\* The first poll opens the connection; a DHCP client renews later.
Open ==
  /\ Due /\ ~dead /\ persistent /\ ~conn
  /\ \E n \in Tries :
       LET groups == exchanges(BuiltAt(n, Chunk))
           opening == FlattenSeq(SubSeq(groups, 1, Setup))
       IN  /\ CanBeCut(groups)
           /\ builds' = builds + n /\ conn' = TRUE /\ KeepClose(groups)
           /\ IF key = "dhcp" THEN polls' = Cut(groups) /\ Ride(opening)
              ELSE polls' = Rest(Cut(groups)) /\ Ride(opening \o Pop(Cut(groups)))
  /\ UNCHANGED persistent

\* A build too short to be cut: the stream is one-shot from now on, its
\* messages those of one more build.
Fallback ==
  /\ Due /\ ~dead /\ persistent /\ polls = <<>>
  /\ \E m \in IF conn THEN {1} ELSE Tries : \E n \in Tries :
       /\ builds + m + n <= MaxBuilds /\ ~CanBeCut(exchanges(BuiltAt(m, Chunk)))
       /\ builds' = builds + m + n /\ persistent' = FALSE
       /\ Send(BuiltAt(m + n, count))
  /\ UNCHANGED <<conn, polls, close>>

Poll ==
  /\ Due /\ ~dead /\ persistent /\ conn /\ polls # <<>>
  /\ polls' = Rest(polls) /\ Ride(Pop(polls))
  /\ UNCHANGED <<persistent, builds, conn, close>>

\* The chunk is used up: the next one, without its opening.
Refill ==
  /\ Due /\ ~dead /\ persistent /\ conn /\ polls = <<>> /\ 1 \in Tries
  /\ LET groups == exchanges(BuiltAt(1, Chunk))
     IN  /\ CanBeCut(groups) /\ KeepClose(groups)
         /\ polls' = Rest(Cut(groups)) /\ Ride(Pop(Cut(groups)))
  /\ builds' = builds + 1
  /\ UNCHANGED <<persistent, conn>>

\* The connection has lived its life: the teardown built last, nothing else.
Expire ==
  /\ Due /\ ~dead /\ persistent /\ conn /\ polls = <<>> /\ key \notin Everlasting
  /\ conn' = FALSE /\ close' = <<>> /\ Ride(FlattenSeq(close))
  /\ UNCHANGED <<persistent, builds, polls>>

\* A setup exchange once more, in place of a poll.
Refresh ==
  /\ Due /\ ~dead /\ persistent /\ conn /\ key \in DOMAIN REFRESH /\ 1 \in Tries
  /\ LET groups == exchanges(BuiltAt(1, 1))
     IN  Len(groups) > REFRESH[key] /\ Ride(groups[REFRESH[key] + 1])
  /\ builds' = builds + 1
  /\ UNCHANGED <<persistent, conn, polls, close>>

OneShot ==
  /\ Due /\ ~dead /\ ~persistent
  /\ \E n \in Tries : builds' = builds + n /\ Send(BuiltAt(n, count))
  /\ UNCHANGED <<persistent, conn, polls, close>>

\* The server is gone: the SYN and its retransmissions, or the bare request.
Retry ==
  /\ Due /\ dead /\ 1 \in Tries
  /\ LET first == Head(BuiltAt(1, 1))
     IN  Send(IF ~first.c THEN <<>>
              ELSE IF first.kind = "syn" THEN <<first, first, first>> ELSE <<first>>)
  /\ builds' = builds + 1
  /\ UNCHANGED <<persistent, conn, polls, close>>

Occur == Open \/ Fallback \/ Poll \/ Refill \/ Expire \/ Refresh \/ OneShot \/ Retry

-----------------------------------------------------------------------------
(* The wire.                                                               *)

Layers == {open[i].l : i \in DOMAIN open}
Position(l) == CHOOSE i \in DOMAIN open : open[i].l = l

\* A message leaves: the next of an occurrence under way.
Deliver(k) ==
  LET m == Head(flights[k])
      left == Tail(flights[k])
  IN  /\ flights' = IF left # <<>> THEN [flights EXCEPT ![k] = left]
                    ELSE RemoveAt(flights, k)
      /\ open' = CASE m.op = "open" -> Append(open, [l |-> m.l, h |-> m.h])
                   [] m.op = "shut" /\ m.l \in Layers -> SubSeq(open, 1, Position(m.l) - 1)
                   [] OTHER -> open
      /\ owed' = ((owed \/ m.op = "report") /\ m.op # "confirm")
      /\ last' = IF m.kind = "syn" THEN [c \in BOOLEAN |-> NoNumber]
                 ELSE IF Numbered(m) THEN [last EXCEPT ![m.c] = m.n] ELSE last
      /\ UNCHANGED <<stream, streamState>>

\* bound: the run ends once the stream has been built often enough.
RunEnds == flights = <<>> /\ builds = MaxBuilds /\ UNCHANGED vars

Next == Occur \/ (\E k \in DOMAIN flights : Deliver(k)) \/ RunEnds
Spec == Init /\ [][Next]_vars

-----------------------------------------------------------------------------
(* What a monitor that follows the conversation relies on.                 *)

Heads == {Head(flights[k]) : k \in DOMAIN flights}

\* Layers that end with the one they run on, without a closing of their own.
OutlivedBy == {"cotp", "s7", "startdt", "hello", "srtp", "tls", "dtls", "ws", "hart"}

\* Every message finds the layers of its conversation as it needs them,
\* whatever builds the messages before it came from: a layer is opened when
\* it is not open, used and closed while it is, and closed after what was
\* opened on it; a connection starts when nothing is open.
Nested ==
  \A m \in Heads :
    /\ m.op \in {"ask", "open"} => m.l \notin Layers
    /\ m.op \in {"use", "report", "confirm", "shut"} => m.l \in Layers
    /\ m.op = "shut" => \A i \in Position(m.l) + 1..Len(open) : open[i].l \in OutlivedBy
    /\ m.kind = "syn" /\ m.c /\ m.l = "tcp" => open = <<>>

\* The handle a layer was opened with is the one it is used with. It does not
\* hold: each build has session and connection handles of its own (enip), and a
\* later chunk uses those of its build on the connection opened by another.
OneHandle ==
  \A m \in Heads : m.op \in {"use", "shut"} =>
    \A i \in DOMAIN open : open[i].l = m.l => open[i].h = m.h

CONSTANTS
  Restarting,     \* keys whose builder numbers every build from the start
  Unconfirmed     \* keys whose cut loses messages that confirm

\* Within a connection, and from one datagram exchange to the next, the
\* numbers of each side go up by one per unit: over chunks, refreshes and
\* the builds thrown away for a 4-tuple that was taken.
Counted ==
  key \notin Restarting \cup Unconfirmed => \A m \in Heads :
    Numbered(m) /\ last[m.c] # NoNumber => m.n = last[m.c] + m.u

\* What one side reports is confirmed before it reports again and before
\* the connection closes, and nothing is confirmed that was not reported.
Confirmed ==
  key \notin Unconfirmed => \A m \in Heads :
    /\ m.op = "report" \/ (m.op = "shut" /\ m.l = "tcp") => ~owed
    /\ m.op = "confirm" => owed

\* A persistent session stays one, unless the hosts share no TLS: the table
\* fits what the builders make of a chunk.
StaysPersistent ==
  key \in DOMAIN PERSISTENT /\ ~(key = "edr" /\ variant.tls = "refused") => persistent
===============================================================================
