------------------------------ MODULE Connection ------------------------------
(***************************************************************************)
(* Persistent TCP sessions of timed streams: Stream._build, ._poll,        *)
(* .release and .occur, and Connection.delta and .rewrite, of              *)
(* src/tgt/schedule.py. The frames of a session come from many builds, one *)
(* per chunk of polls, each with its own initial sequence numbers and      *)
(* port; they are shifted so that they make one connection. The scheduler's *)
(* table `ports' keeps the sessions of other streams off an open one.      *)
(*                                                                         *)
(* All streams run between one client and one server port, so that a       *)
(* 4-tuple is the client's port. Time is left out: a lifetime is up, and a *)
(* refresh is due, at any occurrence. So are IP IDs, timestamps and the    *)
(* counters of IEC 104.                                                    *)
(***************************************************************************)
EXTENDS Integers, Sequences, FiniteSets

CONSTANTS
  Streams,
  Limited,       \* streams whose connection has a lifetime
  Refreshing,    \* streams that repeat a setup exchange (timing.REFRESH)
  OneShots,      \* streams that build a session per occurrence
  Ports,         \* ephemeral ports a build may come up with
  Tries,         \* builds tried for a free 4-tuple
  ISNs,          \* pairs of initial sequence numbers, client's and server's
  W,             \* sequence numbers are modulo W
  Request, Reply,        \* bytes of an exchange
  Chunk,         \* timing.CHUNK, polls of a build
  Count,         \* polls of an occurrence
  None

ASSUME StreamsAssumption ==
  Limited \subseteq Streams /\ Refreshing \subseteq Streams /\ OneShots \subseteq Streams
\* Fewer streams share a client, a server and a port than a build has tries.
ASSUME TriesAssumption == IsFiniteSet(Streams) /\ Cardinality(Streams) <= Tries
ASSUME NoneAssumption ==
  None \notin Streams \cup Ports /\ None \notin Int /\ None \notin Int \X Int
ASSUME NumbersAssumption ==
  /\ W \in Nat \ {0} /\ ISNs \subseteq (0 .. W - 1) \X (0 .. W - 1)
  /\ Request \in Nat /\ Reply \in Nat
  /\ Chunk \in Nat \ {0} /\ Count \in Nat \ {0} /\ Tries \in Nat

VARIABLES
  live,          \* streams the scheduler has loaded
  sport,         \* stream -> port of its connection; None: Stream.conn is None
  nxt,           \* stream -> Connection.c_next and .s_next
  polls,         \* stream -> polls of its chunk that are left
  base,          \* stream -> initial sequence numbers of that chunk
  ports,         \* Scheduler.ports: the stream that holds a port, or None
  rcv,           \* stream -> what its two hosts expect next of each other
  gapless,       \* history: no host has seen a gap or an overlap
  fresh          \* history: the port of the latest one-shot session

chunk == <<polls, base>>
vars == <<live, sport, nxt, chunk, ports, rcv, gapless, fresh>>

NoNumbers == [c |-> None, s |-> None]

Init ==
  /\ live = {} /\ gapless = TRUE /\ fresh = None
  /\ sport = [s \in Streams |-> None]
  /\ nxt = [s \in Streams |-> NoNumbers]
  /\ polls = [s \in Streams |-> 0]
  /\ base = [s \in Streams |-> None]
  /\ ports = [p \in Ports |-> None]
  /\ rcv = [s \in Streams |-> NoNumbers]

-----------------------------------------------------------------------------
(* What a builder returns, with the numbers of its own connection: the     *)
(* handshake, exchanges 1 .. Chunk + 1 (the first belongs to the setup),   *)
(* the teardown.                                                           *)

Segment(client, seq, ack, adv) ==
  [client |-> client, seq |-> seq % W, ack |-> ack % W, adv |-> adv]

Handshake(b) ==
  << Segment(TRUE, b[1], 0, 1), Segment(FALSE, b[2], b[1] + 1, 1),
     Segment(TRUE, b[1] + 1, b[2] + 1, 0) >>

Exchange(b, j) ==
  LET c == b[1] + 1 + (j - 1) * Request
      s == b[2] + 1 + (j - 1) * Reply
  IN << Segment(TRUE, c, s, Request), Segment(FALSE, s, c + Request, Reply) >>

Teardown(b) ==
  LET c == b[1] + 1 + (Chunk + 1) * Request
      s == b[2] + 1 + (Chunk + 1) * Reply
  IN << Segment(TRUE, c, s, 1), Segment(FALSE, s, c + 1, 1),
        Segment(TRUE, c + 1, s + 1, 0) >>

\* The next n polls of a chunk of which `left' are left.
Polls(b, left, n) ==
  LET poll[i \in 0 .. n] ==
        IF i = 0 THEN <<>> ELSE poll[i - 1] \o Exchange(b, 1 + Chunk - left + i)
  IN poll

NextPolls(b, left, n) == Polls(b, left, n)[n]

\* A build whose 4-tuple an open connection of another stream holds is
\* repeated; the tries of one build have different ports.
HeldByOthers(s) == {p \in Ports : ports[p] \notin {None, s}}

PortsFor(s) ==
  (Ports \ HeldByOthers(s))
    \cup (IF Cardinality(HeldByOthers(s)) >= Tries THEN HeldByOthers(s) ELSE {})

-----------------------------------------------------------------------------
(* Connection.                                                             *)

\* mutant: both directions are shifted alike
OneShift(k, f) ==
  IF k.c = None \/ k.s = None THEN None
  ELSE LET d == IF f.client THEN (k.c - f.seq) % W ELSE (k.s - f.seq) % W
       IN <<d, d>>

\* The shift, for client and server, that continues connection k with f.
Delta(k, f) ==
  IF k.c = None \/ k.s = None THEN None
  ELSE IF f.client THEN <<(k.c - f.seq) % W, (k.s - f.ack) % W>>
                   ELSE <<(k.c - f.ack) % W, (k.s - f.seq) % W>>

Shifted(f, d) ==
  IF d = None THEN f
  ELSE IF f.client THEN Segment(TRUE, f.seq + d[1], f.ack + d[2], f.adv)
                   ELSE Segment(FALSE, f.seq + d[2], f.ack + d[1], f.adv)

\* The numbers to go on with after g.
Advance(k, g) ==
  LET next == (g.seq + g.adv) % W
  IN IF g.client THEN [c |-> next, s |-> k.s] ELSE [c |-> k.c, s |-> next]

\* g is what the hosts expected.
InOrder(r, g) ==
  /\ (IF g.client THEN r.c ELSE r.s) \in {None, g.seq}
  /\ (IF g.client THEN r.s ELSE r.c) \in {None, g.ack}

\* One segment of an occurrence: the shift is found at the first.
Rewrite(x, f) ==
  LET d == IF x.d = None THEN Delta(x.k, f) ELSE x.d
      g == Shifted(f, d)
  IN [k |-> Advance(x.k, g), d |-> d, r |-> Advance(x.r, g),
      ok |-> x.ok /\ InOrder(x.r, g)]

\* The segments of one occurrence, ridden on connection k: what there is after
\* each of them.
Rides(k, r, frames) ==
  LET after[i \in 0 .. Len(frames)] ==
        IF i = 0 THEN [k |-> k, d |-> None, r |-> r, ok |-> TRUE]
                 ELSE Rewrite(after[i - 1], frames[i])
  IN after

Ride(k, r, frames) == Rides(k, r, frames)[Len(frames)]

-----------------------------------------------------------------------------
(* Occurrences of a stream.                                                *)

\* What a ride leaves behind.
Ridden(s, ride) ==
  /\ rcv' = [rcv EXCEPT ![s] = ride.r]
  /\ gapless' = (gapless /\ ride.ok)

Goes(s, frames) ==
  LET ride == Ride(nxt[s], rcv[s], frames)
  IN /\ nxt' = [nxt EXCEPT ![s] = ride.k]
     /\ Ridden(s, ride)

\* The first build of a connection: its setup, and the first polls.
Open(s) ==
  /\ s \in live \ OneShots /\ sport[s] = None /\ polls[s] = 0
  /\ \E b \in ISNs, p \in PortsFor(s) :
       LET n == IF Count < Chunk THEN Count ELSE Chunk
           ride == Ride(NoNumbers, rcv[s],
                        Handshake(b) \o Exchange(b, 1) \o NextPolls(b, Chunk, n))
       IN /\ sport' = [sport EXCEPT ![s] = p] /\ nxt' = [nxt EXCEPT ![s] = ride.k]
          /\ ports' = [ports EXCEPT ![p] = s]
          /\ base' = [base EXCEPT ![s] = b] /\ polls' = [polls EXCEPT ![s] = Chunk - n]
          /\ Ridden(s, ride)
  /\ UNCHANGED <<live, fresh>>

\* Polls of the chunk, or of a new one: its port is not the connection's.
Poll(s) ==
  /\ s \in live /\ sport[s] # None
  /\ \E b \in IF polls[s] = 0 THEN ISNs ELSE {base[s]} :
       LET left == IF polls[s] = 0 THEN Chunk ELSE polls[s]
           n == IF Count < left THEN Count ELSE left
       IN /\ polls' = [polls EXCEPT ![s] = left - n]
          /\ base' = [base EXCEPT ![s] = b]
          /\ Goes(s, NextPolls(b, left, n))
  /\ UNCHANGED <<live, sport, ports, fresh>>

\* A setup exchange of a build of its own, in the middle of a chunk.
Refresh(s) ==
  /\ s \in live \cap Refreshing /\ sport[s] # None
  /\ \E b \in ISNs : Goes(s, Exchange(b, 1))
  /\ UNCHANGED <<live, sport, chunk, ports, fresh>>

\* The table without the ports of s.
Released(s) == [p \in Ports |-> IF ports[p] = s THEN None ELSE ports[p]]

\* The stream has no connection any more.
Disconnects(s) ==
  /\ sport' = [sport EXCEPT ![s] = None]
  /\ nxt' = [nxt EXCEPT ![s] = NoNumbers] /\ rcv' = [rcv EXCEPT ![s] = NoNumbers]

\* mutant: the lifetime ends in the middle of a chunk
CloseAtOnce(s) ==
  /\ s \in live \cap Limited /\ sport[s] # None
  /\ LET ride == Ride(nxt[s], rcv[s], Teardown(base[s]))
     IN gapless' = (gapless /\ ride.ok)
  /\ Disconnects(s)
  /\ ports' = Released(s)
  /\ UNCHANGED <<live, chunk, fresh>>

\* The lifetime is up and the chunk is sent: the teardown of that chunk.
Close(s) ==
  /\ s \in live \cap Limited /\ sport[s] # None /\ polls[s] = 0
  /\ LET ride == Ride(nxt[s], rcv[s], Teardown(base[s]))
     IN gapless' = (gapless /\ ride.ok)
  /\ Disconnects(s)
  /\ ports' = Released(s)
  /\ UNCHANGED <<live, chunk, fresh>>

\* A session of one occurrence, whose frames are sent as built.
OneShot(s) ==
  /\ s \in live \cap OneShots
  /\ \E p \in PortsFor(s) : fresh' = <<s, p>>
  /\ UNCHANGED <<live, sport, nxt, chunk, ports, rcv, gapless>>

-----------------------------------------------------------------------------
(* Scheduler.load: a stream is new, or stops (its connection just ends).   *)

Load(s) ==
  /\ s \notin live /\ live' = live \cup {s}
  /\ UNCHANGED <<sport, nxt, chunk, ports, rcv, gapless, fresh>>

\* mutant: a stream that stops keeps its 4-tuple
UnloadKeeps(s) ==
  /\ s \in live /\ live' = live \ {s}
  /\ Disconnects(s)
  /\ polls' = [polls EXCEPT ![s] = 0] /\ base' = [base EXCEPT ![s] = None]
  /\ UNCHANGED <<ports, gapless, fresh>>

Unload(s) ==
  /\ s \in live /\ live' = live \ {s}
  /\ Disconnects(s)
  /\ polls' = [polls EXCEPT ![s] = 0] /\ base' = [base EXCEPT ![s] = None]
  /\ ports' = Released(s)
  /\ UNCHANGED <<gapless, fresh>>

Next ==
  \E s \in Streams :
    \/ Open(s) \/ Poll(s) \/ Refresh(s) \/ Close(s) \/ OneShot(s)
    \/ Load(s) \/ Unload(s)

Spec == Init /\ [][Next]_vars

-----------------------------------------------------------------------------
(* Properties.                                                             *)

\* The types of the streams, their connections and the table.
TypeOK ==
  /\ live \subseteq Streams /\ gapless \in BOOLEAN
  /\ sport \in [Streams -> Ports \cup {None}]
  /\ polls \in [Streams -> 0 .. Chunk]
  /\ base \in [Streams -> ISNs \cup {None}]
  /\ \A s \in Streams : sport[s] # None => s \in live \ OneShots
  /\ ports \in [Ports -> Streams \cup {None}]

\* Both byte streams of a connection are contiguous, and every segment
\* acknowledges all the peer has sent: over chunks, refreshes and the
\* teardown, each from a build with numbers of its own, and over the wrap of
\* the numbers (Connection.delta, schedule.py:181).
Gapless == gapless

\* The table holds the 4-tuples of the open connections and no other
\* (release, schedule.py:441; load, schedule.py:745): a port that stays in it
\* is lost to all other streams for the rest of the run.
TableExact ==
  \A p \in Ports, s \in Streams :
    ports[p] = s <=> sport[s] = p

\* A session of one occurrence never opens the 4-tuple of another stream's
\* open connection ("is rebuilt (next ephemeral port)", schedule.py:293).
FreshTuples ==
  [][\A s \in Streams, p \in Ports :
       fresh' = <<s, p>> /\ OneShot(s) => \A o \in Streams \ {s} :
         sport[o] # p]_vars

\* A poll left over from a closed connection is sent on no other.
NoOrphanPolls == \A s \in Streams : sport[s] = None => polls[s] = 0
=============================================================================
