--------------------------- MODULE Connection_proofs ---------------------------
(***************************************************************************)
(* Proofs about Connection, for any streams, ports and chunks: which       *)
(* 4-tuples are held, and by whom, and that the occurrences of a           *)
(* connection, renumbered, make two contiguous byte streams. The last is   *)
(* by induction over the segments of an occurrence and over the polls of a *)
(* chunk, in the form SetInduction gives it.                               *)
(***************************************************************************)
EXTENDS Connection, FiniteSetTheorems, WellFoundedInduction, TLAPS

\* The table is exact, and no polls are left without a connection.
IInv == TypeOK /\ TableExact /\ NoOrphanPolls

-----------------------------------------------------------------------------
\* One of the tries of a build finds a 4-tuple that no other stream holds:
\* there are more tries than other streams (Stream._build, schedule.py:294).
LEMMA PortIsFree ==
  ASSUME TypeOK, TableExact, NEW s \in Streams
  PROVE  PortsFor(s) \cap HeldByOthers(s) = {}
<1> DEFINE H == HeldByOthers(s)
           holder == [p \in H |-> ports[p]]
<1>1. IsFiniteSet(Streams \ {s}) /\ Cardinality(Streams \ {s}) = Cardinality(Streams) - 1
  BY TriesAssumption, FS_RemoveElement
<1>2. \A p \in H : ports[p] \in Streams \ {s} /\ sport[ports[p]] = p
  BY DEF HeldByOthers, TypeOK, TableExact
<1>3. holder \in Injection(H, Streams \ {s})
  BY <1>2 DEF Injection, IsInjective
<1>4. IsFiniteSet(H) /\ Cardinality(H) <= Cardinality(Streams \ {s})
  BY <1>1, <1>3, FS_Injection
<1>5. Cardinality(H) \in Nat /\ Cardinality(Streams) \in Nat /\ Tries \in Nat
  BY <1>4, FS_CardinalityType, TriesAssumption, NumbersAssumption
<1>6. ~(Cardinality(H) >= Tries)
  BY <1>1, <1>4, <1>5, TriesAssumption
<1> QED
  BY <1>6 DEF PortsFor

\* No stream holds a 4-tuple before the first phase.
LEMMA InitIInv == Init => IInv
<1> SUFFICES ASSUME Init PROVE IInv
  OBVIOUS
<1>1. TypeOK
  BY NumbersAssumption DEF Init, TypeOK
<1>2. TableExact /\ NoOrphanPolls
  BY NoneAssumption DEF Init, TableExact, NoOrphanPolls
<1> QED
  BY <1>1, <1>2 DEF IInv

\* A stream that opens takes a 4-tuple no other stream holds.
LEMMA OpenStep ==
  ASSUME IInv, NEW s \in Streams, Open(s) PROVE IInv'
<1> USE DEF IInv
<1>1. PICK b \in ISNs, p \in PortsFor(s) :
        /\ sport' = [sport EXCEPT ![s] = p]
        /\ ports' = [ports EXCEPT ![p] = s]
        /\ base' = [base EXCEPT ![s] = b]
        /\ polls' = [polls EXCEPT ![s] = Chunk - (IF Count < Chunk THEN Count ELSE Chunk)]
  BY DEF Open
<1>2. /\ s \in live \ OneShots /\ sport[s] = None
      /\ live' = live
  BY DEF Open
<1>3. p \in Ports /\ p \notin HeldByOthers(s)
  BY PortIsFree DEF PortsFor, HeldByOthers
<1>4. Chunk - (IF Count < Chunk THEN Count ELSE Chunk) \in 0 .. Chunk
  BY NumbersAssumption
<1>5. gapless' \in BOOLEAN
  BY DEF Open, Ridden
<1>6. TypeOK'
  BY <1>1, <1>2, <1>3, <1>4, <1>5 DEF TypeOK
<1>7. ports[p] = None
  BY <1>2, <1>3, NoneAssumption DEF HeldByOthers, TypeOK, TableExact
<1>8. TableExact'
  BY <1>1, <1>2, <1>3, <1>7, NoneAssumption DEF TypeOK, TableExact
<1>9. NoOrphanPolls'
  BY <1>1, <1>3, NoneAssumption DEF TypeOK, NoOrphanPolls
<1> QED
  BY <1>6, <1>8, <1>9

\* A connection that goes on keeps its 4-tuple.
LEMMA GoOnStep ==
  ASSUME IInv, NEW s \in Streams, Poll(s) \/ Refresh(s) \/ OneShot(s) \/ Load(s)
  PROVE  IInv'
<1> USE DEF IInv
<1>1. CASE Poll(s)
  <2>1. PICK left \in 0 .. Chunk, n \in 0 .. Chunk, b \in ISNs \cup {None} :
          /\ n <= left
          /\ polls' = [polls EXCEPT ![s] = left - n]
          /\ base' = [base EXCEPT ![s] = b]
    <3> DEFINE left == IF polls[s] = 0 THEN Chunk ELSE polls[s]
               n == IF Count < left THEN Count ELSE left
    <3>1. left \in 0 .. Chunk /\ n \in 0 .. Chunk /\ n <= left
      BY NumbersAssumption DEF TypeOK
    <3>2. PICK b \in IF polls[s] = 0 THEN ISNs ELSE {base[s]} :
            /\ polls' = [polls EXCEPT ![s] = left - n]
            /\ base' = [base EXCEPT ![s] = b]
      BY <1>1 DEF Poll
    <3>3. b \in ISNs \cup {None}
      BY <3>2 DEF TypeOK
    <3> QED
      BY <3>1, <3>2, <3>3
  <2>2. UNCHANGED <<live, sport, ports>> /\ sport[s] # None
    BY <1>1 DEF Poll
  <2>3. gapless' \in BOOLEAN
    BY <1>1 DEF Poll, Goes, Ridden
  <2>4. left - n \in 0 .. Chunk
    BY <2>1, NumbersAssumption
  <2>5. TypeOK'
    BY <2>1, <2>2, <2>3, <2>4 DEF TypeOK
  <2>6. NoOrphanPolls'
    BY <2>1, <2>2 DEF TypeOK, NoOrphanPolls
  <2> QED
    BY <2>2, <2>5, <2>6 DEF TableExact
<1>2. CASE Refresh(s)
  <2>1. UNCHANGED <<live, sport, chunk, ports>> /\ gapless' \in BOOLEAN
    BY <1>2 DEF Refresh, Goes, Ridden
  <2> QED
    BY <2>1 DEF TypeOK, TableExact, NoOrphanPolls, chunk
<1>3. CASE OneShot(s)
  BY <1>3 DEF OneShot, TypeOK, TableExact, NoOrphanPolls, chunk
<1>4. CASE Load(s)
  BY <1>4 DEF Load, TypeOK, TableExact, NoOrphanPolls, chunk
<1> QED
  BY <1>1, <1>2, <1>3, <1>4

\* A connection that ends gives its 4-tuple back.
LEMMA EndStep ==
  ASSUME IInv, NEW s \in Streams, Close(s) \/ Unload(s) PROVE IInv'
<1> USE DEF IInv
<1>1. /\ sport' = [sport EXCEPT ![s] = None]
      /\ ports' = Released(s)
  BY DEF Close, Unload, Disconnects
<1>2. TableExact'
  BY <1>1, NoneAssumption DEF Released, TypeOK, TableExact
<1>3. ports' \in [Ports -> Streams \cup {None}] /\ sport' \in [Streams -> Ports \cup {None}]
  BY <1>1 DEF Released, TypeOK
<1>4. CASE Close(s)
  <2>1. UNCHANGED <<live, polls, base>> /\ gapless' \in BOOLEAN /\ polls[s] = 0
    BY <1>4 DEF Close, chunk
  <2> QED
    BY <1>1, <1>2, <1>3, <2>1 DEF TypeOK, NoOrphanPolls
<1>5. CASE Unload(s)
  <2>1. /\ live' = live \ {s} /\ gapless' = gapless
        /\ polls' = [polls EXCEPT ![s] = 0] /\ base' = [base EXCEPT ![s] = None]
    BY <1>5 DEF Unload
  <2>2. 0 \in 0 .. Chunk
    BY NumbersAssumption
  <2>3. polls' \in [Streams -> 0 .. Chunk] /\ base' \in [Streams -> ISNs \cup {None}]
    BY <2>1, <2>2 DEF TypeOK
  <2>4. \A o \in Streams : sport'[o] # None => o \in live' \ OneShots
    BY <1>1, <2>1 DEF TypeOK
  <2>5. TypeOK'
    BY <1>3, <2>1, <2>3, <2>4 DEF TypeOK
  <2>6. NoOrphanPolls'
    BY <1>1, <2>1 DEF TypeOK, NoOrphanPolls
  <2> QED
    BY <1>2, <2>5, <2>6
<1> QED
  BY <1>4, <1>5

\* IInv is inductive.
LEMMA NextIInv == IInv /\ [Next]_vars => IInv'
<1> SUFFICES ASSUME IInv, [Next]_vars PROVE IInv'
  OBVIOUS
<1>1. CASE UNCHANGED vars
  BY <1>1 DEF vars, chunk, IInv, TypeOK, TableExact, NoOrphanPolls
<1>2. CASE Next
  BY <1>2, OpenStep, GoOnStep, EndStep DEF Next
<1> QED
  BY <1>1, <1>2

-----------------------------------------------------------------------------
\* The types hold for all streams, ports and chunks (Stream.__init__).
THEOREM ConnectionTypes == Spec => []TypeOK
<1>1. IInv => TypeOK
  BY DEF IInv
<1> QED
  BY <1>1, InitIInv, NextIInv, PTL DEF Spec

\* In every phase of every run the table holds the 4-tuples of the open
\* connections and no other (Stream.release, schedule.py:441).
THEOREM TableIsExact == Spec => []TableExact
<1>1. IInv => TableExact
  BY DEF IInv
<1> QED
  BY <1>1, InitIInv, NextIInv, PTL DEF Spec

\* No connection is opened with the polls of another (Stream._poll,
\* schedule.py:396).
THEOREM NoPollsOrphaned == Spec => []NoOrphanPolls
<1>1. IInv => NoOrphanPolls
  BY DEF IInv
<1> QED
  BY <1>1, InitIInv, NextIInv, PTL DEF Spec

\* A short session never opens the 4-tuple of another stream's connection
\* (Stream._build, schedule.py:291).
THEOREM TuplesAreFresh == Spec => FreshTuples
<1> DEFINE Fresh == \A s \in Streams, p \in Ports :
                      fresh' = <<s, p>> /\ OneShot(s) =>
                        \A o \in Streams \ {s} : sport[o] # p
<1>1. IInv /\ [Next]_vars => [Fresh]_vars
  <2> SUFFICES ASSUME IInv, NEW s \in Streams, NEW p \in Ports,
                      fresh' = <<s, p>>, OneShot(s),
                      NEW o \in Streams \ {s}
               PROVE  sport[o] # p
    BY DEF Fresh
  <2>1. p \in PortsFor(s)
    BY DEF OneShot
  <2>2. p \notin HeldByOthers(s)
    BY <2>1, PortIsFree DEF IInv
  <2> QED
    BY <2>2, NoneAssumption DEF HeldByOthers, IInv, TypeOK, TableExact
<1> QED
  BY <1>1, InitIInv, NextIInv, PTL DEF Spec, FreshTuples

-----------------------------------------------------------------------------
(* Renumbering: what the shift of an occurrence does to its segments.      *)

\* A set of numbers that holds 0 and each successor holds them all: the least
\* number outside it has no predecessor. Induction over data, below, is over sets.
LEMMA SetInduction ==
  ASSUME NEW S, 0 \in S, \A n \in Nat : n \in S => n + 1 \in S
  PROVE  \A n \in Nat : n \in S
<1> SUFFICES ASSUME NEW m \in Nat, m \notin S PROVE FALSE
  OBVIOUS
<1> DEFINE T == {n \in Nat : n \notin S}
           R == {ss \in Nat \X Nat : ss[1] < ss[2]}
<1>1. IsWellFoundedOn(R, Nat)
  BY NatLessThanWellFounded, Zenon DEF OpToRel
<1>2. T \subseteq Nat /\ T # {}
  OBVIOUS
<1>3. PICK x \in T : \A y \in T : ~(<<y, x>> \in R)
  <2> HIDE DEF T, R
  <2> QED
    BY <1>1, <1>2, WFMin
<1>4. x \in Nat /\ x # 0 /\ x - 1 \in Nat
  OBVIOUS
<1>5. <<x - 1, x>> \in R
  BY <1>4
<1>6. x - 1 \notin T
  BY <1>3, <1>5
<1> QED
  BY <1>4, <1>6

\* Before the first segment.
Started(k, r) == [k |-> k, d |-> None, r |-> r, ok |-> TRUE]

\* What defines the ride of the first n segments.
RideOf(g, k, r, frames, n) ==
  [i \in 0 .. n |-> IF i = 0 THEN Started(k, r) ELSE Rewrite(g[i - 1], frames[i])]

\* The recursion over the segments of an occurrence defines something.
LEMMA RidesExist ==
  ASSUME NEW k, NEW r, NEW frames, NEW n \in Nat
  PROVE  \E g : g = RideOf(g, k, r, frames, n)
<1> DEFINE S == {m \in Nat : \E g : g = RideOf(g, k, r, frames, m)}
<1>1. 0 \in S
  <2> DEFINE g == [i \in 0 .. 0 |-> Started(k, r)]
  <2>1. g = RideOf(g, k, r, frames, 0)
    BY DEF RideOf
  <2> QED
    BY <2>1
<1>2. ASSUME NEW m \in Nat, m \in S PROVE m + 1 \in S
  <2>1. PICK g : g = RideOf(g, k, r, frames, m)
    BY <1>2
  <2> DEFINE h == [i \in 0 .. m + 1 |->
                     IF i = m + 1 THEN Rewrite(g[m], frames[m + 1]) ELSE g[i]]
  <2>2. ASSUME NEW i \in 0 .. m + 1
        PROVE  h[i] = IF i = 0 THEN Started(k, r) ELSE Rewrite(h[i - 1], frames[i])
    <3>1. CASE i = m + 1
      BY <3>1
    <3>2. CASE i # m + 1
      <4>1. i \in 0 .. m /\ (i # 0 => i - 1 \in 0 .. m)
        BY <3>2
      <4>2. g[i] = IF i = 0 THEN Started(k, r) ELSE Rewrite(g[i - 1], frames[i])
        BY <2>1, <4>1 DEF RideOf
      <4>3. h[i] = g[i] /\ (i # 0 => h[i - 1] = g[i - 1])
        BY <4>1
      <4> QED
        BY <4>2, <4>3
    <3> QED
      BY <3>1, <3>2
  <2>3. h = RideOf(h, k, r, frames, m + 1)
    BY <2>2 DEF RideOf
  <2> HIDE DEF h
  <2> QED
    BY <2>3
<1> HIDE DEF S
<1>3. n \in S
  BY <1>1, <1>2, SetInduction
<1> QED
  BY <1>3 DEF S

\* So it may be read as the loop over frames it stands for (schedule.py:340).
LEMMA RidesStep ==
  ASSUME NEW k, NEW r, NEW frames, Len(frames) \in Nat
  PROVE  /\ Rides(k, r, frames)[0] = Started(k, r)
         /\ \A i \in 1 .. Len(frames) :
              Rides(k, r, frames)[i] = Rewrite(Rides(k, r, frames)[i - 1], frames[i])
<1> DEFINE A == Rides(k, r, frames)
<1>1. A = [i \in 0 .. Len(frames) |->
             IF i = 0 THEN Started(k, r) ELSE Rewrite(A[i - 1], frames[i])]
  <2>1. \E g : g = RideOf(g, k, r, frames, Len(frames))
    BY RidesExist
  <2>2. A = CHOOSE g : g = RideOf(g, k, r, frames, Len(frames))
    BY DEF Rides, Started, RideOf
  <2> HIDE DEF A
  <2>3. A = RideOf(A, k, r, frames, Len(frames))
    BY <2>1, <2>2, Zenon
  <2> QED
    BY <2>3 DEF RideOf
<1> HIDE DEF A
<1>2. A[0] = Started(k, r)
  BY <1>1
<1>3. \A i \in 1 .. Len(frames) : A[i] = Rewrite(A[i - 1], frames[i])
  BY <1>1
<1> QED
  BY <1>2, <1>3 DEF A

\* Numbers and their remainders.
LEMMA Remainder ==
  ASSUME NEW a \in Int
  PROVE  /\ a % W \in 0 .. W - 1
         /\ \E q \in Int : a = W * q + (a % W)
<1>1. W \in Nat \ {0}
  BY NumbersAssumption
<1>2. a % W \in 0 .. W - 1
  BY <1>1
<1>3. a \div W \in Int /\ a = W * (a \div W) + (a % W)
  BY <1>1
<1> QED
  BY <1>2, <1>3

\* Whole turns round the numbers make no difference.
LEMMA Turns ==
  ASSUME NEW a \in Int, NEW q \in Int PROVE (a + W * q) % W = a % W
<1>1. W \in Nat \ {0}
  BY NumbersAssumption
<1>2. PICK k \in Int : a = W * k + (a % W) /\ a % W \in 0 .. W - 1
  BY Remainder
<1>3. a + W * q = W * (k + q) + (a % W)
  BY <1>1, <1>2
<1>4. \A j \in Int, r \in 0 .. W - 1 : (W * j + r) % W = r
  BY <1>1
<1>5. (W * (k + q) + (a % W)) % W = a % W
  <2>1. k + q \in Int
    BY <1>2
  <2> QED
    BY <1>2, <1>4, <2>1
<1> QED
  BY <1>3, <1>5

\* Sums and differences may be taken of remainders.
LEMMA Modular ==
  ASSUME NEW a \in Int, NEW b \in Int
  PROVE  /\ a + (b % W) \in Int /\ (a + (b % W)) % W = (a + b) % W
         /\ (a % W) + (b % W) \in Int /\ ((a % W) + (b % W)) % W = (a + b) % W
         /\ (a % W) - (b % W) \in Int /\ ((a % W) - (b % W)) % W = (a - b) % W
<1>1. PICK j \in Int : a = W * j + (a % W) /\ a % W \in 0 .. W - 1
  BY Remainder
<1>2. PICK k \in Int : b = W * k + (b % W) /\ b % W \in 0 .. W - 1
  BY Remainder
<1> DEFINE r == a % W
           t == b % W
<1> HIDE DEF r, t
<1>3. /\ r \in Int /\ t \in Int /\ a = W * j + r /\ b = W * k + t
      /\ W \in Int
  BY <1>1, <1>2, NumbersAssumption DEF r, t
<1>4. a + t = (a + b) + W * (-k) /\ a + t \in Int /\ a + b \in Int /\ -k \in Int
  BY <1>3
<1>5. r + t = (a + b) + W * (-(j + k)) /\ r + t \in Int /\ -(j + k) \in Int
  BY <1>3
<1>6. r - t = (a - b) + W * (k - j) /\ r - t \in Int /\ k - j \in Int /\ a - b \in Int
  BY <1>3
<1>7. (a + t) % W = (a + b) % W
  BY <1>4, Turns
<1>8. (r + t) % W = (a + b) % W
  BY <1>4, <1>5, Turns
<1>9. (r - t) % W = (a - b) % W
  BY <1>6, Turns
<1> QED
  BY <1>4, <1>5, <1>6, <1>7, <1>8, <1>9 DEF r, t

\* A handshake's flag takes one number.
LEMMA NextNumber ==
  ASSUME NEW a \in Int PROVE ((a % W) + 1) % W = (a + 1) % W
<1>1. PICK d \in Int : d = 1
  OBVIOUS
<1>2. (d + (a % W)) % W = (d + a) % W
  BY Modular
<1>3. a % W \in 0 .. W - 1 /\ W \in Nat
  BY Remainder, NumbersAssumption
<1>4. d + (a % W) = (a % W) + 1 /\ d + a = a + 1
  BY <1>1, <1>3
<1> QED
  BY <1>2, <1>4

\* f takes the hosts from (c, s) to (c2, s2).
Follows(f, c, s, c2, s2) ==
  \/ f = Segment(TRUE, c, s, c2 - c) /\ s2 = s
  \/ f = Segment(FALSE, s, c, s2 - s) /\ c2 = c

\* The numbers of hosts that are at c and s.
At(c, s) == [c |-> c % W, s |-> s % W]

\* Within a ride, the hosts of the built segments are at c and s, and those of the
\* connection dc and ds further.
Riding(x, dc, ds, c, s) ==
  /\ x.d \in {None, <<dc % W, ds % W>>}
  /\ x.k = At(dc + c, ds + s) /\ x.r = x.k /\ x.ok

\* One segment: the shift that is found, or kept, continues the connection.
LEMMA RewriteFollows ==
  ASSUME NEW x, NEW f, NEW dc \in Int, NEW ds \in Int,
         NEW c \in Int, NEW s \in Int, NEW c2 \in Int, NEW s2 \in Int,
         Follows(f, c, s, c2, s2), Riding(x, dc, ds, c, s)
  PROVE  Riding(Rewrite(x, f), dc, ds, c2, s2)
<1>0. /\ x.d \in {None, <<dc % W, ds % W>>}
      /\ x.k = At(dc + c, ds + s) /\ x.r = x.k /\ x.ok
  BY DEF Riding
<1> DEFINE d == <<dc % W, ds % W>>
<1>1. \A n \in Int : n % W # None /\ n % W \in Int
  <2> SUFFICES ASSUME NEW n \in Int PROVE n % W # None /\ n % W \in Int
    OBVIOUS
  <2>1. n % W \in 0 .. W - 1 /\ W \in Nat
    BY Remainder, NumbersAssumption
  <2> QED
    BY <2>1, NoneAssumption
<1>2. d # None
  BY <1>1, NoneAssumption
<1>3. x.k.c # None /\ x.k.s # None
  BY <1>0, <1>1 DEF At
<1>4. ASSUME NEW a \in Int, NEW e \in Int
      PROVE  /\ (((e + a) % W) - (a % W)) % W = e % W
             /\ ((a % W) + (e % W)) % W = (e + a) % W
  <2>1. (((e + a) % W) - (a % W)) % W = ((e + a) - a) % W
    BY Modular
  <2>2. (e + a) - a = e
    OBVIOUS
  <2>3. ((a % W) + (e % W)) % W = (a + e) % W
    BY Modular
  <2>4. a + e = e + a
    OBVIOUS
  <2> QED
    BY <2>1, <2>2, <2>3, <2>4
<1>5. ASSUME NEW a \in Int, NEW e \in Int, NEW a2 \in Int
      PROVE  (((e + a) % W) + (a2 - a)) % W = (e + a2) % W
  <2>1. a2 - a \in Int /\ (a2 - a) + ((e + a) % W) = ((e + a) % W) + (a2 - a)
    BY <1>1
  <2>2. ((a2 - a) + ((e + a) % W)) % W = ((a2 - a) + (e + a)) % W
    BY <2>1, Modular
  <2>3. (a2 - a) + (e + a) = e + a2
    OBVIOUS
  <2> QED
    BY <2>1, <2>2, <2>3
<1>6. CASE f = Segment(TRUE, c, s, c2 - c) /\ s2 = s
  <2>1. f = [client |-> TRUE, seq |-> c % W, ack |-> s % W, adv |-> c2 - c]
    BY <1>6 DEF Segment
  <2>2. Delta(x.k, f) = d
    <3>1. x.k.c = (dc + c) % W /\ x.k.s = (ds + s) % W
      BY <1>0 DEF At
    <3>2. /\ (((dc + c) % W) - (c % W)) % W = dc % W
          /\ (((ds + s) % W) - (s % W)) % W = ds % W
      BY <1>4
    <3> QED
      BY <1>3, <2>1, <3>1, <3>2 DEF Delta
  <2>3. Shifted(f, d) = [client |-> TRUE, seq |-> (dc + c) % W, ack |-> (ds + s) % W,
                         adv |-> c2 - c]
    BY <1>2, <1>4, <2>1 DEF Shifted, Segment
  <2>4. Advance(x.k, Shifted(f, d)) = At(dc + c2, ds + s2)
    <3>1. x.k.c = (dc + c) % W /\ x.k.s = (ds + s) % W
      BY <1>0 DEF At
    <3>2. (((dc + c) % W) + (c2 - c)) % W = (dc + c2) % W
      BY <1>5, ZenonT(30)
    <3>3. Advance(x.k, Shifted(f, d)) = [c |-> (dc + c2) % W, s |-> x.k.s]
      BY <2>3, <3>2 DEF Advance
    <3> QED
      BY <1>6, <3>1, <3>3 DEF At
  <2>5. InOrder(x.r, Shifted(f, d))
    BY <1>0, <2>3 DEF InOrder, At
  <2> QED
    BY <1>0, <1>2, <2>2, <2>4, <2>5 DEF Rewrite, Riding
<1>7. CASE f = Segment(FALSE, s, c, s2 - s) /\ c2 = c
  <2>1. f = [client |-> FALSE, seq |-> s % W, ack |-> c % W, adv |-> s2 - s]
    BY <1>7 DEF Segment
  <2>2. Delta(x.k, f) = d
    <3>1. x.k.c = (dc + c) % W /\ x.k.s = (ds + s) % W
      BY <1>0 DEF At
    <3>2. /\ (((dc + c) % W) - (c % W)) % W = dc % W
          /\ (((ds + s) % W) - (s % W)) % W = ds % W
      BY <1>4
    <3> QED
      BY <1>3, <2>1, <3>1, <3>2 DEF Delta
  <2>3. Shifted(f, d) = [client |-> FALSE, seq |-> (ds + s) % W, ack |-> (dc + c) % W,
                         adv |-> s2 - s]
    BY <1>2, <1>4, <2>1 DEF Shifted, Segment
  <2>4. Advance(x.k, Shifted(f, d)) = At(dc + c2, ds + s2)
    <3>1. x.k.c = (dc + c) % W /\ x.k.s = (ds + s) % W
      BY <1>0 DEF At
    <3>2. (((ds + s) % W) + (s2 - s)) % W = (ds + s2) % W
      BY <1>5, ZenonT(30)
    <3>3. Advance(x.k, Shifted(f, d)) = [c |-> x.k.c, s |-> (ds + s2) % W]
      BY <2>3, <3>2 DEF Advance
    <3> QED
      BY <1>7, <3>1, <3>3 DEF At
  <2>5. InOrder(x.r, Shifted(f, d))
    BY <1>0, <2>3 DEF InOrder, At
  <2> QED
    BY <1>0, <1>2, <2>2, <2>4, <2>5 DEF Rewrite, Riding
<1> QED
  BY <1>6, <1>7 DEF Follows

\* frames go on from one another: between them the hosts are at c and s.
Linked(frames, c, s) ==
  /\ Len(frames) \in Nat
  /\ c \in [0 .. Len(frames) -> Int] /\ s \in [0 .. Len(frames) -> Int]
  /\ \A i \in 1 .. Len(frames) : Follows(frames[i], c[i - 1], s[i - 1], c[i], s[i])

\* The numbers of an open connection.
Numbers == [c : 0 .. W - 1, s : 0 .. W - 1]

\* What a ride must leave: both hosts have seen what the connection says.
Seamless(ride) == ride.ok /\ ride.r = ride.k /\ ride.k \in Numbers

\* A connection's numbers are below W.
LEMMA AtNumbers ==
  ASSUME NEW c \in Int, NEW s \in Int PROVE At(c, s) \in Numbers
<1>1. c % W \in 0 .. W - 1 /\ s % W \in 0 .. W - 1
  BY Remainder
<1> QED
  BY <1>1 DEF At, Numbers

\* They are where they say.
LEMMA NumbersAt ==
  ASSUME NEW k \in Numbers PROVE k.c \in Int /\ k.s \in Int /\ k = At(k.c, k.s)
<1>1. \A n \in 0 .. W - 1 : n \in Int /\ n % W = n
  BY NumbersAssumption
<1>2. k.c \in 0 .. W - 1 /\ k.s \in 0 .. W - 1 /\ k = [c |-> k.c, s |-> k.s]
  BY DEF Numbers
<1> QED
  BY <1>1, <1>2 DEF At

\* From segment m on, the rest of a ride is linked: then it is seamless.
LEMMA LinkedRides ==
  ASSUME NEW k, NEW r, NEW frames, Len(frames) \in Nat,
         NEW rest, NEW c, NEW s, Linked(rest, c, s),
         NEW m \in Nat, Len(frames) = m + Len(rest),
         \A i \in 1 .. Len(rest) : frames[m + i] = rest[i],
         NEW cc \in Int, NEW ss \in Int,
         Rides(k, r, frames)[m] = [k |-> At(cc, ss), d |-> None, r |-> At(cc, ss), ok |-> TRUE]
  PROVE  Seamless(Ride(k, r, frames))
<1> DEFINE A == Rides(k, r, frames)
           dc == cc - c[0]
           ds == ss - s[0]
           Good(i) == Riding(A[m + i], dc, ds, c[i], s[i])
           S == {i \in Nat : i <= Len(rest) => Good(i)}
<1>1. /\ Len(rest) \in Nat
      /\ \A i \in 0 .. Len(rest) : c[i] \in Int /\ s[i] \in Int
  BY DEF Linked
<1>2. dc \in Int /\ ds \in Int
  BY <1>1
<1>3. 0 \in S
  <2>1. dc + c[0] = cc /\ ds + s[0] = ss /\ m + 0 = m
    BY <1>1
  <2> QED
    BY <2>1 DEF Riding
<1> HIDE DEF dc, ds
<1>4. ASSUME NEW i \in Nat, i \in S PROVE i + 1 \in S
  <2> SUFFICES ASSUME i + 1 <= Len(rest) PROVE Good(i + 1)
    OBVIOUS
  <2>1. Good(i) /\ i \in 0 .. Len(rest) /\ i + 1 \in 0 .. Len(rest) /\ i + 1 \in 1 .. Len(rest)
    BY <1>1, <1>4
  <2>2. m + i + 1 \in 1 .. Len(frames) /\ m + i + 1 - 1 = m + i /\ m + i + 1 = m + (i + 1)
    BY <1>1, <2>1
  <2>3. A[m + (i + 1)] = Rewrite(A[m + i], rest[i + 1])
    <3>1. \A j \in 1 .. Len(frames) : A[j] = Rewrite(A[j - 1], frames[j])
      BY RidesStep, SMTT(30)
    <3>2. frames[m + (i + 1)] = rest[i + 1]
      BY <2>1
    <3> HIDE DEF A
    <3> QED
      BY <2>2, <3>1, <3>2
  <2>4. Follows(rest[i + 1], c[i], s[i], c[i + 1], s[i + 1])
    BY <2>1 DEF Linked
  <2>5. c[i] \in Int /\ s[i] \in Int /\ c[i + 1] \in Int /\ s[i + 1] \in Int
    BY <1>1, <2>1
  <2> HIDE DEF A
  <2> QED
    BY <1>2, <2>1, <2>3, <2>4, <2>5, RewriteFollows, SMTT(30)
<1> HIDE DEF S
<1>5. Len(rest) \in S
  BY <1>1, <1>3, <1>4, SetInduction
<1>6. Good(Len(rest))
  BY <1>1, <1>5 DEF S
<1>7. A[Len(frames)] = Ride(k, r, frames)
  BY DEF Ride
<1>8. At(dc + c[Len(rest)], ds + s[Len(rest)]) \in Numbers
  BY <1>1, <1>2, AtNumbers
<1> HIDE DEF A
<1> QED
  BY <1>6, <1>7, <1>8 DEF Seamless, Riding

\* The segments of a build.
Segments == [client : BOOLEAN, seq : 0 .. W - 1, ack : 0 .. W - 1, adv : Int]

\* frames take the hosts from (c0, s0) to (c1, s1).
Leads(frames, c0, s0, c1, s1) ==
  /\ frames \in Seq(Segments)
  /\ \E c, s : /\ Linked(frames, c, s)
               /\ c[0] = c0 /\ s[0] = s0
               /\ c[Len(frames)] = c1 /\ s[Len(frames)] = s1

\* What a builder returns.
LEMMA SegmentType ==
  ASSUME NEW client \in BOOLEAN, NEW seq \in Int, NEW ack \in Int, NEW adv \in Int
  PROVE  Segment(client, seq, ack, adv) \in Segments
<1>1. seq % W \in 0 .. W - 1 /\ ack % W \in 0 .. W - 1
  BY Remainder
<1> QED
  BY <1>1 DEF Segment, Segments

\* Segments without payload.
LEMMA ControlSegment ==
  ASSUME NEW client \in BOOLEAN, NEW seq \in Int, NEW ack \in Int
  PROVE  Segment(client, seq, ack, 0) \in Segments /\ Segment(client, seq, ack, 1) \in Segments
<1>1. seq % W \in 0 .. W - 1 /\ ack % W \in 0 .. W - 1
  BY Remainder
<1> QED
  BY <1>1 DEF Segment, Segments

\* Builds that go on from one another make one build.
LEMMA ConcatLeads ==
  ASSUME NEW f, NEW g, NEW c0, NEW s0, NEW c1, NEW s1, NEW c2, NEW s2,
         Leads(f, c0, s0, c1, s1), Leads(g, c1, s1, c2, s2)
  PROVE  Leads(f \o g, c0, s0, c2, s2)
<1>1. PICK c, s : /\ Linked(f, c, s)
                  /\ c[0] = c0 /\ s[0] = s0 /\ c[Len(f)] = c1 /\ s[Len(f)] = s1
  BY DEF Leads
<1>2. PICK d, t : /\ Linked(g, d, t)
                  /\ d[0] = c1 /\ t[0] = s1 /\ d[Len(g)] = c2 /\ t[Len(g)] = s2
  BY DEF Leads
<1>3. f \in Seq(Segments) /\ g \in Seq(Segments)
  BY DEF Leads
<1>4. /\ f \o g \in Seq(Segments) /\ Len(f \o g) = Len(f) + Len(g)
      /\ Len(f) \in Nat /\ Len(g) \in Nat
      /\ \A i \in 1 .. Len(f) + Len(g) :
           (f \o g)[i] = IF i <= Len(f) THEN f[i] ELSE g[i - Len(f)]
  BY <1>3
<1> DEFINE n == Len(f)
           m == Len(g)
           h == f \o g
           e == [i \in 0 .. n + m |-> IF i <= n THEN c[i] ELSE d[i - n]]
           u == [i \in 0 .. n + m |-> IF i <= n THEN s[i] ELSE t[i - n]]
<1>5. /\ \A i \in 0 .. n : c[i] \in Int /\ s[i] \in Int
      /\ \A i \in 0 .. m : d[i] \in Int /\ t[i] \in Int
      /\ \A i \in 1 .. n : Follows(f[i], c[i - 1], s[i - 1], c[i], s[i])
      /\ \A i \in 1 .. m : Follows(g[i], d[i - 1], t[i - 1], d[i], t[i])
  BY <1>1, <1>2 DEF Linked
<1>6. n \in Nat /\ m \in Nat /\ Len(h) = n + m
  BY <1>4
<1>7. \A i \in 1 .. n + m : h[i] = IF i <= n THEN f[i] ELSE g[i - n]
  BY <1>4
<1>8. c[n] = d[0] /\ s[n] = t[0]
  BY <1>1, <1>2
<1> HIDE DEF n, m, h
<1>9. e \in [0 .. n + m -> Int] /\ u \in [0 .. n + m -> Int]
  <2>1. ASSUME NEW i \in 0 .. n + m PROVE e[i] \in Int /\ u[i] \in Int
    <3>1. CASE i <= n
      BY <1>5, <1>6, <3>1
    <3>2. CASE ~(i <= n)
      <4>1. i - n \in 0 .. m
        BY <1>6, <3>2
      <4> QED
        BY <1>5, <3>2, <4>1
    <3> QED
      BY <3>1, <3>2
  <2> QED
    BY <2>1
<1>10. ASSUME NEW i \in 1 .. n + m
       PROVE  Follows(h[i], e[i - 1], u[i - 1], e[i], u[i])
  <2>1. i - 1 \in 0 .. n + m /\ i \in 0 .. n + m
    BY <1>6
  <2>2. CASE i <= n
    <3>1. e[i - 1] = c[i - 1] /\ e[i] = c[i] /\ u[i - 1] = s[i - 1] /\ u[i] = s[i]
      BY <1>6, <2>1, <2>2
    <3>2. i \in 1 .. n /\ h[i] = f[i]
      BY <1>6, <1>7, <2>2
    <3> HIDE DEF e, u
    <3> QED
      BY <1>5, <3>1, <3>2
  <2>3. CASE ~(i <= n)
    <3>1. i - n \in 1 .. m /\ h[i] = g[i - n] /\ (i - n) - 1 = i - 1 - n
      BY <1>6, <1>7, <2>3
    <3>2. e[i] = d[i - n] /\ u[i] = t[i - n]
      BY <2>1, <2>3
    <3>3. e[i - 1] = d[i - 1 - n] /\ u[i - 1] = t[i - 1 - n]
      <4>1. CASE i - 1 <= n
        <5>1. i - 1 = n /\ i - 1 - n = 0
          BY <1>6, <2>3, <4>1
        <5>2. e[i - 1] = c[n] /\ u[i - 1] = s[n]
          BY <2>1, <4>1, <5>1
        <5> QED
          BY <1>8, <5>1, <5>2
      <4>2. CASE ~(i - 1 <= n)
        BY <2>1, <4>2
      <4> QED
        BY <4>1, <4>2
    <3> HIDE DEF e, u
    <3> QED
      BY <1>5, <3>1, <3>2, <3>3
  <2> QED
    BY <2>2, <2>3
<1>11. e[0] = c0 /\ u[0] = s0
  BY <1>1, <1>6
<1>12. e[n + m] = c2 /\ u[n + m] = s2
  <2>1. d[m] = c2 /\ t[m] = s2 /\ c[n] = c1 /\ s[n] = s1 /\ d[0] = c1 /\ t[0] = s1
    BY <1>1, <1>2 DEF n, m
  <2>2. CASE m = 0
    BY <1>6, <2>1, <2>2
  <2>3. CASE m # 0
    <3>1. PICK k \in 0 .. n + m : k = n + m /\ ~(k <= n) /\ k - n = m
      BY <1>6, <2>3
    <3>2. e[k] = d[k - n] /\ u[k] = t[k - n]
      BY <3>1
    <3> QED
      BY <2>1, <3>1, <3>2
  <2> QED
    BY <2>2, <2>3
<1> HIDE DEF e, u
<1>13. Linked(h, e, u)
  BY <1>6, <1>9, <1>10 DEF Linked
<1>14. h \in Seq(Segments)
  BY <1>4 DEF h
<1>15. Leads(h, c0, s0, c2, s2)
  BY <1>6, <1>11, <1>12, <1>13, <1>14 DEF Leads
<1> QED
  BY <1>15 DEF h

\* Where the hosts are before exchange j of a build.
CAt(b, j) == b[1] + 1 + (j - 1) * Request
SAt(b, j) == b[2] + 1 + (j - 1) * Reply

\* An exchange of a build goes on from the one before.
LEMMA ExchangeLeads ==
  ASSUME NEW b \in ISNs, NEW j \in Int
  PROVE  Leads(Exchange(b, j), CAt(b, j), SAt(b, j), CAt(b, j + 1), SAt(b, j + 1))
<1> DEFINE p == CAt(b, j)
           q == SAt(b, j)
           p2 == CAt(b, j + 1)
           q2 == SAt(b, j + 1)
<1>1. /\ p \in Int /\ q \in Int /\ p2 = p + Request /\ q2 = q + Reply
      /\ Request \in Int /\ Reply \in Int
  <2>1. b[1] \in Int /\ b[2] \in Int /\ Request \in Int /\ Reply \in Int
    BY NumbersAssumption
  <2>2. /\ (j - 1) * Request \in Int /\ (j - 1) * Reply \in Int
        /\ (j + 1 - 1) * Request = (j - 1) * Request + Request
        /\ (j + 1 - 1) * Reply = (j - 1) * Reply + Reply
    BY <2>1
  <2> QED
    BY <2>1, <2>2 DEF CAt, SAt
<1> DEFINE F == << Segment(TRUE, p, q, Request), Segment(FALSE, q, p2, Reply) >>
<1>2. Exchange(b, j) = F
  BY <1>1 DEF Exchange, CAt, SAt
<1> HIDE DEF p, q, p2, q2
<1> DEFINE c == [i \in 0 .. 2 |-> IF i = 0 THEN p ELSE p2]
           s == [i \in 0 .. 2 |-> IF i = 2 THEN q2 ELSE q]
<1>3. F \in Seq(Segments)
  <2>1. Segment(TRUE, p, q, Request) \in Segments
    BY <1>1, SegmentType
  <2>2. Segment(FALSE, q, p2, Reply) \in Segments
    <3>1. p2 \in Int
      BY <1>1
    <3> QED
      BY <1>1, <3>1, SegmentType
  <2>3. \A x, y \in Segments : <<x, y>> \in Seq(Segments)
    OBVIOUS
  <2> QED
    BY <2>1, <2>2, <2>3
<1>4. Len(F) = 2 /\ F[1] = Segment(TRUE, p, q, Request) /\ F[2] = Segment(FALSE, q, p2, Reply)
  OBVIOUS
<1>5. c \in [0 .. 2 -> Int] /\ s \in [0 .. 2 -> Int]
  BY <1>1
<1>6. Follows(F[1], c[0], s[0], c[1], s[1]) /\ Follows(F[2], c[1], s[1], c[2], s[2])
  <2>1. p2 - p = Request /\ q2 - q = Reply
    BY <1>1
  <2>2. c[0] = p /\ c[1] = p2 /\ c[2] = p2 /\ s[0] = q /\ s[1] = q /\ s[2] = q2
    OBVIOUS
  <2> HIDE DEF F, c, s
  <2> QED
    BY <1>4, <2>1, <2>2 DEF Follows
<1>7. c[0] = p /\ s[0] = q /\ c[2] = p2 /\ s[2] = q2
  OBVIOUS
<1> HIDE DEF F, c, s
<1>8. Linked(F, c, s)
  <2>1. \A i \in 1 .. 2 : Follows(F[i], c[i - 1], s[i - 1], c[i], s[i])
    <3> SUFFICES ASSUME NEW i \in 1 .. 2
                 PROVE Follows(F[i], c[i - 1], s[i - 1], c[i], s[i])
      OBVIOUS
    <3>1. i = 1 \/ i = 2
      OBVIOUS
    <3> QED
      BY <1>6, <3>1
  <2> QED
    BY <1>4, <1>5, <2>1 DEF Linked
<1>9. Leads(F, p, q, p2, q2)
  BY <1>3, <1>4, <1>7, <1>8 DEF Leads
<1> QED
  BY <1>2, <1>9 DEF p, q, p2, q2

\* What defines the next n polls.
PollsOf(g, b, left, n) ==
  [i \in 0 .. n |-> IF i = 0 THEN <<>> ELSE g[i - 1] \o Exchange(b, 1 + Chunk - left + i)]

\* The recursion over the polls of a chunk defines something.
LEMMA PollsExist ==
  ASSUME NEW b, NEW left, NEW n \in Nat
  PROVE  \E g : g = PollsOf(g, b, left, n)
<1> DEFINE S == {m \in Nat : \E g : g = PollsOf(g, b, left, m)}
<1>1. 0 \in S
  <2> DEFINE g == [i \in 0 .. 0 |-> <<>>]
  <2>1. g = PollsOf(g, b, left, 0)
    BY DEF PollsOf
  <2> QED
    BY <2>1
<1>2. ASSUME NEW m \in Nat, m \in S PROVE m + 1 \in S
  <2>1. PICK g : g = PollsOf(g, b, left, m)
    BY <1>2
  <2> DEFINE E(i) == Exchange(b, 1 + Chunk - left + i)
             h == [i \in 0 .. m + 1 |-> IF i = m + 1 THEN g[m] \o E(m + 1) ELSE g[i]]
  <2>2. ASSUME NEW i \in 0 .. m + 1
        PROVE  h[i] = IF i = 0 THEN <<>> ELSE h[i - 1] \o E(i)
    <3>1. CASE i = m + 1
      BY <3>1
    <3>2. CASE i # m + 1
      <4>1. i \in 0 .. m /\ (i # 0 => i - 1 \in 0 .. m)
        BY <3>2
      <4>2. g[i] = IF i = 0 THEN <<>> ELSE g[i - 1] \o E(i)
        BY <2>1, <4>1 DEF PollsOf
      <4>3. h[i] = g[i] /\ (i # 0 => h[i - 1] = g[i - 1])
        BY <4>1
      <4> QED
        BY <4>2, <4>3
    <3> QED
      BY <3>1, <3>2
  <2>3. h = PollsOf(h, b, left, m + 1)
    BY <2>2 DEF PollsOf
  <2> HIDE DEF h
  <2> QED
    BY <2>3
<1> HIDE DEF S
<1>3. n \in S
  BY <1>1, <1>2, SetInduction
<1> QED
  BY <1>3 DEF S

\* Nothing leads nowhere.
LEMMA EmptyLeads ==
  ASSUME NEW c \in Int, NEW s \in Int PROVE Leads(<<>>, c, s, c, s)
<1> DEFINE e == [i \in 0 .. 0 |-> c]
           u == [i \in 0 .. 0 |-> s]
<1>1. e \in [0 .. 0 -> Int] /\ u \in [0 .. 0 -> Int] /\ e[0] = c /\ u[0] = s
  OBVIOUS
<1> HIDE DEF e, u
<1>2. Len(<<>>) = 0 /\ <<>> \in Seq(Segments)
  OBVIOUS
<1>3. Linked(<<>>, e, u)
  BY <1>1, <1>2 DEF Linked
<1> QED
  BY <1>1, <1>2, <1>3 DEF Leads

\* The polls of an occurrence go on from one another.
LEMMA PollsLead ==
  ASSUME NEW b \in ISNs, NEW left \in Int, NEW n \in Nat
  PROVE  Leads(NextPolls(b, left, n),
               CAt(b, 2 + Chunk - left), SAt(b, 2 + Chunk - left),
               CAt(b, 2 + Chunk - left + n), SAt(b, 2 + Chunk - left + n))
<1> DEFINE A == Polls(b, left, n)
           j == 2 + Chunk - left
           P(i) == Leads(A[i], CAt(b, j), SAt(b, j), CAt(b, j + i), SAt(b, j + i))
           S == {i \in Nat : i <= n => P(i)}
<1>0. Chunk \in Int /\ j \in Int /\ \A i \in Int : 1 + Chunk - left + i = j + (i - 1)
  BY NumbersAssumption
<1>1. /\ A[0] = <<>>
      /\ \A i \in 1 .. n : A[i] = A[i - 1] \o Exchange(b, 1 + Chunk - left + i)
  <2>1. \E g : g = PollsOf(g, b, left, n)
    BY PollsExist
  <2>2. A = CHOOSE g : g = PollsOf(g, b, left, n)
    BY DEF Polls, PollsOf
  <2> HIDE DEF A
  <2>3. A = PollsOf(A, b, left, n)
    BY <2>1, <2>2, Zenon
  <2> QED
    BY <2>3 DEF PollsOf
<1>2. 0 \in S
  <2>1. CAt(b, j) \in Int /\ SAt(b, j) \in Int /\ j + 0 = j
    BY <1>0, NumbersAssumption DEF CAt, SAt
  <2> HIDE DEF A, j
  <2> QED
    BY <1>1, <2>1, EmptyLeads
<1> HIDE DEF A, j
<1>3. ASSUME NEW i \in Nat, i \in S PROVE i + 1 \in S
  <2> SUFFICES ASSUME i + 1 <= n PROVE P(i + 1)
    OBVIOUS
  <2>1. P(i)
    BY <1>3
  <2>2. A[i + 1] = A[i] \o Exchange(b, j + i)
    <3>1. i + 1 \in 1 .. n /\ i + 1 - 1 = i
      OBVIOUS
    <3>2. 1 + Chunk - left + (i + 1) = j + i
      BY <1>0
    <3>3. PICK k \in 1 .. n : k = i + 1 /\ k - 1 = i /\ 1 + Chunk - left + k = j + i
      BY <3>1, <3>2
    <3>4. A[k] = A[k - 1] \o Exchange(b, 1 + Chunk - left + k)
      BY <1>1
    <3> QED
      BY <3>3, <3>4
  <2>3. j + i \in Int /\ j + i + 1 = j + (i + 1)
    BY <1>0
  <2>4. Leads(Exchange(b, j + i), CAt(b, j + i), SAt(b, j + i), CAt(b, j + (i + 1)), SAt(b, j + (i + 1)))
    BY <2>3, ExchangeLeads
  <2> QED
    BY <2>1, <2>2, <2>4, ConcatLeads
<1> HIDE DEF S
<1>4. n \in S
  BY <1>2, <1>3, SetInduction
<1>5. A[n] = NextPolls(b, left, n)
  BY DEF NextPolls, A
<1> QED
  BY <1>4, <1>5 DEF S, j

\* So does a teardown.
LEMMA TeardownLeads ==
  ASSUME NEW b \in ISNs
  PROVE  \E c1, s1, c2, s2 : Leads(Teardown(b), c1, s1, c2, s2)
<1> DEFINE p == b[1] + 1 + (Chunk + 1) * Request
           q == b[2] + 1 + (Chunk + 1) * Reply
           p2 == p + 1
           q2 == q + 1
           F == << Segment(TRUE, p, q, 1), Segment(FALSE, q, p2, 1),
                   Segment(TRUE, p2, q2, 0) >>
           c == [i \in 0 .. 3 |-> IF i = 0 THEN p ELSE p2]
           s == [i \in 0 .. 3 |-> IF i < 2 THEN q ELSE q2]
<1>1. p \in Int /\ q \in Int /\ p2 \in Int /\ q2 \in Int
  BY NumbersAssumption
<1>2. p2 - p = 1 /\ q2 - q = 1 /\ p2 - p2 = 0
  BY <1>1
<1>3. Teardown(b) = F
  BY DEF Teardown
<1> HIDE DEF p, q, p2, q2
<1>4. F \in Seq(Segments)
  <2>1. Segment(TRUE, p, q, 1) \in Segments
    BY <1>1, ControlSegment
  <2>2. Segment(FALSE, q, p2, 1) \in Segments
    BY <1>1, ControlSegment
  <2>3. Segment(TRUE, p2, q2, 0) \in Segments
    BY <1>1, ControlSegment
  <2>4. \A x, y, z \in Segments : <<x, y, z>> \in Seq(Segments)
    OBVIOUS
  <2> QED
    BY <2>1, <2>2, <2>3, <2>4
<1>5. /\ Len(F) = 3 /\ F[1] = Segment(TRUE, p, q, p2 - p)
      /\ F[2] = Segment(FALSE, q, p2, q2 - q) /\ F[3] = Segment(TRUE, p2, q2, p2 - p2)
  BY <1>2
<1>6. c \in [0 .. 3 -> Int] /\ s \in [0 .. 3 -> Int]
  BY <1>1
<1>7. /\ c[0] = p /\ c[1] = p2 /\ c[2] = p2 /\ c[3] = p2
      /\ s[0] = q /\ s[1] = q /\ s[2] = q2 /\ s[3] = q2
  OBVIOUS
<1> HIDE DEF F, c, s
<1>8. /\ Follows(F[1], c[0], s[0], c[1], s[1])
      /\ Follows(F[2], c[1], s[1], c[2], s[2])
      /\ Follows(F[3], c[2], s[2], c[3], s[3])
  <2>1. Follows(F[1], p, q, p2, q)
    BY <1>5 DEF Follows
  <2>2. Follows(F[2], p2, q, p2, q2)
    BY <1>5 DEF Follows
  <2>3. Follows(F[3], p2, q2, p2, q2)
    BY <1>5 DEF Follows
  <2> QED
    BY <1>7, <2>1, <2>2, <2>3
<1>9. Linked(F, c, s)
  <2>1. \A i \in 1 .. 3 : Follows(F[i], c[i - 1], s[i - 1], c[i], s[i])
    <3> SUFFICES ASSUME NEW i \in 1 .. 3
                 PROVE Follows(F[i], c[i - 1], s[i - 1], c[i], s[i])
      OBVIOUS
    <3>1. i = 1 \/ i = 2 \/ i = 3
      OBVIOUS
    <3> QED
      BY <1>8, <3>1
  <2> QED
    BY <1>5, <1>6, <2>1 DEF Linked
<1>10. Leads(F, c[0], s[0], c[3], s[3])
  BY <1>4, <1>5, <1>9 DEF Leads
<1> QED
  BY <1>3, <1>10

\* An occurrence of an open connection is seamless, wherever its build is.
LEMMA OccurrenceRides ==
  ASSUME NEW k \in Numbers, NEW frames, NEW c0, NEW s0, NEW c1, NEW s1,
         Leads(frames, c0, s0, c1, s1)
  PROVE  Seamless(Ride(k, k, frames))
<1>1. PICK c, s : Linked(frames, c, s)
  BY DEF Leads
<1>2. Len(frames) \in Nat /\ Len(frames) = 0 + Len(frames)
  BY <1>1 DEF Linked
<1>3. Rides(k, k, frames)[0] = [k |-> k, d |-> None, r |-> k, ok |-> TRUE]
  BY <1>2, RidesStep DEF Started
<1>4. k.c \in Int /\ k.s \in Int /\ k = At(k.c, k.s)
  BY NumbersAt
<1>5. \A i \in 1 .. Len(frames) : frames[0 + i] = frames[i]
  OBVIOUS
<1>6. Rides(k, k, frames)[0] =
        [k |-> At(k.c, k.s), d |-> None, r |-> At(k.c, k.s), ok |-> TRUE]
  BY <1>3, <1>4
<1> QED
  BY <1>1, <1>2, <1>4, <1>5, <1>6, LinkedRides

\* The end of a handshake moves neither host.
LEMMA AckLeads ==
  ASSUME NEW c \in Int, NEW s \in Int
  PROVE  Leads(<<Segment(TRUE, c, s, 0)>>, c, s, c, s)
<1> DEFINE F == <<Segment(TRUE, c, s, 0)>>
           e == [i \in 0 .. 1 |-> c]
           u == [i \in 0 .. 1 |-> s]
<1>1. Len(F) = 1 /\ F[1] = Segment(TRUE, c, s, 0)
  OBVIOUS
<1>2. F \in Seq(Segments)
  <2>1. Segment(TRUE, c, s, 0) \in Segments
    BY ControlSegment
  <2>2. \A x \in Segments : <<x>> \in Seq(Segments)
    OBVIOUS
  <2> QED
    BY <2>1, <2>2
<1>3. e \in [0 .. 1 -> Int] /\ u \in [0 .. 1 -> Int]
  OBVIOUS
<1>4. e[0] = c /\ e[1] = c /\ u[0] = s /\ u[1] = s
  OBVIOUS
<1> HIDE DEF F, e, u
<1>5. Linked(F, e, u)
  <2>1. c - c = 0
    OBVIOUS
  <2>2. Follows(F[1], e[0], u[0], e[1], u[1])
    BY <1>1, <1>4, <2>1 DEF Follows
  <2>3. \A i \in 1 .. 1 : i = 1 /\ i - 1 = 0
    OBVIOUS
  <2>4. \A i \in 1 .. 1 : Follows(F[i], e[i - 1], u[i - 1], e[i], u[i])
    BY <2>2, <2>3
  <2> QED
    BY <1>1, <1>3, <2>4 DEF Linked
<1>6. Leads(F, c, s, c, s)
  BY <1>1, <1>2, <1>4, <1>5 DEF Leads
<1> QED
  BY <1>6 DEF F

\* The segments of two builds put together.
LEMMA ConcatParts ==
  ASSUME NEW f \in Seq(Segments), NEW g \in Seq(Segments)
  PROVE  /\ f \o g \in Seq(Segments) /\ Len(f) \in Nat /\ Len(g) \in Nat
         /\ Len(f \o g) = Len(f) + Len(g)
         /\ \A i \in 1 .. Len(f) + Len(g) :
              (f \o g)[i] = IF i <= Len(f) THEN f[i] ELSE g[i - Len(f)]
OBVIOUS

\* From the third segment on, frames are rest; the first two are H's.
TwoBefore(frames, H, rest) ==
  /\ Len(frames) \in Nat /\ Len(frames) = 2 + Len(rest)
  /\ \A i \in 1 .. Len(rest) : frames[2 + i] = rest[i]
  /\ frames[1] = H[1] /\ frames[2] = H[2]

\* A setup is its first two segments and the rest.
LEMMA AfterTwo ==
  ASSUME NEW H \in Seq(Segments), NEW E \in Seq(Segments), NEW N \in Seq(Segments),
         NEW ack \in Seq(Segments), Len(H) = 3, Len(ack) = 1, ack[1] = H[3]
  PROVE  TwoBefore((H \o E) \o N, H, ack \o (E \o N))
<1> DEFINE e == Len(E)
           n == Len(N)
           HE == H \o E
           EN == E \o N
           L == HE \o N
           R == ack \o EN
<1>1. /\ HE \in Seq(Segments) /\ e \in Nat /\ Len(HE) = Len(H) + e
      /\ \A i \in 1 .. Len(H) + e : HE[i] = IF i <= Len(H) THEN H[i] ELSE E[i - Len(H)]
  BY ConcatParts
<1>2. /\ EN \in Seq(Segments) /\ n \in Nat /\ Len(EN) = e + n
      /\ \A i \in 1 .. e + n : EN[i] = IF i <= e THEN E[i] ELSE N[i - e]
  BY ConcatParts
<1> HIDE DEF HE, EN, e
<1>3. /\ Len(L) = Len(HE) + n
      /\ \A i \in 1 .. Len(HE) + n : L[i] = IF i <= Len(HE) THEN HE[i] ELSE N[i - Len(HE)]
  BY <1>1, ConcatParts
<1>4. /\ Len(R) = Len(ack) + Len(EN)
      /\ \A i \in 1 .. Len(ack) + Len(EN) : R[i] = IF i <= Len(ack) THEN ack[i] ELSE EN[i - Len(ack)]
  BY <1>2, ConcatParts
<1> HIDE DEF L, R, n
<1>5. /\ Len(L) = 3 + e + n /\ Len(R) = 1 + e + n /\ e \in Nat /\ n \in Nat
  BY <1>1, <1>2, <1>3, <1>4
<1>6. ASSUME NEW i \in 1 .. 1 + e + n PROVE L[2 + i] = R[i]
  <2>1. PICK j \in 1 .. 3 + e + n : j = 2 + i /\ j - 3 = i - 1
    BY <1>5
  <2>2. L[j] = IF j <= 3 + e THEN HE[j] ELSE N[j - (3 + e)]
    BY <1>1, <1>3, <1>5
  <2>3. j <= 3 + e => HE[j] = IF j <= 3 THEN H[j] ELSE E[i - 1]
    <3> SUFFICES ASSUME j <= 3 + e PROVE HE[j] = IF j <= 3 THEN H[j] ELSE E[i - 1]
      OBVIOUS
    <3>1. j \in 1 .. Len(H) + e
      BY <1>5
    <3>2. HE[j] = IF j <= Len(H) THEN H[j] ELSE E[j - Len(H)]
      BY <1>1, <3>1
    <3> QED
      BY <2>1, <3>2
  <2>4. R[i] = IF i <= 1 THEN ack[i] ELSE EN[i - 1]
    BY <1>2, <1>4, <1>5
  <2>5. ~(i <= 1) => EN[i - 1] = IF i - 1 <= e THEN E[i - 1] ELSE N[i - 1 - e]
    <3> SUFFICES ASSUME ~(i <= 1) PROVE EN[i - 1] = IF i - 1 <= e THEN E[i - 1] ELSE N[i - 1 - e]
      OBVIOUS
    <3>1. i - 1 \in 1 .. e + n
      BY <1>5
    <3> QED
      BY <1>2, <3>1
  <2>6. /\ j <= 3 <=> i <= 1
        /\ j <= 3 + e <=> i - 1 <= e
        /\ i <= 1 => i = 1 /\ j = 3
        /\ j - (3 + e) = i - 1 - e
    BY <1>5, <2>1
  <2>7. CASE i <= 1
    <3>1. L[j] = H[3] /\ R[i] = ack[1]
      BY <1>5, <2>2, <2>3, <2>4, <2>6, <2>7
    <3> QED
      BY <2>1, <3>1
  <2>8. CASE ~(i <= 1)
    <3>1. R[i] = IF i - 1 <= e THEN E[i - 1] ELSE N[i - 1 - e]
      BY <2>4, <2>5, <2>8
    <3>2. L[j] = IF i - 1 <= e THEN E[i - 1] ELSE N[i - 1 - e]
      BY <2>2, <2>3, <2>6, <2>8
    <3> QED
      BY <2>1, <3>1, <3>2
  <2> QED
    BY <2>7, <2>8
<1>7. ASSUME NEW i \in 1 .. 2 PROVE L[i] = H[i]
  <2>1. i \in 1 .. Len(HE) + n /\ i <= Len(HE) /\ i \in 1 .. Len(H) + e /\ i <= Len(H)
    BY <1>1, <1>2, <1>5
  <2> QED
    BY <1>1, <1>3, <2>1
<1>8. Len(L) \in Nat /\ Len(L) = 2 + Len(R)
  BY <1>5
<1>9. L[1] = H[1] /\ L[2] = H[2]
  BY <1>7
<1>10. \A i \in 1 .. Len(R) : L[2 + i] = R[i]
  BY <1>5, <1>6
<1> QED
  BY <1>8, <1>9, <1>10 DEF TwoBefore, L, R, HE, EN

\* A segment that comes before both numbers are known is sent as it is.
LEMMA RewriteUnshifted ==
  ASSUME NEW x, NEW f, x.d = None, x.k.c = None \/ x.k.s = None
  PROVE  Rewrite(x, f) = [k |-> Advance(x.k, f), d |-> None, r |-> Advance(x.r, f),
                          ok |-> x.ok /\ InOrder(x.r, f)]
BY DEF Rewrite, Delta, Shifted

\* The setup: the two hosts learn each other's numbers, and the rest follows.
LEMMA OpenRides ==
  ASSUME NEW b \in ISNs, NEW left \in Int, left = Chunk, NEW n \in Nat
  PROVE  Seamless(Ride(NoNumbers, NoNumbers,
                       Handshake(b) \o Exchange(b, 1) \o NextPolls(b, left, n)))
<1> DEFINE p == b[1]
           q == b[2]
           H == Handshake(b)
           E == Exchange(b, 1)
           N == NextPolls(b, left, n)
           ack == <<Segment(TRUE, p + 1, q + 1, 0)>>
           rest == ack \o (E \o N)
           frames == (H \o E) \o N
           A == Rides(NoNumbers, NoNumbers, frames)
<1>1. p \in Int /\ q \in Int /\ p + 1 \in Int /\ q + 1 \in Int
  BY NumbersAssumption
<1>2. \E c2, s2 : Leads(rest, p + 1, q + 1, c2, s2)
  <2>1. Leads(ack, p + 1, q + 1, p + 1, q + 1)
    BY <1>1, AckLeads
  <2>2. CAt(b, 1) = p + 1 /\ SAt(b, 1) = q + 1
    BY <1>1, NumbersAssumption DEF CAt, SAt
  <2>3. Leads(E, CAt(b, 1), SAt(b, 1), CAt(b, 1 + 1), SAt(b, 1 + 1))
    BY ExchangeLeads
  <2>4. Leads(N, CAt(b, 2 + Chunk - left), SAt(b, 2 + Chunk - left),
              CAt(b, 2 + Chunk - left + n), SAt(b, 2 + Chunk - left + n))
    BY PollsLead
  <2>5. 2 + Chunk - left = 1 + 1
    BY NumbersAssumption
  <2> HIDE DEF E, N, ack, p, q
  <2>6. Leads(E \o N, p + 1, q + 1, CAt(b, 2 + Chunk - left + n), SAt(b, 2 + Chunk - left + n))
    BY <2>2, <2>3, <2>4, <2>5, ConcatLeads
  <2> QED
    BY <2>1, <2>6, ConcatLeads
<1>3. PICK c, s : Linked(rest, c, s)
  BY <1>2 DEF Leads
<1>4. /\ Len(H) = 3 /\ H[1] = Segment(TRUE, p, 0, 1) /\ H[2] = Segment(FALSE, q, p + 1, 1)
      /\ H[3] = Segment(TRUE, p + 1, q + 1, 0)
  BY DEF Handshake
<1>5. H \in Seq(Segments) /\ E \in Seq(Segments) /\ N \in Seq(Segments) /\ ack \in Seq(Segments)
  <2> HIDE DEF p, q
  <2>1. Segment(TRUE, p, 0, 1) \in Segments
    <3>1. p % W \in 0 .. W - 1
      BY <1>1, Remainder
    <3>2. 0 % W \in 0 .. W - 1
      BY NumbersAssumption
    <3> QED
      BY <3>1, <3>2 DEF Segment, Segments
  <2>2. Segment(FALSE, q, p + 1, 1) \in Segments
    BY <1>1, ControlSegment
  <2>3. Segment(TRUE, p + 1, q + 1, 0) \in Segments
    BY <1>1, ControlSegment
  <2>4. /\ \A x, y, z \in Segments : <<x, y, z>> \in Seq(Segments)
        /\ \A x \in Segments : <<x>> \in Seq(Segments)
    OBVIOUS
  <2>5. E \in Seq(Segments)
    BY ExchangeLeads DEF Leads
  <2>6. N \in Seq(Segments)
    BY PollsLead DEF Leads
  <2> QED
    BY <2>1, <2>2, <2>3, <2>4, <2>5, <2>6 DEF Handshake, H, p, q
<1>6. Len(ack) = 1 /\ ack[1] = H[3]
  BY <1>4
<1>7. /\ Len(frames) = 2 + Len(rest) /\ Len(frames) \in Nat
      /\ \A i \in 1 .. Len(rest) : frames[2 + i] = rest[i]
      /\ frames[1] = H[1] /\ frames[2] = H[2]
  <2>1. Len(H) = 3
    BY <1>4
  <2> HIDE DEF H, E, N, ack
  <2>2. TwoBefore(frames, H, rest)
    BY <2>1, <1>5, <1>6, AfterTwo
  <2> QED
    BY <2>2 DEF TwoBefore
<1>8. A[0] = Started(NoNumbers, NoNumbers) /\ A[1] = Rewrite(A[0], H[1]) /\ A[2] = Rewrite(A[1], H[2])
  <2>1. 1 \in 1 .. Len(frames) /\ 2 \in 1 .. Len(frames)
    BY <1>3, <1>7 DEF Linked
  <2>2. /\ A[0] = Started(NoNumbers, NoNumbers)
        /\ \A i \in 1 .. Len(frames) : A[i] = Rewrite(A[i - 1], frames[i])
    <3> HIDE DEF frames
    <3> QED
      BY <1>7, RidesStep
  <2> HIDE DEF A, frames, H
  <2> QED
    BY <1>7, <2>1, <2>2
<1> HIDE DEF H, E, N, ack, rest, frames, A
<1>9. A[1] = [k |-> [c |-> (p + 1) % W, s |-> None], d |-> None,
              r |-> [c |-> (p + 1) % W, s |-> None], ok |-> TRUE]
  <2>1. ((p % W) + 1) % W = (p + 1) % W
    BY <1>1, NextNumber
  <2>2. H[1] = [client |-> TRUE, seq |-> p % W, ack |-> 0 % W, adv |-> 1]
    BY <1>4 DEF Segment
  <2>3. Advance(NoNumbers, H[1]) = [c |-> (p + 1) % W, s |-> None]
    BY <2>1, <2>2 DEF Advance, NoNumbers
  <2>4. InOrder(NoNumbers, H[1])
    BY <2>2 DEF InOrder, NoNumbers
  <2>5. A[0].k = NoNumbers /\ A[0].r = NoNumbers /\ A[0].d = None /\ A[0].ok = TRUE
    BY <1>8 DEF Started
  <2>6. A[0].k.c = None
    BY <2>5 DEF NoNumbers
  <2>7. Rewrite(A[0], H[1]) = [k |-> Advance(A[0].k, H[1]), d |-> None, r |-> Advance(A[0].r, H[1]),
                               ok |-> A[0].ok /\ InOrder(A[0].r, H[1])]
    BY <2>5, <2>6, RewriteUnshifted
  <2> HIDE DEF p, q
  <2> QED
    BY <1>8, <2>3, <2>4, <2>5, <2>7
<1>10. A[2] = [k |-> At(p + 1, q + 1), d |-> None, r |-> At(p + 1, q + 1), ok |-> TRUE]
  <2>1. ((q % W) + 1) % W = (q + 1) % W
    BY <1>1, NextNumber
  <2> DEFINE k1 == [c |-> (p + 1) % W, s |-> None]
  <2>2. H[2] = [client |-> FALSE, seq |-> q % W, ack |-> (p + 1) % W, adv |-> 1]
    BY <1>4 DEF Segment
  <2>3. Advance(k1, H[2]) = At(p + 1, q + 1)
    BY <2>1, <2>2 DEF Advance, At
  <2>4. InOrder(k1, H[2])
    BY <2>2 DEF InOrder
  <2>5. A[1].k = k1 /\ A[1].r = k1 /\ A[1].d = None /\ A[1].ok = TRUE
    BY <1>9
  <2>6. A[1].k.s = None
    BY <2>5
  <2> HIDE DEF k1
  <2>7. Rewrite(A[1], H[2]) = [k |-> Advance(A[1].k, H[2]), d |-> None, r |-> Advance(A[1].r, H[2]),
                               ok |-> A[1].ok /\ InOrder(A[1].r, H[2])]
    BY <2>5, <2>6, RewriteUnshifted
  <2> HIDE DEF p, q
  <2> QED
    BY <1>8, <2>3, <2>4, <2>5, <2>7
<1>11. Seamless(Ride(NoNumbers, NoNumbers, frames))
  <2>1. PICK m \in Nat : m = 2
    OBVIOUS
  <2> DEFINE cc == p + 1
             ss == q + 1
  <2>2. cc \in Int /\ ss \in Int
    BY <1>1
  <2>3. Rides(NoNumbers, NoNumbers, frames)[m] =
          [k |-> At(cc, ss), d |-> None, r |-> At(cc, ss), ok |-> TRUE]
    BY <1>10, <2>1 DEF A
  <2>4. /\ Len(frames) \in Nat /\ Len(frames) = m + Len(rest)
        /\ \A i \in 1 .. Len(rest) : frames[m + i] = rest[i]
    BY <1>7, <2>1
  <2> HIDE DEF cc, ss
  <2> QED
    BY <1>3, <2>1, <2>2, <2>3, <2>4, LinkedRides, ZenonT(30)
<1> QED
  BY <1>11 DEF frames, H, E, N

-----------------------------------------------------------------------------
(* No gap, over every action.                                              *)

\* Both hosts have seen what the connection goes on with. base is there for
\* the teardown, which is of the build of the last chunk.
Agreed ==
  /\ gapless /\ rcv = nxt
  /\ nxt \in [Streams -> Numbers \cup {NoNumbers}]
  /\ \A s \in Streams :
       IF sport[s] = None THEN nxt[s] = NoNumbers
                          ELSE nxt[s] \in Numbers /\ base[s] \in ISNs

\* An open connection has numbers.
LEMMA OpenNumbers ==
  ASSUME Agreed, NEW s \in Streams, sport[s] # None
  PROVE  nxt[s] \in Numbers /\ rcv[s] = nxt[s] /\ base[s] \in ISNs
BY DEF Agreed

\* A seamless occurrence of s leaves its hosts agreed.
LEMMA RiddenAgreed ==
  ASSUME Agreed, NEW s \in Streams, NEW ride, Seamless(ride),
         nxt' = [nxt EXCEPT ![s] = ride.k], Ridden(s, ride),
         sport'[s] # None, base'[s] \in ISNs,
         \A o \in Streams \ {s} : sport'[o] = sport[o] /\ base'[o] = base[o]
  PROVE  Agreed'
<1>1. ride.r = ride.k /\ ride.k \in Numbers /\ ride.ok
  BY DEF Seamless
<1>2. gapless' /\ rcv' = nxt' /\ nxt' \in [Streams -> Numbers \cup {NoNumbers}]
  BY <1>1 DEF Agreed, Ridden
<1>3. ASSUME NEW o \in Streams
      PROVE  IF sport'[o] = None THEN nxt'[o] = NoNumbers
                                 ELSE nxt'[o] \in Numbers /\ base'[o] \in ISNs
  BY <1>1 DEF Agreed
<1> QED
  BY <1>2, <1>3 DEF Agreed

\* A connection that opens: the hosts learn each other's numbers.
LEMMA OpenAgreed ==
  ASSUME TypeOK, TableExact, Agreed, NEW s \in Streams, Open(s) PROVE Agreed'
<1> DEFINE n == IF Count < Chunk THEN Count ELSE Chunk
           ride(b) == Ride(nxt[s], rcv[s],
                           Handshake(b) \o Exchange(b, 1) \o NextPolls(b, Chunk, n))
<1>1. nxt[s] = NoNumbers /\ rcv[s] = NoNumbers
  BY DEF Open, Agreed
<1>2. PICK b \in ISNs, p \in PortsFor(s) :
        /\ sport' = [sport EXCEPT ![s] = p] /\ base' = [base EXCEPT ![s] = b]
        /\ nxt' = [nxt EXCEPT ![s] = ride(b).k] /\ Ridden(s, ride(b))
  BY <1>1 DEF Open
<1>3. Seamless(ride(b))
  <2>1. n \in Nat /\ Chunk \in Int
    BY NumbersAssumption
  <2> HIDE DEF n
  <2> QED
    BY <1>1, <2>1, OpenRides
<1>4. p \in Ports
  BY DEF PortsFor, HeldByOthers
<1>5. /\ sport'[s] # None /\ base'[s] \in ISNs
      /\ \A o \in Streams \ {s} : sport'[o] = sport[o] /\ base'[o] = base[o]
  BY <1>2, <1>4, NoneAssumption DEF TypeOK
<1> HIDE DEF ride
<1> QED
  BY <1>2, <1>3, <1>5, RiddenAgreed

\* Polls and refreshes go on from what the hosts have seen, whichever build
\* they are of.
LEMMA GoOnAgreed ==
  ASSUME TypeOK, Agreed, NEW s \in Streams, Poll(s) \/ Refresh(s) PROVE Agreed'
<1>1. sport[s] # None
  BY DEF Poll, Refresh
<1>2. nxt[s] \in Numbers /\ rcv[s] = nxt[s] /\ base[s] \in ISNs
  BY <1>1, OpenNumbers
<1>3. CASE Poll(s)
  <2> DEFINE left == IF polls[s] = 0 THEN Chunk ELSE polls[s]
             n == IF Count < left THEN Count ELSE left
             ride(b) == Ride(nxt[s], rcv[s], NextPolls(b, left, n))
  <2>1. PICK b \in IF polls[s] = 0 THEN ISNs ELSE {base[s]} :
          /\ base' = [base EXCEPT ![s] = b]
          /\ nxt' = [nxt EXCEPT ![s] = ride(b).k] /\ Ridden(s, ride(b))
    BY <1>3 DEF Poll, Goes
  <2>2. b \in ISNs /\ left \in Int /\ n \in Nat
    BY <1>2, <2>1, NumbersAssumption DEF TypeOK
  <2>3. UNCHANGED sport
    BY <1>3 DEF Poll
  <2>4. /\ sport'[s] # None /\ base'[s] \in ISNs
        /\ \A o \in Streams \ {s} : sport'[o] = sport[o] /\ base'[o] = base[o]
    BY <1>1, <2>1, <2>2, <2>3 DEF TypeOK
  <2> HIDE DEF left, n
  <2>5. Seamless(ride(b))
    BY <1>2, <2>2, PollsLead, OccurrenceRides
  <2> HIDE DEF ride
  <2> QED
    BY <2>1, <2>4, <2>5, RiddenAgreed
<1>4. CASE Refresh(s)
  <2> DEFINE ride(b) == Ride(nxt[s], rcv[s], Exchange(b, 1))
  <2>1. PICK b \in ISNs :
          nxt' = [nxt EXCEPT ![s] = ride(b).k] /\ Ridden(s, ride(b))
    BY <1>4 DEF Refresh, Goes
  <2>2. UNCHANGED <<sport, base>>
    BY <1>4 DEF Refresh, chunk
  <2>3. Seamless(ride(b))
    BY <1>2, ExchangeLeads, OccurrenceRides
  <2> HIDE DEF ride
  <2> QED
    BY <1>1, <1>2, <2>1, <2>2, <2>3, RiddenAgreed
<1> QED
  BY <1>3, <1>4

\* A stream that ends has no numbers, and its teardown was in order.
LEMMA EndAgreed ==
  ASSUME TypeOK, Agreed, NEW s \in Streams, Close(s) \/ Unload(s) PROVE Agreed'
<1>1. Disconnects(s)
  BY DEF Close, Unload
<1>2. /\ rcv' = nxt' /\ nxt' \in [Streams -> Numbers \cup {NoNumbers}]
      /\ sport'[s] = None /\ nxt'[s] = NoNumbers
      /\ \A o \in Streams \ {s} : sport'[o] = sport[o] /\ nxt'[o] = nxt[o]
  BY <1>1 DEF Disconnects, TypeOK, Agreed
<1>3. gapless'
  <2>1. CASE Close(s)
    <3>1. nxt[s] \in Numbers /\ rcv[s] = nxt[s] /\ base[s] \in ISNs
      BY <2>1, OpenNumbers DEF Close
    <3>2. gapless' = (gapless /\ Ride(nxt[s], rcv[s], Teardown(base[s])).ok)
      BY <2>1 DEF Close
    <3>3. Seamless(Ride(nxt[s], rcv[s], Teardown(base[s])))
      BY <3>1, TeardownLeads, OccurrenceRides
    <3> QED
      BY <3>2, <3>3 DEF Seamless, Agreed
  <2>2. CASE Unload(s)
    BY <2>2 DEF Unload, Agreed
  <2> QED
    BY <2>1, <2>2
<1>4. \A o \in Streams \ {s} : base'[o] = base[o]
  BY DEF Close, Unload, chunk, TypeOK
<1> QED
  BY <1>2, <1>3, <1>4 DEF Agreed

\* The hosts agree in every state.
LEMMA AgreedStep == IInv /\ Agreed /\ [Next]_vars => Agreed'
<1> SUFFICES ASSUME IInv, Agreed, [Next]_vars PROVE Agreed'
  OBVIOUS
<1>1. TypeOK /\ TableExact
  BY DEF IInv
<1>2. CASE UNCHANGED vars
  BY <1>2 DEF vars, chunk, Agreed
<1>3. ASSUME NEW s \in Streams, OneShot(s) \/ Load(s) PROVE Agreed'
  BY <1>3 DEF OneShot, Load, chunk, Agreed
<1>4. CASE Next
  BY <1>1, <1>3, <1>4, OpenAgreed, GoOnAgreed, EndAgreed DEF Next
<1> QED
  BY <1>2, <1>4

\* The byte streams of every connection are contiguous, for any numbers the
\* builds come up with, any lengths, chunks and lifetimes, and over any wrap:
\* the shift found at the first segment of an occurrence carries its host and
\* the peer from where the build is to where the connection is
\* (Connection.delta, schedule.py:181).
THEOREM StreamsAreGapless == Spec => []Gapless
<1>1. Init => Agreed
  BY DEF Init, Agreed
<1>2. Agreed => Gapless
  BY DEF Agreed, Gapless
<1> QED
  BY <1>1, <1>2, InitIInv, NextIInv, AgreedStep, PTL DEF Spec
=============================================================================
