--------------------------- MODULE Scheduler_proofs ---------------------------
(***************************************************************************)
(* Proofs about Scheduler: for any streams, intervals, builds and phases,  *)
(* frames come in time order and within their phase, and a running stream  *)
(* has exactly the one clock.                                              *)
(***************************************************************************)
EXTENDS Scheduler, TLAPS

\* Nothing on the heaps that will still count lies behind the latest frame or
\* before the phase.
Ahead ==
  /\ pc = "load" => out <= start
  /\ out < End
  /\ \A f \in fheap : out <= f.t /\ start <= f.t
  /\ \A e \in sheap : Live(e) => out <= e.t /\ start <= e.t

\* Restarts are numbered upwards.
KnownStarts == \A e \in sheap : e.gen <= gen[e.sid]

IInv == TypeOK /\ Ahead /\ KnownStarts /\ OneClock

\* The frames of one push have the types of frames and do not lie before it.
LEMMA PushedFrames ==
  ASSUME TypeOK, NEW delays \in Builds, NEW t \in Nat,
         NEW s \in Sids \cup {"none"}, NEW g \in Nat
  PROVE  /\ Pushed(delays, t, s, g) \subseteq Frames
         /\ \A f \in Pushed(delays, t, s, g) : f.t >= t /\ f.sid = s /\ f.gen = g
         /\ Len(delays) \in Nat
<1>1. delays \in Seq(Nat)
  BY BuildsAssumption
<1>2. Len(delays) \in Nat /\ \A k \in 1..Len(delays) : delays[k] \in Nat
  BY <1>1
<1>3. ASSUME NEW f \in Pushed(delays, t, s, g)
      PROVE  f \in Frames /\ f.t >= t /\ f.sid = s /\ f.gen = g
  <2>1. PICK k \in 1..Len(delays) :
          f = [t |-> t + delays[k], n |-> count + k, sid |-> s, gen |-> g]
    BY <1>3 DEF Pushed
  <2>2. t + delays[k] \in Nat /\ t + delays[k] >= t /\ count + k \in Nat
    BY <1>2 DEF TypeOK
  <2> QED BY <2>1, <2>2 DEF Frames
<1> QED BY <1>2, <1>3

\* The first state satisfies the invariant.
LEMMA InitIInv == Init => IInv
BY TimesAssumption, PhasesAssumption
   DEF Init, IInv, TypeOK, Ahead, KnownStarts, OneClock, End

\* load() and inject() keep the invariant: what starts, starts in the phase,
\* under a number no entry has yet.
LEMMA LoadStep ==
  ASSUME IInv, NEW kept \in SUBSET Sids, NEW started \in SUBSET Sids,
         NEW oneOff \in Builds, Load(kept, started, oneOff)
  PROVE  IInv'
<1> USE DEF IInv
<1>1. PICK first \in [Sids -> Delays] :
        /\ nextT' = [s \in Sids |->
                       IF s \in started THEN start + first[s] ELSE nextT[s]]
        /\ sheap' = sheap \cup {Entry(nextT'[s], s, gen'[s]) : s \in started}
  BY DEF Load
<1>2. /\ pc = "load" /\ pc' = "run" /\ kept \subseteq streams
      /\ kept \cap started = {} /\ streams' = kept \cup started
      /\ gen' = [s \in Sids |-> IF s \in started THEN gen[s] + 1 ELSE gen[s]]
      /\ fheap' = fheap \cup Pushed(oneOff, start, "none", 0)
      /\ count' = count + Len(oneOff)
      /\ phase' = phase /\ start' = start /\ out' = out
  BY DEF Load, Push
<1>3. \A s \in started : start + first[s] \in Nat /\ start + first[s] >= start
  <2>1. \A s \in started : first[s] \in Nat
    BY TimesAssumption
  <2>2. start \in Nat
    BY DEF TypeOK
  <2> QED BY <2>1, <2>2
<1>4. /\ nextT' \in [Sids -> Nat] /\ gen' \in [Sids -> Nat]
      /\ \A s \in started : nextT'[s] >= start /\ gen'[s] = gen[s] + 1
      /\ \A s \in Sids \ started : nextT'[s] = nextT[s] /\ gen'[s] = gen[s]
  BY <1>1, <1>2, <1>3 DEF TypeOK
<1>5. Pushed(oneOff, start, "none", 0) \subseteq Frames
      /\ (\A f \in Pushed(oneOff, start, "none", 0) : f.t >= start)
      /\ Len(oneOff) \in Nat
  BY PushedFrames DEF TypeOK
<1>6. \A e \in sheap' : \/ e \in sheap
                        \/ \E s \in started : e = Entry(nextT'[s], s, gen'[s])
  BY <1>1
<1>7. TypeOK'
  <2>1. sheap' \subseteq Entries
    BY <1>4, <1>6 DEF TypeOK, Entries, Entry
  <2> QED BY <2>1, <1>2, <1>4, <1>5 DEF TypeOK
<1>8. KnownStarts'
  <2> SUFFICES ASSUME NEW e \in sheap' PROVE e.gen <= gen'[e.sid]
    BY DEF KnownStarts
  <2>1. CASE e \in sheap
    <3>1. e.gen \in Nat /\ e.sid \in Sids /\ gen[e.sid] \in Nat
          /\ e.gen <= gen[e.sid]
      BY <2>1 DEF TypeOK, Entries, KnownStarts
    <3> QED BY <3>1, <1>4
  <2>2. CASE \E s \in started : e = Entry(nextT'[s], s, gen'[s])
    BY <2>2, <1>4 DEF Entry
  <2> QED BY <2>1, <2>2, <1>6
\* An old entry is never one of a start of this phase.
<1>9. \A e \in sheap : e.sid \in started => e.gen # gen'[e.sid]
  <2> SUFFICES ASSUME NEW e \in sheap, e.sid \in started
               PROVE  e.gen # gen'[e.sid]
    OBVIOUS
  <2>1. e.gen \in Nat /\ gen[e.sid] \in Nat /\ e.gen <= gen[e.sid]
    BY DEF TypeOK, Entries, KnownStarts
  <2> QED BY <2>1, <1>4
<1>10. Ahead'
  <2>1. out' < End' /\ out' <= start'
    BY <1>2 DEF Ahead, End
  <2>2. \A f \in fheap' : out' <= f.t /\ start' <= f.t
    <3> SUFFICES ASSUME NEW f \in fheap' PROVE out' <= f.t /\ start' <= f.t
      OBVIOUS
    <3>1. CASE f \in fheap
      BY <3>1, <1>2 DEF Ahead
    <3>2. CASE f \in Pushed(oneOff, start, "none", 0)
      BY <3>2, <1>2, <1>5, <2>1 DEF TypeOK, Frames
    <3> QED BY <3>1, <3>2, <1>2
  <2>3. ASSUME NEW e \in sheap', Live(e)' PROVE out' <= e.t /\ start' <= e.t
    <3>1. CASE e \in sheap
      <4>1. e.sid \notin started
        BY <3>1, <2>3, <1>9 DEF Live
      <4>2. Live(e)
        BY <4>1, <2>3, <3>1, <1>2, <1>4 DEF Live, TypeOK, Entries
      <4> QED BY <3>1, <4>2, <1>2 DEF Ahead
    <3>2. CASE \E s \in started : e = Entry(nextT'[s], s, gen'[s])
      <4>1. PICK s \in started : e = Entry(nextT'[s], s, gen'[s])
        BY <3>2
      <4>2. e.t = nextT'[s] /\ nextT'[s] \in Nat /\ nextT'[s] >= start
        BY <4>1, <1>4 DEF Entry
      <4> QED BY <4>2, <2>1, <1>2 DEF TypeOK
    <3> QED BY <3>1, <3>2, <1>6
  <2> QED BY <2>1, <2>2, <2>3 DEF Ahead
<1>11. OneClock'
  <2> SUFFICES ASSUME NEW s \in streams'
               PROVE  /\ Entry(nextT'[s], s, gen'[s]) \in sheap'
                      /\ \A e \in sheap' :
                           e.sid = s /\ e.gen = gen'[s] => e.t = nextT'[s]
    BY DEF OneClock, Entry
  <2>1. CASE s \in started
    <3>1. Entry(nextT'[s], s, gen'[s]) \in sheap'
      BY <2>1, <1>1
    <3>2. ASSUME NEW e \in sheap', e.sid = s, e.gen = gen'[s]
          PROVE  e.t = nextT'[s]
      BY <3>2, <2>1, <1>6, <1>9 DEF Entry
    <3> QED BY <3>1, <3>2
  <2>2. CASE s \notin started
    <3>1. s \in streams /\ s \in Sids /\ nextT'[s] = nextT[s] /\ gen'[s] = gen[s]
      BY <2>2, <1>2, <1>4
    <3>2. \A e \in sheap' : e.sid = s => e \in sheap
      BY <2>2, <1>6 DEF Entry
    <3> QED BY <3>1, <3>2, <1>1 DEF OneClock
  <2> QED BY <2>1, <2>2
<1> QED BY <1>7, <1>8, <1>10, <1>11

\* An occurrence keeps the invariant: its frames and the stream's next
\* occurrence lie at or after it, and so after everything that was yielded.
LEMMA OccurStep ==
  ASSUME IInv, NEW e \in sheap, NEW delays \in Builds, NEW interval \in Intervals,
         Occur(e, delays, interval)
  PROVE  IInv'
<1> DEFINE next == Entry(e.t + interval, e.sid, e.gen)
           new == Pushed(delays, e.t, e.sid, e.gen)
<1> USE DEF IInv
<1>1. /\ pc = "run" /\ e.t < End /\ Live(e)
      /\ fheap' = fheap \cup new /\ count' = count + Len(delays)
      /\ nextT' = [nextT EXCEPT ![e.sid] = e.t + interval]
      /\ sheap' = (sheap \ {e}) \cup {next}
      /\ pc' = pc /\ phase' = phase /\ start' = start /\ streams' = streams
      /\ gen' = gen /\ out' = out
  BY DEF Occur, Schedule, Due, Push, clock
<1>2. e.t \in Nat /\ e.sid \in Sids /\ e.gen \in Nat /\ interval \in Nat
      /\ interval > 0 /\ e.sid \in streams /\ e.gen = gen[e.sid]
      /\ e = Entry(e.t, e.sid, e.gen)
  BY <1>1, TimesAssumption DEF TypeOK, Entries, Live, Entry
<1>3. out <= e.t /\ start <= e.t
  BY <1>1 DEF Ahead
<1>4. /\ new \subseteq Frames /\ Len(delays) \in Nat
      /\ \A f \in new : f.t >= e.t
  BY <1>2, PushedFrames DEF TypeOK
<1>5. next \in Entries /\ next.t = e.t + interval /\ next.sid = e.sid
      /\ next.gen = e.gen
  BY <1>2 DEF Entry, Entries
<1>6. nextT' \in [Sids -> Nat] /\ nextT'[e.sid] = e.t + interval
      /\ \A s \in Sids : s # e.sid => nextT'[s] = nextT[s]
  BY <1>1, <1>2 DEF TypeOK
<1>7. TypeOK'
  BY <1>1, <1>4, <1>5, <1>6 DEF TypeOK
<1>8. KnownStarts'
  BY <1>1, <1>2, <1>5 DEF KnownStarts, TypeOK
\* Of the stream's start, e was the only entry.
<1>9. \A d \in sheap : d.sid = e.sid /\ d.gen = e.gen => d = e
  <2> SUFFICES ASSUME NEW d \in sheap, d.sid = e.sid, d.gen = e.gen PROVE d = e
    OBVIOUS
  <2>1. d.t = nextT[e.sid] /\ e.t = nextT[e.sid]
    BY <1>1, <1>2 DEF OneClock, Live
  <2> QED BY <2>1 DEF TypeOK, Entries
<1>10. Ahead'
  <2>1. (pc' = "load" => out' <= start') /\ out' < End'
    BY <1>1 DEF Ahead, End
  <2>2. \A f \in fheap' : out' <= f.t /\ start' <= f.t
    <3> SUFFICES ASSUME NEW f \in fheap' PROVE out' <= f.t /\ start' <= f.t
      OBVIOUS
    <3>1. CASE f \in fheap
      BY <3>1, <1>1 DEF Ahead
    <3>2. CASE f \in new
      BY <3>2, <1>1, <1>2, <1>3, <1>4 DEF TypeOK, Frames
    <3> QED BY <3>1, <3>2, <1>1
  <2>3. ASSUME NEW d \in sheap', Live(d)' PROVE out' <= d.t /\ start' <= d.t
    <3>1. CASE d = next
      BY <3>1, <1>1, <1>2, <1>3, <1>5 DEF TypeOK
    <3>2. CASE d \in sheap /\ d # e
      <4>1. d.sid # e.sid
        BY <3>2, <2>3, <1>1, <1>2, <1>9 DEF Live
      <4>2. Live(d)
        BY <4>1, <2>3, <3>2, <1>1, <1>6 DEF Live, TypeOK, Entries
      <4> QED BY <3>2, <4>2, <1>1 DEF Ahead
    <3> QED BY <3>1, <3>2, <1>1
  <2> QED BY <2>1, <2>2, <2>3 DEF Ahead
<1>11. OneClock'
  <2> SUFFICES ASSUME NEW s \in streams'
               PROVE  /\ Entry(nextT'[s], s, gen'[s]) \in sheap'
                      /\ \A d \in sheap' :
                           d.sid = s /\ d.gen = gen'[s] => d.t = nextT'[s]
    BY DEF OneClock, Entry
  <2>1. CASE s = e.sid
    <3>1. Entry(nextT'[s], s, gen'[s]) = next
      BY <2>1, <1>1, <1>2, <1>6 DEF Entry
    <3>2. ASSUME NEW d \in sheap', d.sid = s, d.gen = gen'[s]
          PROVE  d.t = nextT'[s]
      <4>1. d = next
        BY <3>2, <2>1, <1>1, <1>2, <1>9
      <4> QED BY <4>1, <2>1, <1>5, <1>6
    <3> QED BY <3>1, <3>2, <1>1
  <2>2. CASE s # e.sid
    <3>1. s \in Sids /\ nextT'[s] = nextT[s] /\ gen'[s] = gen[s] /\ s \in streams
      BY <2>2, <1>1, <1>6 DEF TypeOK
    <3>2. Entry(nextT[s], s, gen[s]) \in sheap /\ Entry(nextT[s], s, gen[s]) # e
      BY <3>1, <2>2 DEF OneClock, Entry
    <3>3. \A d \in sheap' : d.sid = s => d \in sheap
      BY <2>2, <1>1, <1>5
    <3> QED BY <3>1, <3>2, <3>3, <1>1 DEF OneClock
  <2> QED BY <2>1, <2>2
<1> QED BY <1>7, <1>8, <1>10, <1>11

\* Dropping the entry of a stopped stream keeps the invariant.
LEMMA SkipStep ==
  ASSUME IInv, NEW e \in sheap, Skip(e)
  PROVE  IInv'
<1> USE DEF IInv
<1>1. /\ pc = "run" /\ ~Live(e) /\ sheap' = sheap \ {e}
      /\ pc' = pc /\ phase' = phase /\ start' = start /\ streams' = streams
      /\ gen' = gen /\ nextT' = nextT /\ fheap' = fheap /\ count' = count
      /\ out' = out
  BY DEF Skip, clock
<1>2. TypeOK' /\ KnownStarts'
  BY <1>1 DEF TypeOK, KnownStarts
<1>3. Ahead'
  BY <1>1 DEF Ahead, End, Live
<1>4. OneClock'
  <2>1. \A s \in streams : Entry(nextT[s], s, gen[s]) # e
    BY <1>1 DEF Live, Entry
  <2> QED BY <1>1, <2>1 DEF OneClock, Entry
<1> QED BY <1>2, <1>3, <1>4

\* Yielding a frame keeps the invariant: it is the least of the frames, and
\* every stream is due later.
LEMMA YieldStep ==
  ASSUME IInv, NEW f \in fheap, Yield(f)
  PROVE  IInv'
<1> USE DEF IInv
<1>1. /\ pc = "run" /\ NoneDue(f) /\ f.t < End /\ \A g \in fheap : Before(f, g)
      /\ fheap' = fheap \ {f} /\ out' = f.t
      /\ pc' = pc /\ phase' = phase /\ start' = start /\ streams' = streams
      /\ gen' = gen /\ nextT' = nextT /\ sheap' = sheap /\ count' = count
  BY DEF Yield, clock
<1>2. f \in Frames /\ f.t \in Nat
  BY DEF TypeOK, Frames
<1>3. TypeOK' /\ KnownStarts' /\ OneClock'
  BY <1>1, <1>2 DEF TypeOK, KnownStarts, OneClock, Entry
<1>4. Ahead'
  <2>1. (pc' = "load" => out' <= start') /\ out' < End'
    BY <1>1 DEF End
  <2>2. \A g \in fheap' : out' <= g.t /\ start' <= g.t
    BY <1>1, <1>2 DEF Ahead, Before, TypeOK, Frames
  <2>3. ASSUME NEW e \in sheap', Live(e)' PROVE out' <= e.t /\ start' <= e.t
    <3>1. Live(e) /\ e.t \in Nat /\ e \in sheap
      BY <2>3, <1>1 DEF Live, TypeOK, Entries
    <3>2. start <= e.t
      BY <3>1 DEF Ahead
    <3>3. f.t <= e.t
      BY <3>1, <1>1, <1>2, PhasesAssumption DEF NoneDue, End, TypeOK
    <3> QED BY <3>2, <3>3, <1>1
  <2> QED BY <2>1, <2>2, <2>3 DEF Ahead
<1> QED BY <1>3, <1>4

\* The end of a phase keeps the invariant: whatever is left is for the next.
LEMMA EndPhaseStep ==
  ASSUME IInv, EndPhase
  PROVE  IInv'
<1> USE DEF IInv
<1>1. /\ pc = "run" /\ Drained
      /\ streams' = streams /\ gen' = gen /\ nextT' = nextT /\ sheap' = sheap
      /\ fheap' = fheap /\ count' = count /\ out' = out
  BY DEF EndPhase, heaps
<1>2. \/ pc' = "over" /\ phase' = phase /\ start' = start
      \/ /\ pc' = "load" /\ phase # Phases /\ phase' = phase + 1 /\ start' = End
  BY DEF EndPhase, LastPhase
<1>3. End \in Nat /\ start' \in Nat /\ start' <= End /\ End <= start' + Length
      /\ start <= start' /\ End = start + Length
  BY <1>2, PhasesAssumption DEF End, TypeOK
<1>4. TypeOK' /\ KnownStarts' /\ OneClock'
  <2>1. phase' \in 1..Phases
    BY <1>2, PhasesAssumption DEF TypeOK
  <2> QED BY <2>1, <1>1, <1>2, <1>3 DEF TypeOK, KnownStarts, OneClock, Entry
<1>5. Ahead'
  <2>1. (pc' = "load" => out' <= start') /\ out' < End'
    <3>1. out' < End /\ out' \in Nat /\ Length \in Nat \ {0}
      BY <1>1, PhasesAssumption DEF Ahead, TypeOK
    <3>2. End' = start' + Length
      BY DEF End
    <3>3. CASE pc' = "over" /\ start' = start
      BY <3>1, <3>2, <3>3, <1>3
    <3>4. CASE pc' = "load" /\ start' = End
      BY <3>1, <3>2, <3>4, <1>3
    <3> QED BY <3>3, <3>4, <1>2
  <2>2. \A f \in fheap' : out' <= f.t /\ start' <= f.t
    BY <1>1, <1>3 DEF Ahead, Drained, TypeOK, Frames
  <2>3. ASSUME NEW e \in sheap', Live(e)' PROVE out' <= e.t /\ start' <= e.t
    <3>1. Live(e) /\ e \in sheap /\ e.t \in Nat
      BY <2>3, <1>1 DEF Live, TypeOK, Entries
    <3> QED BY <3>1, <1>1, <1>3 DEF Ahead, Drained
  <2> QED BY <2>1, <2>2, <2>3 DEF Ahead
<1> QED BY <1>4, <1>5

\* Every step keeps the invariant.
LEMMA NextIInv == IInv /\ [Next]_vars => IInv'
<1> SUFFICES ASSUME IInv, [Next]_vars PROVE IInv'
  OBVIOUS
<1>1. CASE \E kept, started \in SUBSET Sids, oneOff \in Builds :
             Load(kept, started, oneOff)
  BY <1>1, LoadStep
<1>2. CASE \E e \in sheap : Skip(e)
  BY <1>2, SkipStep
<1>3. CASE \E e \in sheap : \E delays \in Builds, interval \in Intervals :
             Occur(e, delays, interval)
  BY <1>3, OccurStep
<1>4. CASE \E f \in fheap : Yield(f)
  BY <1>4, YieldStep
<1>5. CASE EndPhase
  BY <1>5, EndPhaseStep
<1>6. CASE UNCHANGED vars
  BY <1>6 DEF vars, clock, heaps, IInv, TypeOK, Ahead, KnownStarts, OneClock,
              Live, Entry, End
<1> QED BY <1>1, <1>2, <1>3, <1>4, <1>5, <1>6 DEF Next, Over

\* The inductive invariant holds of every reachable state.
THEOREM Invariance == Spec => []IInv
BY InitIInv, NextIInv, PTL DEF Spec

\* The scheduler's state is of its types (Scheduler.__init__).
THEOREM TypeCorrect == Spec => []TypeOK
BY Invariance, PTL DEF IInv

\* A running stream has exactly one clock, whatever is restarted or stopped
\* (Scheduler.load, Scheduler._schedule).
THEOREM OneClockCorrect == Spec => []OneClock
BY Invariance, PTL DEF IInv

\* Frames leave run() in time order and within their phase (schedule.py:825).
THEOREM TimeOrderedCorrect == Spec => TimeOrdered
<1> DEFINE A == \A f \in fheap \ fheap' :
                  out' = f.t /\ out <= f.t /\ start <= f.t /\ f.t < End
<1>1. IInv /\ [Next]_vars => [A]_vars
  <2> SUFFICES ASSUME IInv, Next PROVE A
    OBVIOUS
  <2>1. CASE \E f \in fheap : Yield(f)
    <3>1. PICK f \in fheap : Yield(f)
      BY <2>1
    <3>2. out' = f.t /\ f.t < End /\ fheap' = fheap \ {f}
      BY <3>1 DEF Yield
    <3> QED BY <3>2 DEF IInv, Ahead
  <2>2. CASE ~(\E f \in fheap : Yield(f))
    <3>1. fheap \subseteq fheap'
      BY <2>2 DEF Next, Load, Occur, Skip, EndPhase, Over, Push, heaps, vars
    <3> QED BY <3>1
  <2> QED BY <2>1, <2>2
<1> QED BY <1>1, Invariance, PTL DEF Spec, TimeOrdered

\* A stream that was stopped or replaced starts no occurrence any more
\* (Scheduler.run: s.alive).
THEOREM StoppedIsSilentCorrect == Spec => StoppedIsSilent
<1> DEFINE A == \A f \in fheap' \ fheap :
                  f.sid # "none" => f.sid \in streams /\ f.gen = gen[f.sid]
<1>1. IInv /\ [Next]_vars => [A]_vars
  <2> SUFFICES ASSUME IInv, Next, NEW f \in fheap', f \notin fheap,
                      f.sid # "none"
               PROVE  f.sid \in streams /\ f.gen = gen[f.sid]
    OBVIOUS
  <2>1. CASE \E kept, started \in SUBSET Sids, oneOff \in Builds :
               Load(kept, started, oneOff)
    <3>1. PICK oneOff \in Builds : fheap' = fheap \cup Pushed(oneOff, start, "none", 0)
      BY <2>1 DEF Load, Push
    <3> QED BY <3>1, PushedFrames DEF IInv, TypeOK
  <2>2. CASE \E e \in sheap : \E delays \in Builds, interval \in Intervals :
               Occur(e, delays, interval)
    <3>1. PICK e \in sheap, delays \in Builds :
            Live(e) /\ fheap' = fheap \cup Pushed(delays, e.t, e.sid, e.gen)
      BY <2>2 DEF Occur, Push
    <3>2. e.t \in Nat /\ e.sid \in Sids /\ e.gen \in Nat
      BY DEF IInv, TypeOK, Entries
    <3>3. f.sid = e.sid /\ f.gen = e.gen
      BY <3>1, <3>2, PushedFrames DEF IInv
    <3> QED BY <3>1, <3>3 DEF Live
  <2>3. CASE \/ \E e \in sheap : Skip(e)
             \/ \E g \in fheap : Yield(g)
             \/ EndPhase \/ Over
    BY <2>3 DEF Skip, Yield, EndPhase, Over, heaps, vars
  <2> QED BY <2>1, <2>2, <2>3 DEF Next
<1> QED BY <1>1, Invariance, PTL DEF Spec, StoppedIsSilent
=============================================================================
