------------------------------ MODULE Scheduler ------------------------------
(***************************************************************************)
(* The timed scheduler: class Scheduler of src/tgt/schedule.py and the loop*)
(* over phases of Engine._run_timed that drives it. Every stream recurs on *)
(* its own clock; an occurrence puts frames on the frame heap, some of them*)
(* later than the stream's next occurrence or the end of the phase. Two    *)
(* heaps are merged into one stream of frames in simulated time.           *)
(*                                                                         *)
(* Time is a natural number. What a stream builds is the list of the delays*)
(* of its frames (Stream.occur: offsets); how its intervals come about     *)
(* (jitter, day profile, ratio) is left open.                              *)
(***************************************************************************)
EXTENDS Naturals, Sequences, FiniteSets

CONSTANTS
  Sids,         \* ids of streams
  Intervals,    \* what an interval between two occurrences can be
  Delays,       \* delays to a stream's first occurrence
  Builds,       \* what an occurrence can build, or a phase inject: the
                \* delays of the frames
  Length,       \* length of a phase
  Phases        \* number of phases

ASSUME TimesAssumption == Intervals \subseteq Nat \ {0} /\ Delays \subseteq Nat
ASSUME BuildsAssumption == Builds \subseteq Seq(Nat)
ASSUME PhasesAssumption == Phases \in Nat \ {0} /\ Length \in Nat \ {0}

VARIABLES
  pc,           \* "load", "run" or "over"
  phase, start, \* of the phases; the simulated time this one began at
  streams,      \* the ids that are running
  gen, nextT,   \* how often an id was started; its next occurrence (next_t)
  sheap,        \* entries [t, sid, gen]
  fheap,        \* frames [t, n, sid, gen]: n is the tie-break
  count,        \* frames pushed so far
  out           \* time of the latest frame yielded

clock == <<pc, phase, start>>
heaps == <<sheap, fheap, count>>
vars == <<clock, streams, gen, nextT, heaps, out>>

Init ==
  /\ pc = "load" /\ phase = 1 /\ start = 0
  /\ streams = {} /\ gen = [s \in Sids |-> 0] /\ nextT = [s \in Sids |-> 0]
  /\ sheap = {} /\ fheap = {} /\ count = 0
  /\ out = 0

End == start + Length

Entry(t, s, g) == [t |-> t, sid |-> s, gen |-> g]

\* _push for each of the delays, counted from t.
Pushed(delays, t, s, g) ==
  {[t |-> t + delays[k], n |-> count + k, sid |-> s, gen |-> g] :
     k \in 1..Len(delays)}

Push(delays, t, s, g) ==
  /\ fheap' = fheap \cup Pushed(delays, t, s, g)
  /\ count' = count + Len(delays)

\* load() and inject(). Streams in `kept' are declared with the id and the
\* fingerprint they have, those in `started' are new or changed, all others
\* stop. One-off frames have no stream.
Load(kept, started, oneOff) ==
  /\ pc = "load" /\ pc' = "run"
  /\ kept \subseteq streams /\ kept \cap started = {}
  /\ streams' = kept \cup started
  /\ gen' = [s \in Sids |-> IF s \in started THEN gen[s] + 1 ELSE gen[s]]
  /\ \E first \in [Sids -> Delays] :
       /\ nextT' = [s \in Sids |->
                      IF s \in started THEN start + first[s] ELSE nextT[s]]
       /\ sheap' = sheap \cup {Entry(nextT'[s], s, gen'[s]) : s \in started}
  /\ Push(oneOff, start, "none", 0)
  /\ UNCHANGED <<phase, start, out>>

\* mutant: an entry of an earlier start of the same id counts
IgnoresRestart(e) == e.sid \in streams

\* s.alive and t == s.next_t, for the stream the entry was made for.
Live(e) == /\ e.sid \in streams /\ e.gen = gen[e.sid]
           /\ e.t = nextT[e.sid]

\* The entry at the top of the stream heap is due. Among entries of the same
\* time any may be the top.
Due(e) ==
  /\ e \in sheap /\ e.t < End
  /\ \A d \in sheap : e.t <= d.t
  /\ \A f \in fheap : e.t <= f.t

\* _schedule: the stream's next occurrence takes the place of this one.
Schedule(e, interval) ==
  /\ nextT' = [nextT EXCEPT ![e.sid] = e.t + interval]
  /\ sheap' = (sheap \ {e}) \cup {Entry(e.t + interval, e.sid, e.gen)}

Occur(e, delays, interval) ==
  /\ pc = "run" /\ Due(e) /\ Live(e)
  /\ Push(delays, e.t, e.sid, e.gen)
  /\ Schedule(e, interval)
  /\ UNCHANGED <<clock, streams, gen, out>>

\* The entry of a stream that was stopped since.
Skip(e) ==
  /\ pc = "run" /\ Due(e) /\ ~Live(e)
  /\ sheap' = sheap \ {e}
  /\ UNCHANGED <<clock, streams, gen, nextT, fheap, count, out>>

\* mutant: frames already built go first
FramesFirst(f) == TRUE

\* No stream is due before f leaves.
NoneDue(f) == \A e \in sheap : e.t >= End \/ f.t < e.t

Before(f, g) == f.t < g.t \/ (f.t = g.t /\ f.n <= g.n)

Yield(f) ==
  /\ pc = "run" /\ NoneDue(f)
  /\ f \in fheap /\ f.t < End /\ \A g \in fheap : Before(f, g)
  /\ fheap' = fheap \ {f}
  /\ out' = f.t
  /\ UNCHANGED <<clock, streams, gen, nextT, sheap, count>>

\* run(t_end) returns. What is queued for later stays queued.
Drained ==
  /\ \A e \in sheap : e.t >= End
  /\ \A f \in fheap : f.t >= End

LastPhase == phase = Phases

EndPhase ==
  /\ pc = "run" /\ Drained
  /\ IF LastPhase
       THEN pc' = "over" /\ UNCHANGED <<phase, start>>
       ELSE pc' = "load" /\ phase' = phase + 1 /\ start' = End
  /\ UNCHANGED <<streams, gen, nextT, heaps, out>>

Over == pc = "over" /\ UNCHANGED vars

Next ==
  \/ \E kept, started \in SUBSET Sids, oneOff \in Builds :
        Load(kept, started, oneOff)
  \/ \E e \in sheap :
        \/ Skip(e)
        \/ \E delays \in Builds, interval \in Intervals :
              Occur(e, delays, interval)
  \/ \E f \in fheap : Yield(f)
  \/ EndPhase \/ Over

Spec == Init /\ [][Next]_vars

-----------------------------------------------------------------------------
(* Properties.                                                             *)

Entries == [t : Nat, sid : Sids, gen : Nat]
Frames == [t : Nat, n : Nat, sid : Sids \cup {"none"}, gen : Nat]

\* The types of the scheduler's state (Scheduler.__init__).
TypeOK ==
  /\ pc \in {"load", "run", "over"} /\ phase \in 1..Phases /\ start \in Nat
  /\ streams \subseteq Sids
  /\ gen \in [Sids -> Nat] /\ nextT \in [Sids -> Nat]
  /\ sheap \subseteq Entries /\ fheap \subseteq Frames
  /\ count \in Nat /\ out \in Nat

\* "Yield frames with t < t_end in time order" (schedule.py:825): over all
\* phases, whatever long exchanges, injected frames and restarts put on the
\* heaps, a frame is never earlier than the one before it, nor outside its
\* phase; the manifest's phases and the pcap's timestamps rest on this.
TimeOrdered ==
  [][\A f \in fheap \ fheap' :
       out' = f.t /\ out <= f.t /\ start <= f.t /\ f.t < End]_vars

\* A running stream has one entry on the heap that counts, at its next_t:
\* restarts and stops neither lose its clock nor start a second one.
OneClock ==
  \A s \in streams :
    /\ Entry(nextT[s], s, gen[s]) \in sheap
    /\ \A e \in sheap : e.sid = s /\ e.gen = gen[s] => e.t = nextT[s]

\* A stream that was stopped or replaced starts no occurrence any more; only
\* the frames of those it had begun still come.
StoppedIsSilent ==
  [][\A f \in fheap' \ fheap :
       f.sid # "none" => f.sid \in streams /\ f.gen = gen[f.sid]]_vars
=============================================================================
