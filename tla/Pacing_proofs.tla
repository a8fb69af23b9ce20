----------------------------- MODULE Pacing_proofs -----------------------------
(***************************************************************************)
(* Proofs about Pacing, for any schedule, any pauses and any rates.        *)
(*                                                                         *)
(* Clock: paused_total is the time lost in the pauses that are over.       *)
(* Debt: a frame that is to leave early has a pause to account for it that *)
(* no earlier frame is accounted for by, as no frame is taken in a pause.  *)
(***************************************************************************)
EXTENDS Pacing, SequenceTheorems, TLAPS

\* The stages of a frame in hand.
InHand == {"target", "sleep", "gate", "send"}

Clock ==
  /\ go => lost = pausedTotal
  /\ ~go => pausedAt <= now /\ lost = pausedTotal + (now - pausedAt)

\* The frame in hand is held by a pause, or leaves before its time.
Owes == ~go \/ (pc # "target" /\ wake < FrameTime + lost)

Debt ==
  /\ early <= pauses
  /\ pc \in InHand /\ Owes => early < pauses
  /\ pc = "gate" => now >= wake \/ stop
  /\ pc = "send" => now >= wake
  /\ pc \in InHand => k > 0

IInv == TypeOK /\ Clock /\ Debt /\ NeverLate

-----------------------------------------------------------------------------
\* Phases and frames have times.
LEMMA PlanTypes ==
  ASSUME TypeOK
  PROVE  /\ Ends[phase] \in Nat
         /\ k > 0 => FrameTime \in Nat
         /\ Len(Times[phase]) \in Nat
<1>1. phase \in 1 .. Len(Ends) /\ phase \in 1 .. Len(Times)
  BY PlanAssumption DEF TypeOK
<1>2. Times[phase] \in Seq(Nat) /\ Ends[phase] \in Nat
  BY <1>1, PlanAssumption, ElementOfSeq
<1>3. Len(Times[phase]) \in Nat
  BY <1>2
<1>4. ASSUME k > 0 PROVE FrameTime \in Nat
  <2>1. k \in 1 .. Len(Times[phase])
    BY <1>3, <1>4 DEF TypeOK
  <2> QED
    BY <1>2, <2>1 DEF FrameTime
<1> QED
  BY <1>2, <1>3, <1>4

LEMMA InitIInv == Init => IInv
<1> SUFFICES ASSUME Init PROVE IInv
  OBVIOUS
<1>1. 1 \in 1 .. Len(Ends) /\ 1 \in 1 .. Len(Times)
  BY PlanAssumption
<1>2. Times[1] \in Seq(Nat)
  BY <1>1, PlanAssumption
<1>3. k \in 0 .. Len(Times[phase])
  BY <1>2 DEF Init
<1>4. TypeOK
  BY <1>1, <1>3 DEF Init, TypeOK
<1>5. Clock /\ Debt /\ NeverLate
  BY DEF Init, Clock, Debt, NeverLate, InHand
<1> QED
  BY <1>4, <1>5 DEF IInv

\* Time passes; a pause loses it.
LEMMA TickStep ==
  ASSUME IInv, Tick PROVE IInv'
<1> USE DEF IInv
<1>1. /\ now' = now + 1
      /\ lost' = IF go THEN lost ELSE lost + 1
      /\ UNCHANGED <<stop, go, pausedAt, pausedTotal, pauses, pc, wake, phase, k, early>>
      /\ UNCHANGED <<crossed, setter, sets, held>>
  BY DEF Tick, control, place, pace
<1>2. /\ now \in Nat /\ lost \in Nat /\ wake \in Nat /\ pausedTotal \in Nat
      /\ early \in Nat /\ pauses \in Nat
  BY DEF TypeOK
<1>3. FrameTime' = FrameTime
  BY <1>1 DEF FrameTime
<1>4. TypeOK'
  BY <1>1, <1>2 DEF TypeOK
<1>5. CASE go
  <2>1. Clock'
    BY <1>1, <1>5 DEF Clock
  <2>2. NeverLate'
    BY <1>1, <1>3, <1>5 DEF NeverLate
  <2>3. Debt'
    BY <1>1, <1>2, <1>3, <1>5 DEF Debt, Owes, InHand
  <2> QED
    BY <1>4, <2>1, <2>2, <2>3
<1>6. CASE ~go
  <2>1. pausedAt \in Nat
    BY <1>6 DEF TypeOK
  <2>2. Clock'
    BY <1>1, <1>2, <1>6, <2>1 DEF Clock
  <2>3. NeverLate'
    <3>1. pc = "sleep" => FrameTime \in Nat
      BY PlanTypes DEF Debt, InHand
    <3>2. Ends[phase] \in Nat
      BY PlanTypes
    <3> QED
      BY <1>1, <1>2, <1>3, <1>6, <3>1, <3>2 DEF NeverLate
  <2>4. Debt'
    BY <1>1, <1>2, <1>3, <1>6 DEF Debt, Owes, InHand
  <2> QED
    BY <1>4, <2>2, <2>3, <2>4
<1> QED
  BY <1>5, <1>6

\* pause() puts the frame in hand into debt and counts a pause for it; resume()
\* books the time lost; stop() lets a sleep end.
LEMMA PauseStep ==
  ASSUME IInv, Pause \/ Resume \/ Stop PROVE IInv'
<1> USE DEF IInv
<1>1. UNCHANGED <<now, pc, wake, phase, k, lost, early, crossed, setter, sets, held>>
  BY DEF Pause, Resume, Stop, place, pace
<1>2. /\ now \in Nat /\ lost \in Nat /\ wake \in Nat /\ pausedTotal \in Nat
      /\ early \in Nat /\ pauses \in Nat
  BY DEF TypeOK
<1>3. FrameTime' = FrameTime
  BY <1>1 DEF FrameTime
<1>4. NeverLate'
  BY <1>1, <1>3 DEF NeverLate
<1>5. CASE Pause
  <2>1. go /\ ~go' /\ pausedAt' = now /\ pauses' = pauses + 1 /\ pausedTotal' = pausedTotal
    BY <1>5 DEF Pause
  <2>2. stop' = stop /\ go' \in BOOLEAN
    BY <1>5 DEF Pause
  <2>3. TypeOK'
    BY <1>1, <1>2, <2>1, <2>2, UnsetAssumption DEF TypeOK
  <2>4. Clock'
    BY <1>1, <1>2, <2>1 DEF Clock
  <2>5. early' <= pauses' /\ early' < pauses'
    BY <1>1, <1>2, <2>1 DEF Debt
  <2>6. Debt'
    BY <1>1, <2>2, <2>5 DEF Debt
  <2> QED
    BY <1>4, <2>3, <2>4, <2>6
<1>6. CASE Resume
  <2>1. /\ ~go /\ go' /\ pausedAt' = Unset /\ pauses' = pauses
        /\ pausedTotal' = pausedTotal + (now - pausedAt)
    BY <1>6 DEF Resume
  <2>2. stop' = stop /\ go' \in BOOLEAN
    BY <1>6 DEF Resume
  <2>3. pausedAt \in Nat /\ pausedAt <= now
    BY <2>1 DEF TypeOK, Clock
  <2>4. pausedTotal' \in Nat
    BY <1>2, <2>1, <2>3
  <2>5. TypeOK'
    BY <1>1, <1>2, <2>1, <2>2, <2>4 DEF TypeOK
  <2>6. Clock'
    BY <1>1, <2>1 DEF Clock
  <2>7. Debt'
    BY <1>1, <1>3, <2>1, <2>2 DEF Debt, Owes
  <2> QED
    BY <1>4, <2>5, <2>6, <2>7
<1>7. CASE Stop
  <2>1. /\ UNCHANGED <<go, pausedAt, pausedTotal, pauses>>
        /\ stop' /\ stop' \in BOOLEAN
    BY <1>7 DEF Stop, control
  <2>2. TypeOK' /\ Clock'
    BY <1>1, <2>1 DEF TypeOK, Clock
  <2>3. Debt'
    BY <1>1, <1>3, <2>1 DEF Debt, Owes
  <2> QED
    BY <1>4, <2>2, <2>3
<1> QED
  BY <1>5, <1>6, <1>7

\* Rates are set and phases begin while no frame is in hand, or beside it.
LEMMA RateStep ==
  ASSUME IInv,
         \/ ReadCap \/ NewLimiter
         \/ SetConfig \/ SetLimiter \/ \E r \in Rates : GetLimiter(r)
  PROVE  IInv'
<1> USE DEF IInv
<1>1. UNCHANGED <<now, stop, go, pausedAt, pausedTotal, pauses, wake, phase, k, lost, early>>
  BY DEF ReadCap, NewLimiter, SetConfig, SetLimiter, GetLimiter, control, place
<1>2. \/ pc' = pc
      \/ pc' \in {"limiter", "feed", "done"}
  BY DEF ReadCap, NewLimiter, SetConfig, SetLimiter, GetLimiter
<1>3. FrameTime' = FrameTime
  BY <1>1 DEF FrameTime
<1>4. /\ setter' \in {"idle", "config", "limiter"}
      /\ sets' \in Nat /\ held' \in Nat
  <2>1. LimiterOf \in Nat /\ sets \in Nat /\ held \in Nat
    BY PlanAssumption DEF LimiterOf, TypeOK
  <2>2. CASE \E r \in Rates : GetLimiter(r)
    BY <2>1, <2>2 DEF GetLimiter
  <2>3. CASE ReadCap \/ NewLimiter \/ SetConfig \/ SetLimiter
    BY <2>1, <2>3 DEF ReadCap, NewLimiter, SetConfig, SetLimiter, TypeOK
  <2> QED
    BY <2>2, <2>3
<1>5. crossed' \in BOOLEAN
  BY DEF ReadCap, NewLimiter, SetConfig, SetLimiter, GetLimiter, TypeOK
<1>6. TypeOK'
  BY <1>1, <1>2, <1>4, <1>5 DEF TypeOK
<1>7. Clock'
  BY <1>1 DEF Clock
<1>8. Debt' /\ NeverLate'
  BY <1>1, <1>2, <1>3 DEF Debt, Owes, InHand, NeverLate
<1> QED
  BY <1>6, <1>7, <1>8

\* A frame is taken while the run plays, so it owes nothing; it is sent at its
\* target or later.
LEMMA FrameStep ==
  ASSUME IInv, Feed \/ Target \/ Wake \/ Gate \/ Send PROVE IInv'
<1> USE DEF IInv
<1>1. /\ UNCHANGED <<now, stop, go, pausedAt, pausedTotal, pauses, phase, lost>>
      /\ UNCHANGED <<crossed, setter, sets, held>>
  BY DEF Feed, Target, Wake, Gate, Send, control, place, pace
<1>2. /\ now \in Nat /\ lost \in Nat /\ wake \in Nat /\ pausedTotal \in Nat
      /\ early \in Nat /\ pauses \in Nat /\ k \in Nat
  BY PlanTypes DEF TypeOK
<1>3. Clock'
  BY <1>1 DEF Clock
<1>4. CASE Feed
  <2>1. /\ pc = "feed" /\ k < Len(Times[phase]) /\ UNCHANGED <<wake, early>>
        /\ \/ go /\ pc' = "target" /\ k' = k + 1
           \/ pc' = "done" /\ k' = k
    BY <1>4 DEF Feed
  <2>2. k' \in 0 .. Len(Times[phase])
    BY <1>2, <2>1, PlanTypes DEF TypeOK
  <2>3. TypeOK'
    BY <1>1, <2>1, <2>2 DEF TypeOK
  <2>4. Debt' /\ NeverLate'
    BY <1>1, <1>2, <2>1 DEF Debt, Owes, InHand, NeverLate
  <2> QED
    BY <1>3, <2>3, <2>4
<1>5. CASE Target
  <2>1. /\ pc = "target" /\ UNCHANGED <<k, early>>
        /\ \/ pc' = "done" /\ wake' = wake
           \/ pc' = "sleep" /\ wake' = pausedTotal + FrameTime
    BY <1>5 DEF Target, place
  <2>2. FrameTime \in Nat /\ FrameTime' = FrameTime
    BY <1>1, <2>1, PlanTypes DEF Debt, InHand, FrameTime
  <2>3. TypeOK'
    BY <1>1, <1>2, <2>1, <2>2 DEF TypeOK
  <2>4. pausedTotal <= lost
    <3>1. CASE go
      BY <1>2, <3>1 DEF Clock
    <3>2. CASE ~go
      BY <1>2, <3>2 DEF Clock, TypeOK
    <3> QED
      BY <3>1, <3>2
  <2>5. NeverLate'
    BY <1>1, <1>2, <2>1, <2>2, <2>4 DEF NeverLate
  <2>6. ~go => early < pauses
    BY <2>1 DEF Debt, Owes, InHand
  <2>7. Debt'
    <3>1. CASE go
      <4>1. lost = pausedTotal
        BY <3>1 DEF Clock
      <4>2. Owes' => pc' # "sleep"
        BY <1>1, <1>2, <2>1, <2>2, <3>1, <4>1 DEF Owes
      <4> QED
        BY <1>1, <2>1, <4>2 DEF Debt, InHand
    <3>2. CASE ~go
      BY <1>1, <2>1, <2>6, <3>2 DEF Debt, InHand
    <3> QED
      BY <3>1, <3>2
  <2> QED
    BY <1>3, <2>3, <2>5, <2>7
<1>6. CASE Wake \/ Gate
  <2>1. /\ UNCHANGED <<k, wake, early>>
        /\ \/ pc = "sleep" /\ (now >= wake \/ stop) /\ pc' = "gate"
           \/ pc = "gate" /\ ~stop /\ pc' = "send"
           \/ pc = "gate" /\ pc' = "done"
    BY <1>6 DEF Wake, Gate, place
  <2>2. FrameTime' = FrameTime
    BY <1>1, <2>1 DEF FrameTime
  <2>3. TypeOK'
    BY <1>1, <2>1 DEF TypeOK
  <2>4. Debt' /\ NeverLate'
    BY <1>1, <2>1, <2>2 DEF Debt, Owes, InHand, NeverLate
  <2> QED
    BY <1>3, <2>3, <2>4
<1>7. CASE Send
  <2>1. /\ pc = "send" /\ pc' = "feed" /\ UNCHANGED <<k, wake>>
        /\ early' = IF Played < FrameTime THEN early + 1 ELSE early
    BY <1>7 DEF Send, place
  <2>2. FrameTime \in Nat
    BY <2>1, PlanTypes DEF Debt, InHand
  <2>3. Played < FrameTime => wake < FrameTime + lost
    BY <1>2, <2>1, <2>2 DEF Played, Debt
  <2>4. Played < FrameTime => early < pauses
    BY <2>1, <2>3 DEF Debt, Owes, InHand
  <2>5. early' \in Nat /\ early' <= pauses
    BY <1>2, <2>1, <2>4 DEF Debt
  <2>6. TypeOK'
    BY <1>1, <2>1, <2>5 DEF TypeOK
  <2>7. Debt' /\ NeverLate'
    BY <1>1, <2>1, <2>5 DEF Debt, InHand, NeverLate
  <2> QED
    BY <1>3, <2>6, <2>7
<1> QED
  BY <1>4, <1>5, <1>6, <1>7

\* A phase ends after its frames.
LEMMA PhaseStep ==
  ASSUME IInv, Exhausted \/ NextPhase PROVE IInv'
<1> USE DEF IInv
<1>1. /\ UNCHANGED <<now, stop, go, pausedAt, pausedTotal, pauses, lost, early>>
      /\ UNCHANGED <<crossed, setter, sets, held>>
  BY DEF Exhausted, NextPhase, control, pace
<1>2. /\ lost \in Nat /\ pausedTotal \in Nat /\ wake \in Nat /\ Ends[phase] \in Nat
  BY PlanTypes DEF TypeOK
<1>3. Clock'
  BY <1>1 DEF Clock
<1>4. CASE Exhausted
  <2>1. /\ UNCHANGED <<phase, k>>
        /\ \/ pc' = "done" /\ wake' = wake
           \/ pc' = "end" /\ wake' = pausedTotal + Ends[phase]
    BY <1>4 DEF Exhausted, place
  <2>2. TypeOK'
    BY <1>1, <1>2, <2>1 DEF TypeOK
  <2>3. pausedTotal <= lost
    <3>1. CASE go
      BY <1>2, <3>1 DEF Clock
    <3>2. CASE ~go
      BY <1>2, <3>2 DEF Clock, TypeOK
    <3> QED
      BY <3>1, <3>2
  <2>4. NeverLate'
    BY <1>1, <1>2, <2>1, <2>3 DEF NeverLate
  <2>5. Debt'
    BY <1>1, <2>1 DEF Debt, InHand
  <2> QED
    BY <1>3, <2>2, <2>4, <2>5
<1>5. CASE NextPhase
  <2>1. /\ wake' = wake
        /\ \/ pc' = "cap" /\ phase' = phase + 1 /\ k' = 0 /\ phase < Len(Ends)
           \/ pc' = "done" /\ UNCHANGED <<phase, k>>
    BY <1>5 DEF NextPhase, place
  <2>2. phase' \in 1 .. Len(Ends) /\ k' \in 0 .. Len(Times[phase'])
    <3>1. CASE pc' = "cap"
      <4>1. phase' \in 1 .. Len(Ends) /\ phase' \in 1 .. Len(Times) /\ k' = 0
        BY <2>1, <3>1, PlanAssumption DEF TypeOK
      <4>2. Times[phase'] \in Seq(Nat)
        BY <4>1, PlanAssumption, ElementOfSeq
      <4>3. Len(Times[phase']) \in Nat
        BY <4>2
      <4> QED
        BY <4>1, <4>3
    <3>2. CASE pc' = "done"
      BY <2>1, <3>2 DEF TypeOK
    <3> QED
      BY <2>1, <3>1, <3>2
  <2>3. TypeOK'
    BY <1>1, <2>1, <2>2 DEF TypeOK
  <2>4. Debt' /\ NeverLate'
    BY <1>1, <2>1 DEF Debt, InHand, NeverLate
  <2> QED
    BY <1>3, <2>3, <2>4
<1> QED
  BY <1>4, <1>5

\* IInv is inductive.
LEMMA NextIInv == IInv /\ [Next]_vars => IInv'
<1> SUFFICES ASSUME IInv, [Next]_vars PROVE IInv'
  OBVIOUS
<1>1. CASE UNCHANGED vars
  <2>1. FrameTime' = FrameTime
    BY <1>1 DEF vars, place, FrameTime
  <2> QED
    BY <1>1, <2>1 DEF vars, control, place, pace, IInv, TypeOK, Clock, Debt, Owes, NeverLate
<1>2. CASE Next
  BY <1>2, TickStep, PauseStep, RateStep, FrameStep, PhaseStep DEF Next, Control, Run
<1> QED
  BY <1>1, <1>2

-----------------------------------------------------------------------------
\* The types hold for every schedule (RunControl.__init__, Engine._run_timed).
THEOREM PacingTypes == Spec => []TypeOK
<1>1. IInv => TypeOK
  BY DEF IInv
<1> QED
  BY <1>1, InitIInv, NextIInv, PTL DEF Spec

\* However often a run is paused, and wherever, a pause sends at most one frame
\* off before its time (engine.py:539, control.py:121-133).
THEOREM OneEarlyFramePerPause == Spec => []EarlyOncePerPause
<1>1. IInv => EarlyOncePerPause
  BY DEF IInv, Debt, EarlyOncePerPause
<1> QED
  BY <1>1, InitIInv, NextIInv, PTL DEF Spec

\* No sleep of the run is longer than its schedule and its pauses
\* (engine.py:539, 587).
THEOREM SleepsAreNotLate == Spec => []NeverLate
<1>1. IInv => NeverLate
  BY DEF IInv
<1> QED
  BY <1>1, InitIInv, NextIInv, PTL DEF Spec

-----------------------------------------------------------------------------
\* A set_rate() that has not run across the phase's start holds the limiter in use,
\* and finds the rate that it set still set; a phase that begins beside none takes
\* the rate of the configuration.
Rated ==
  /\ pc = "limiter" /\ ~crossed =>
       setter = "idle" /\ (OwnRate[phase] = Unset => cap = cfgRate)
  /\ pc \notin {"cap", "limiter", "done"} /\ ~crossed =>
       /\ setter # "idle" => held = phase
       /\ OwnRate[phase] = Unset => /\ setter = "idle" => limit = cfgRate
                                    /\ setter = "limiter" => cfgRate = rate

\* Every step keeps the rates in step.
LEMMA RatedStep ==
  ASSUME TypeOK, Rated, [Next]_vars PROVE Rated'
<1>1. setter \in {"idle", "config", "limiter"} /\ crossed \in BOOLEAN
  BY DEF TypeOK
<1>2. CASE Tick \/ Pause \/ Resume \/ Stop \/ UNCHANGED vars
  BY <1>2 DEF Tick, Pause, Resume, Stop, vars, place, pace, Rated
<1>3. CASE \E r \in Rates : GetLimiter(r)
  <2>1. /\ UNCHANGED <<pc, phase, cap, limit, cfgRate>> /\ setter' = "config"
        /\ held' = LimiterOf /\ (~crossed' => ~crossed /\ pc # "limiter")
    BY <1>3 DEF GetLimiter, place
  <2>2. pc \notin {"cap", "limiter", "done"} => held' = phase
    BY <2>1 DEF LimiterOf
  <2> QED
    BY <2>1, <2>2 DEF Rated
<1>4. CASE SetConfig
  BY <1>4 DEF SetConfig, Rated, place
<1>5. CASE SetLimiter
  <2>1. /\ UNCHANGED <<pc, phase, cap, cfgRate, rate, held, crossed>>
        /\ setter = "limiter" /\ setter' = "idle"
        /\ limit' = IF held = LimiterOf THEN rate ELSE limit
    BY <1>5 DEF SetLimiter, place
  <2>2. pc \notin {"cap", "limiter", "done"} => LimiterOf = phase
    BY DEF LimiterOf
  <2> QED
    BY <2>1, <2>2 DEF Rated
<1>6. CASE ReadCap
  <2>1. /\ UNCHANGED <<phase, cfgRate, setter>>
        /\ \/ pc' = "done"
           \/ /\ pc' = "limiter" /\ crossed' = (setter # "idle")
              /\ cap' = IF OwnRate[phase] = Unset THEN cfgRate ELSE OwnRate[phase]
    BY <1>6 DEF ReadCap, place
  <2> QED
    BY <2>1 DEF Rated
<1>7. CASE NewLimiter
  BY <1>7 DEF NewLimiter, Rated, place
<1>8. CASE Feed \/ Target \/ Wake \/ Gate \/ Send \/ Exhausted
  <2>1. /\ UNCHANGED <<phase, cap, limit, cfgRate, rate, held, setter, crossed>>
        /\ pc \notin {"cap", "limiter", "done"} /\ pc' \notin {"cap", "limiter"}
    BY <1>8 DEF Feed, Target, Wake, Gate, Send, Exhausted, place, pace
  <2> QED
    BY <2>1 DEF Rated
<1>9. CASE NextPhase
  BY <1>9 DEF NextPhase, Rated
<1> QED
  BY <1>2, <1>3, <1>4, <1>5, <1>6, <1>7, <1>8, <1>9 DEF Next, Control, Run

\* A phase without a rate of its own runs at cfg.rate, whatever set_rate() calls fall
\* into it or into the phases before, but for one across its start (engine.py:519-521).
THEOREM PhasesTakeTheRate == Spec => []RateTaken
<1>1. Init => Rated
  BY DEF Init, Rated
<1>2. Rated => RateTaken
  BY DEF Rated, RateTaken
<1>3. TypeOK /\ Rated /\ [Next]_vars => Rated'
  BY RatedStep
<1> QED
  BY PacingTypes, <1>1, <1>2, <1>3, PTL DEF Spec
=============================================================================
