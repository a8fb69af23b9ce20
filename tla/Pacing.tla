-------------------------------- MODULE Pacing --------------------------------
(***************************************************************************)
(* The wall clock of a timed run: Engine._run_timed and _sleep_until of    *)
(* src/tgt/engine.py, which sleep until each frame's scheduled time, and   *)
(* the control threads that pause, resume, stop and re-pace the run        *)
(* meanwhile (src/tgt/control.py).                                         *)
(*                                                                         *)
(* The send loop may be late at every step: a send, a build or the rate    *)
(* limiter (module RateLimiter) take their time. Scheduled times are those *)
(* of --speed 1, counted from wall0. What a frame holds is left out, and   *)
(* so is an injected one: it goes out at the time of the frame before it.  *)
(***************************************************************************)
EXTENDS Naturals, Sequences

CONSTANTS
  Times,       \* per phase, the times of its frames
  Ends,        \* per phase, its end
  OwnRate,     \* per phase, its rate, or Unset
  Unset,
  FirstRate,   \* --rate
  Rates,       \* what set_rate() is called with
  MaxTime, MaxPauses, MaxSets     \* bounds

ASSUME UnsetAssumption == Unset \notin Nat
ASSUME PlanAssumption ==
  /\ Times \in Seq(Seq(Nat)) /\ Ends \in Seq(Nat) /\ Len(Ends) > 0
  /\ Len(Times) = Len(Ends) /\ Len(Times) = Len(OwnRate)
ASSUME OrderAssumption ==
  \A p \in 1 .. Len(Ends) : \A i \in 1 .. Len(Times[p]) :
    /\ Times[p][i] <= Ends[p]
    /\ p > 1 => Ends[p - 1] <= Times[p][i]
    /\ i > 1 => Times[p][i - 1] <= Times[p][i]

VARIABLES
  now,
  stop,                 \* Engine._stop
  go, pausedAt, pausedTotal,      \* RunControl._go, ._paused_at, .paused_total
  pc, wake,             \* of _run_timed; the target it sleeps until
  phase, k,             \* the phase, and the frame in hand
  cap, limit,           \* the rate read for the phase; that of Engine.limiter
  cfgRate,              \* cfg.rate
  rate, held,           \* of set_rate(): the rate, and the phase of its limiter
  setter,
  lost,                 \* history: time spent paused
  pauses, sets,         \* history: calls of pause() and set_rate()
  crossed,              \* history: set_rate() ran across the phase's start
  early                 \* history: frames sent before their time

control == <<go, pausedAt, pausedTotal, pauses>>
pace == <<cap, limit, cfgRate, rate, held, setter, sets, crossed>>
place == <<phase, k>>
vars == <<now, stop, control, pc, wake, place, pace, lost, early>>

Init ==
  /\ now = 0 /\ stop = FALSE /\ lost = 0 /\ early = 0
  /\ go = TRUE /\ pausedAt = Unset /\ pausedTotal = 0 /\ pauses = 0
  /\ pc = "cap" /\ wake = 0 /\ phase = 1 /\ k = 0
  /\ cap = FirstRate /\ limit = Unset /\ cfgRate = FirstRate
  /\ rate = FirstRate /\ held = 0 /\ setter = "idle" /\ sets = 0
  /\ crossed = FALSE

\* The time a run has been playing.
Played == now - lost

Tick ==
  /\ now < MaxTime /\ now' = now + 1
  /\ lost' = IF go THEN lost ELSE lost + 1
  /\ UNCHANGED <<stop, control, pc, wake, place, pace, early>>

-----------------------------------------------------------------------------
(* Control threads. pause() and resume() hold the lock.                    *)

\* mutant: pause() of a paused run begins the pause anew
PauseAnew ==
  /\ pauses < MaxPauses /\ pauses' = pauses + (IF go THEN 1 ELSE 0)
  /\ go' = FALSE /\ pausedAt' = now
  /\ UNCHANGED <<now, stop, pausedTotal, pc, wake, place, pace, lost, early>>

Pause ==
  /\ go /\ pauses < MaxPauses
  /\ go' = FALSE /\ pausedAt' = now /\ pauses' = pauses + 1
  /\ UNCHANGED <<now, stop, pausedTotal, pc, wake, place, pace, lost, early>>

Resume ==
  /\ ~go /\ go' = TRUE
  /\ pausedTotal' = pausedTotal + (now - pausedAt) /\ pausedAt' = Unset
  /\ UNCHANGED <<now, stop, pauses, pc, wake, place, pace, lost, early>>

Stop ==
  /\ ~stop /\ stop' = TRUE
  /\ UNCHANGED <<now, control, pc, wake, place, pace, lost, early>>

\* The phase that made the limiter in use.
LimiterOf == IF pc \in {"cap", "limiter"} THEN phase - 1 ELSE phase

\* set_rate() takes no lock. A run that has no limiter yet refuses.
GetLimiter(r) ==
  /\ setter = "idle" /\ sets < MaxSets /\ limit # Unset
  /\ setter' = "config" /\ rate' = r /\ sets' = sets + 1
  /\ held' = LimiterOf
  /\ crossed' = (crossed \/ pc = "limiter")
  /\ UNCHANGED <<now, stop, control, pc, wake, place, cap, limit, cfgRate, lost, early>>

SetConfig ==
  /\ setter = "config" /\ setter' = "limiter"
  /\ cfgRate' = rate
  /\ UNCHANGED <<now, stop, control, pc, wake, place, cap, limit, rate, held, sets,
                 crossed, lost, early>>

\* mutant: only the configuration is changed
ForgetsLimiter ==
  /\ setter = "limiter" /\ setter' = "idle"
  /\ UNCHANGED <<now, stop, control, pc, wake, place, cap, limit, cfgRate, rate, held,
                 sets, crossed, lost, early>>

SetLimiter ==
  /\ setter = "limiter" /\ setter' = "idle"
  /\ limit' = IF held = LimiterOf THEN rate ELSE limit
  /\ UNCHANGED <<now, stop, control, pc, wake, place, cap, cfgRate, rate, held, sets,
                 crossed, lost, early>>

-----------------------------------------------------------------------------
(* The run. A phase begins with its rate.                                  *)

ReadCap ==
  /\ pc = "cap"
  /\ IF stop THEN pc' = "done" /\ UNCHANGED <<cap, crossed>>
     ELSE /\ pc' = "limiter"
          /\ cap' = IF OwnRate[phase] = Unset THEN cfgRate ELSE OwnRate[phase]
          /\ crossed' = (setter # "idle")
  /\ UNCHANGED <<now, stop, control, wake, place, limit, cfgRate, rate, held, setter,
                 sets, lost, early>>

NewLimiter ==
  /\ pc = "limiter" /\ pc' = "feed"
  /\ limit' = cap
  /\ UNCHANGED <<now, stop, control, wake, place, cap, cfgRate, rate, held, setter, sets,
                 crossed, lost, early>>

\* feed() takes the next frame, gates it and yields it.
Feed ==
  /\ pc = "feed" /\ k < Len(Times[phase])
  /\ \/ go /\ ~stop /\ pc' = "target" /\ k' = k + 1
     \/ stop /\ pc' = "done" /\ UNCHANGED k
  /\ UNCHANGED <<now, stop, control, wake, phase, pace, lost, early>>

FrameTime == Times[phase][k]

\* mutant: the frame's time is counted from now
FromNow ==
  /\ pc = "target"
  /\ IF stop THEN pc' = "done" /\ UNCHANGED wake
             ELSE pc' = "sleep" /\ wake' = now + pausedTotal + FrameTime
  /\ UNCHANGED <<now, stop, control, place, pace, lost, early>>

\* paused_total is read here, once, before the sleep.
Target ==
  /\ pc = "target"
  /\ IF stop THEN pc' = "done" /\ UNCHANGED wake
             ELSE pc' = "sleep" /\ wake' = pausedTotal + FrameTime
  /\ UNCHANGED <<now, stop, control, place, pace, lost, early>>

\* stop() wakes a sleep.
Wake ==
  /\ pc = "sleep" /\ (now >= wake \/ stop)
  /\ pc' = "gate"
  /\ UNCHANGED <<now, stop, control, wake, place, pace, lost, early>>

Gate ==
  /\ pc = "gate"
  /\ \/ go /\ ~stop /\ pc' = "send"
     \/ stop /\ pc' = "done"
  /\ UNCHANGED <<now, stop, control, wake, place, pace, lost, early>>

Send ==
  /\ pc = "send" /\ pc' = "feed"
  /\ early' = IF Played < FrameTime THEN early + 1 ELSE early
  /\ UNCHANGED <<now, stop, control, wake, place, pace, lost>>

\* No more frames: sleep until the phase ends.
Exhausted ==
  /\ pc = "feed" /\ k = Len(Times[phase])
  /\ IF stop THEN pc' = "done" /\ UNCHANGED wake
             ELSE pc' = "end" /\ wake' = pausedTotal + Ends[phase]
  /\ UNCHANGED <<now, stop, control, place, pace, lost, early>>

NextPhase ==
  /\ pc = "end" /\ (now >= wake \/ stop)
  /\ IF phase < Len(Ends) THEN pc' = "cap" /\ phase' = phase + 1 /\ k' = 0
                          ELSE pc' = "done" /\ UNCHANGED place
  /\ UNCHANGED <<now, stop, control, wake, pace, lost, early>>

Control ==
  \/ Pause \/ Resume \/ Stop
  \/ \E r \in Rates : GetLimiter(r)
  \/ SetConfig \/ SetLimiter

Run ==
  \/ ReadCap \/ NewLimiter \/ Feed \/ Target \/ Wake \/ Gate \/ Send
  \/ Exhausted \/ NextPhase

Next == Tick \/ Control \/ Run

Spec == Init /\ [][Next]_vars

-----------------------------------------------------------------------------
(* Properties.                                                             *)

\* The types of the run's clock and of what control threads change.
TypeOK ==
  /\ now \in Nat /\ lost \in Nat /\ pausedTotal \in Nat /\ wake \in Nat
  /\ go \in BOOLEAN /\ stop \in BOOLEAN /\ crossed \in BOOLEAN
  /\ pausedAt \in Nat \cup {Unset} /\ (go <=> pausedAt = Unset)
  /\ pc \in {"cap", "limiter", "feed", "target", "sleep", "gate", "send", "end", "done"}
  /\ setter \in {"idle", "config", "limiter"}
  /\ phase \in 1 .. Len(Ends) /\ k \in 0 .. Len(Times[phase])
  /\ pauses \in Nat /\ sets \in Nat /\ early \in Nat /\ held \in Nat

\* A pause may send the frame in hand off before its time, as it leaves when
\* the sleep begun before the pause is over (engine.py:539); every frame after
\* it keeps its time, so that no burst follows however many pauses there are.
\* A stop, which cuts the sleep short, sends no frame early.
EarlyOncePerPause == early <= pauses

\* The run never waits longer than the schedule and its pauses say, whenever
\* pauses begin and end during the sleeps (control.py:127-133).
NeverLate ==
  /\ pc = "sleep" => wake <= FrameTime + lost
  /\ pc = "end" => wake <= Ends[phase] + lost

\* A phase without a rate of its own runs at cfg.rate, the rate /status shows,
\* as long as no set_rate() runs across its start: one that does has read the
\* limiter of the phase before (control.py:141, engine.py:519-521).
RateTaken ==
  /\ setter = "idle" /\ ~crossed /\ pc \notin {"cap", "limiter", "done"}
  /\ OwnRate[phase] = Unset
  => limit = cfgRate
=============================================================================
