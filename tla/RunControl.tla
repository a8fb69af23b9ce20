------------------------------ MODULE RunControl ------------------------------
(***************************************************************************)
(* Live control of a running engine: src/tgt/control.py (class RunControl) *)
(* and the part of the send loops of src/tgt/engine.py that pulls frames   *)
(* through RunControl.feed.                                                *)
(*                                                                         *)
(* Four kinds of threads meet here:                                        *)
(*   - control threads (HTTP handlers of tgt.api, the TUI) call pause,     *)
(*     resume, stop and inject at any time, also when the run has ended:   *)
(*     the handler's is_alive() test may be arbitrarily old;               *)
(*   - the engine thread feeds base frames, splices injected frames in,    *)
(*     and closes the control when its loop is left;                       *)
(*   - the injection worker "tgt-inject" (one thread, a FIFO queue) builds *)
(*     the passes of the injections;                                       *)
(*   - the clock, which decides when an injection's time is up.            *)
(*                                                                         *)
(* A run is of one of three modes, which gate differently: "cycle" (_run,  *)
(* every frame is gated right before it leaves), "paced" and "unpaced"     *)
(* (_run_timed on the wall clock, or on the synthetic one into a file). A  *)
(* timed run sends the copies of an item in one go, none to two of them    *)
(* (enterprise.py, _place and _route), and unpaced it has no gate but      *)
(* feed's, which injected frames do not pass.                              *)
(*                                                                         *)
(* An injection is its position in the list RunControl.injections. A frame *)
(* is counted, never looked into: `left' is what remains of the current    *)
(* pass (len(_frames) - _pos), `extra' the frames _extras() returned and   *)
(* the loop has not sent yet. The order in which _extras visits pending    *)
(* and active injections is left open.                                     *)
(***************************************************************************)
EXTENDS Naturals, Sequences, FiniteSets

CONSTANTS
  Incidents,      \* the incident keys that can be injected
  MaxInjections,  \* bound: calls of inject() that succeed
  PassLen,        \* frames of one incident pass
  Unit,           \* the credit that buys one injected frame (1.0 in the code)
  Gain,           \* Gain[i]: credit per base frame, ratio / (1 - ratio)
  MaxPasses,      \* bound: no injection lasts longer than this many passes
  Phases,         \* phases of the run (1 when it is no campaign)
  Modes,          \* the modes of run looked at
  MaxCopies       \* most copies of one item of a timed run

ASSUME IncidentsAssumption == Incidents # {}
ASSUME BoundsAssumption ==
  /\ MaxInjections \in Nat /\ MaxPasses \in Nat \ {0} /\ Phases \in Nat \ {0}
  /\ PassLen \in Nat \ {0} /\ Unit \in Nat \ {0}
  /\ Gain \in [1..MaxInjections -> Nat \ {0}]
ASSUME ModesAssumption ==
  Modes \subseteq {"cycle", "paced", "unpaced"} /\ MaxCopies \in Nat \ {0}

Ids == 1..MaxInjections
NoId == 0

VARIABLES
  mode,        \* of the run, see above
  \* control
  go,          \* the Event _go: set unless the run is paused
  stop,        \* the Event Engine._stop
  injections,  \* the incident of every injection accepted so far
  pending,     \* _pending
  active,      \* the keys of _active
  \* the injections
  state,       \* Injection.state, "absent" before inject() made it
  left, passes, credit, framesOut,
  due,         \* monotonic() has reached the deadline
  fut,         \* Injection._next: the Future of the pass being built
  \* engine thread
  pc, waiting, \* where it is; how it stands in _go.wait()
  visit,       \* what the loop over pending / active has yet to visit
  starting,    \* taken from _pending, not yet in _active
  copies,      \* of the base item in hand: what the send loop has yet to send
  extra,       \* frames of each injection handed to the send loop
  \* injection worker
  queue, building,
  \* the environment frames are addressed onto (a campaign phase's)
  env, builtOn, nextOn, recordedOn,
  \* history
  fed,         \* base frames after which an injection was given credit
  sent,        \* injected frames the send loop sent
  sincePause,  \* frames sent since the pause that is still on
  turns,       \* the base items these were of or were spliced in after
  fresh        \* none of these is of the base item in hand

control == <<mode, go, stop, injections, pending, active>>
progress == <<left, passes, credit, framesOut>>
engine == <<pc, waiting, visit, starting, copies, extra>>
worker == <<queue, building>>
places == <<env, builtOn, nextOn, recordedOn>>
pausing == <<sincePause, turns, fresh>>
history == <<fed, sent, pausing>>
vars == <<control, state, progress, due, fut, engine, worker, places, history>>

None == [i \in Ids |-> 0]

Init ==
  /\ mode \in Modes
  /\ go = TRUE /\ stop = FALSE
  /\ injections = <<>> /\ pending = {} /\ active = {}
  /\ state = [i \in Ids |-> "absent"]
  /\ left = None /\ passes = None /\ credit = None /\ framesOut = None
  /\ due = [i \in Ids |-> FALSE]
  /\ fut = [i \in Ids |-> "none"]
  /\ pc = "gate" /\ waiting = "no" /\ visit = {} /\ starting = NoId
  /\ copies = 0 /\ extra = None
  /\ queue = <<>> /\ building = NoId
  /\ env = 1 /\ builtOn = None /\ nextOn = None /\ recordedOn = None
  /\ fed = None /\ sent = None
  /\ sincePause = 0 /\ turns = 0 /\ fresh = TRUE

-----------------------------------------------------------------------------
(* Control threads: each call holds RunControl._lock, so it is one step.   *)

Pause ==
  /\ go
  /\ go' = FALSE
  /\ UNCHANGED <<mode, stop, injections, pending, active, state, progress, due, fut,
                 engine, worker, places, history>>

\* Event.set() releases the engine thread if it is blocked in wait(): it gets
\* TRUE even when the next pause() clears the event before it runs.
Resume ==
  /\ ~go
  /\ go' = TRUE
  /\ waiting' = IF waiting = "blocked" THEN "woken" ELSE waiting
  /\ sincePause' = 0 /\ turns' = 0 /\ fresh' = TRUE
  /\ UNCHANGED <<mode, stop, injections, pending, active, state, progress, due, fut,
                 pc, visit, starting, copies, extra, worker, places, fed, sent>>

Stop ==
  /\ ~stop
  /\ stop' = TRUE
  /\ UNCHANGED <<mode, go, injections, pending, active, state, progress, due, fut,
                 engine, worker, places, history>>

Busy(inc) == \E i \in pending \cup active : injections[i] = inc

Inject(inc) ==
  LET i == Len(injections) + 1 IN
  /\ i <= MaxInjections
  /\ ~Busy(inc)
  /\ injections' = Append(injections, inc)
  /\ pending' = pending \cup {i}
  /\ state' = [state EXCEPT ![i] = "pending"]
  /\ UNCHANGED <<mode, go, stop, active, progress, due, fut, engine, worker, places,
                 history>>

\* The clock reaches an injection's deadline.
DeadlinePasses(i) ==
  /\ i \in active /\ ~due[i]
  /\ due' = [due EXCEPT ![i] = TRUE]
  /\ UNCHANGED <<control, state, progress, fut, engine, worker, places, history>>

-----------------------------------------------------------------------------
(* Engine thread: the gates. feed() gates before it yields a base item     *)
(* (pc = "gate"); before the frames of an item leave, and before each      *)
(* injected one, the send loop gates again, unless it is unpaced           *)
(* (pc = "hold"). copies > 0: what is held is of the base item.            *)

Block ==
  /\ pc = "gate" \/ (pc = "hold" /\ mode # "unpaced")
  /\ ~go /\ waiting = "no"
  /\ waiting' = "blocked"
  /\ UNCHANGED <<control, state, progress, due, fut, pc, visit, starting, copies,
                 extra, worker, places, history>>

\* mutant: gate() does not look at the stop event while it is paused
WaitsForResumeOnly ==
  /\ \/ waiting = "no" /\ go
     \/ waiting = "woken"
  /\ waiting' = "no"

\* gate() comes back: not paused, released by resume(), or the 0.2 s poll saw
\* the stop event.
GateReturns ==
  /\ \/ waiting = "no" /\ go
     \/ waiting = "woken"
     \/ waiting = "blocked" /\ stop
  /\ waiting' = "no"

\* The loop over feed() is left: the frames it still held are dropped.
Leave == pc' = "closing" /\ copies' = 0 /\ extra' = None

MostCopies == IF mode = "cycle" THEN 1 ELSE MaxCopies

ItemCopies == (IF mode = "cycle" THEN 1 ELSE 0)..MostCopies

FeedGate ==
  /\ pc = "gate"
  /\ GateReturns
  /\ IF stop
       THEN Leave /\ UNCHANGED fresh
       ELSE pc' = "hold" /\ copies' \in ItemCopies /\ fresh' = TRUE /\ UNCHANGED extra
  /\ UNCHANGED <<control, state, progress, due, fut, visit, starting, worker,
                 places, fed, sent, sincePause, turns>>

StopOrSend == IF stop THEN Leave ELSE pc' = "send" /\ UNCHANGED <<copies, extra>>

\* mutant: the send loop does not gate again before a frame leaves
SendsUngated ==
  /\ pc = "hold"
  /\ StopOrSend
  /\ UNCHANGED <<control, state, progress, due, fut, waiting, visit, starting,
                 worker, places, history>>

\* The test of the stop event and, where the run is gated, gate().
SendGate ==
  /\ pc = "hold"
  /\ IF mode = "unpaced" THEN UNCHANGED waiting ELSE GateReturns
  /\ StopOrSend
  /\ UNCHANGED <<control, state, progress, due, fut, visit, starting, worker,
                 places, history>>

CountFrame ==
  IF go
    THEN UNCHANGED pausing
    ELSE /\ sincePause' = sincePause + 1
         /\ turns' = IF fresh THEN turns + 1 ELSE turns
         /\ fresh' = FALSE

\* --count or --duration is reached by this frame. A loop over cycles is left
\* at once; a timed one drops the copies left of the item (`rest' is what
\* there is without them) and finds the stop with the next item.
LastFrame(rest) ==
  /\ stop' = TRUE
  /\ IF mode = "cycle" THEN Leave ELSE rest

\* One copy of the base item in hand.
SendBase(last) ==
  /\ pc = "send" /\ copies > 0
  /\ CountFrame
  /\ IF last
       THEN LastFrame(copies' = 0 /\ UNCHANGED <<pc, extra>>)
       ELSE copies' = copies - 1 /\ UNCHANGED <<stop, pc, extra>>
  /\ UNCHANGED <<mode, go, injections, pending, active, state, progress, due, fut,
                 waiting, visit, starting, worker, places, fed, sent>>

\* feed() goes on after a base item: are there injections?
EndItem ==
  /\ pc = "send" /\ copies = 0 /\ extra = None
  /\ IF pending \cup active # {}
       THEN pc' = "starting" /\ visit' = pending
       ELSE pc' = "gate" /\ UNCHANGED visit
  /\ UNCHANGED <<control, state, progress, due, fut, waiting, starting, copies,
                 extra, worker, places, history>>

SendExtra(i, last) ==
  /\ pc = "send" /\ extra[i] > 0
  /\ CountFrame
  /\ sent' = [sent EXCEPT ![i] = @ + 1]
  /\ LET Rest == /\ extra' = [extra EXCEPT ![i] = @ - 1]
                 /\ pc' = IF extra' = None THEN "gate" ELSE "hold"
                 /\ UNCHANGED copies
     IN IF last THEN LastFrame(Rest) ELSE Rest /\ UNCHANGED stop
  /\ UNCHANGED <<mode, go, injections, pending, active, state, progress, due, fut,
                 waiting, visit, starting, worker, places, fed>>

\* A run that does not loop is out of frames.
OutOfFrames ==
  /\ pc = "gate" /\ waiting = "no"
  /\ Leave
  /\ UNCHANGED <<control, state, progress, due, fut, waiting, visit, starting,
                 worker, places, history>>

\* A timed campaign begins its next phase: Engine.env_now and the recorder's
\* environment move on together.
NextPhase ==
  /\ mode # "cycle"
  /\ pc = "gate" /\ waiting = "no" /\ env < Phases
  /\ env' = env + 1
  /\ UNCHANGED <<control, state, progress, due, fut, engine, worker, builtOn,
                 nextOn, recordedOn, history>>

-----------------------------------------------------------------------------
(* Engine thread: _extras(), first the loop over the pending injections.   *)

\* mutant: the worker refuses a pass while it is busy with another one
DropsWhenBusy(i) ==
  /\ queue' = IF building = NoId THEN Append(queue, i) ELSE queue
  /\ UNCHANGED building

\* _submit: the next pass goes to the worker's queue.
Submit(i) == queue' = Append(queue, i) /\ UNCHANGED building

NoLongerPending(i) == pending' = pending \ {i}

StartVisit(i) ==
  /\ pc = "starting" /\ i \in visit
  /\ visit' = visit \ {i}
  /\ CASE fut[i] = "none" ->
            /\ Submit(i)
            /\ fut' = [fut EXCEPT ![i] = "queued"]
            /\ UNCHANGED <<pending, starting, pc>>
       [] fut[i] \in {"queued", "building"} ->
            UNCHANGED <<pending, starting, pc, fut, worker>>
       [] OTHER ->
            /\ NoLongerPending(i)
            /\ starting' = i
            /\ pc' = "taking"
            /\ UNCHANGED <<fut, worker>>
  /\ UNCHANGED <<mode, go, stop, injections, active, state, progress, due, waiting,
                 copies, extra, places, history>>

\* _finish: out of _active, and the Future (if any) cancelled. A queued build
\* stays in the worker's queue, which skips it; a running one runs on.
Finish(i, how) ==
  /\ state' = [state EXCEPT ![i] = how]
  /\ active' = active \ {i}
  /\ fut' = [fut EXCEPT ![i] = "none"]

\* _take, then _finish(failed) or _start. This runs without the lock.
TakeFirst ==
  LET i == starting IN
  /\ pc = "taking" /\ pc' = "starting"
  /\ starting' = NoId
  /\ IF fut[i] = "failed"
       THEN /\ Finish(i, "failed")
            /\ UNCHANGED <<progress, worker, builtOn, recordedOn>>
       ELSE /\ state' = [state EXCEPT ![i] = "active"]
            /\ active' = active \cup {i}
            /\ left' = [left EXCEPT ![i] = PassLen]
            /\ passes' = [passes EXCEPT ![i] = 1]
            /\ credit' = [credit EXCEPT ![i] = Unit]
            /\ Submit(i) /\ fut' = [fut EXCEPT ![i] = "queued"]
            /\ builtOn' = [builtOn EXCEPT ![i] = nextOn[i]]
            /\ recordedOn' = [recordedOn EXCEPT ![i] = env]
            /\ UNCHANGED framesOut
  /\ UNCHANGED <<mode, go, stop, injections, pending, due, waiting, visit,
                 copies, extra, env, nextOn, history>>

StartDone ==
  /\ pc = "starting" /\ visit = {}
  /\ pc' = "emitting"
  /\ visit' = active
  /\ UNCHANGED <<control, state, progress, due, fut, waiting, starting, copies, extra,
                 worker, places, history>>

-----------------------------------------------------------------------------
(* Engine thread: _extras(), the loop over the active injections.          *)

\* No frame of the pass left, and its time is up or the next build failed.
EndIdle(i) ==
  /\ pc = "emitting" /\ i \in visit /\ left[i] = 0
  /\ visit' = visit \ {i}
  /\ \/ due[i] /\ Finish(i, "done")
     \/ ~due[i] /\ fut[i] = "failed" /\ Finish(i, "failed")
  /\ UNCHANGED <<mode, go, stop, injections, pending, progress, due, pc, waiting,
                 starting, copies, extra, worker, places, history>>

\* The next pass is still being built.
StillBuilding(i) ==
  /\ pc = "emitting" /\ i \in visit
  /\ left[i] = 0 /\ ~due[i] /\ fut[i] \in {"none", "queued", "building"}
  /\ visit' = visit \ {i}
  /\ UNCHANGED <<control, state, progress, due, fut, pc, waiting, starting,
                 copies, extra, worker, places, history>>

\* mutant: the loop runs while any credit is left
BurstOnAnyCredit(n, c, l) ==
  /\ n <= l /\ (n = 0 \/ (n - 1) * Unit < c)
  /\ n = l \/ c <= n * Unit

\* The while loop over the credit: n frames of a pass with l frames left are
\* emitted when the credit is c.
Burst(n, c, l) ==
  /\ n <= l /\ n * Unit <= c
  /\ n = l \/ c < (n + 1) * Unit

\* Credit for one base frame buys n frames of a pass with l frames left.
Buy(i, l, n) ==
  /\ Burst(n, credit[i] + Gain[i], l)
  /\ credit' = [credit EXCEPT ![i] = @ + Gain[i] - n * Unit]
  /\ left' = [left EXCEPT ![i] = l - n]
  /\ framesOut' = [framesOut EXCEPT ![i] = @ + n]
  /\ extra' = [extra EXCEPT ![i] = @ + n]
  /\ fed' = [fed EXCEPT ![i] = @ + 1]

Credit(i, l) == \E n \in 0..l : Buy(i, l, n)

\* mutant: the pass in flight is cut off when the time is up
CutsPass(i) == due[i]

\* The check at the end of _extras: time up, and the pass is finished.
PassAndTimeOver(i) == left'[i] = 0 /\ due[i]

Emit(i) ==
  /\ pc = "emitting" /\ i \in visit /\ left[i] > 0
  /\ visit' = visit \ {i}
  /\ Credit(i, left[i])
  /\ IF PassAndTimeOver(i)
       THEN Finish(i, "done")
       ELSE UNCHANGED <<state, active, fut>>
  /\ UNCHANGED <<mode, go, stop, injections, pending, passes, due, pc, waiting,
                 starting, copies, worker, places, sent, pausing>>

NextPass(i) ==
  /\ pc = "emitting" /\ i \in visit
  /\ left[i] = 0 /\ ~due[i] /\ fut[i] = "frames"
  /\ passes[i] < MaxPasses
  /\ visit' = visit \ {i}
  /\ passes' = [passes EXCEPT ![i] = @ + 1]
  /\ builtOn' = [builtOn EXCEPT ![i] = nextOn[i]]
  /\ Submit(i) /\ fut' = [fut EXCEPT ![i] = "queued"]
  /\ Credit(i, PassLen)
  /\ UNCHANGED <<control, state, due, pc, waiting, starting, copies, env, nextOn,
                 recordedOn, sent, pausing>>

EmitDone ==
  /\ pc = "emitting" /\ visit = {}
  /\ pc' = IF extra = None THEN "gate" ELSE "hold"
  /\ UNCHANGED <<control, state, progress, due, fut, waiting, visit, starting,
                 copies, extra, worker, places, history>>

-----------------------------------------------------------------------------
(* Engine thread: close(), shutdown(wait=True, cancel_futures=True).       *)

CancelQueued ==
  /\ pc = "closing" /\ pc' = "joining"
  /\ queue' = <<>>
  /\ fut' = [i \in Ids |-> IF fut[i] = "queued" THEN "cancelled" ELSE fut[i]]
  /\ UNCHANGED <<control, state, progress, due, waiting, visit, starting, copies, extra,
                 building, places, history>>

\* mutant: shutdown(wait=False)
LeavesWorker ==
  /\ pc = "joining"
  /\ pc' = "ended"
  /\ UNCHANGED <<control, state, progress, due, fut, waiting, visit, starting,
                 copies, extra, worker, places, history>>

JoinWorker ==
  /\ pc = "joining" /\ building = NoId
  /\ pc' = "ended"
  /\ UNCHANGED <<control, state, progress, due, fut, waiting, visit, starting,
                 copies, extra, worker, places, history>>

-----------------------------------------------------------------------------
(* The injection worker: _build, one pass at a time, in submission order.  *)

WorkerTake ==
  /\ building = NoId /\ queue # <<>>
  /\ queue' = Tail(queue)
  /\ LET i == Head(queue) IN
     IF fut[i] = "queued"
       THEN /\ building' = i
            /\ fut' = [fut EXCEPT ![i] = "building"]
            /\ nextOn' = [nextOn EXCEPT ![i] = env]
       ELSE UNCHANGED <<building, fut, nextOn>>
  /\ UNCHANGED <<control, state, progress, due, engine, env, builtOn, recordedOn,
                 history>>

\* mutant: an exception in _build takes the worker's result with it
LosesFailure(result) ==
  /\ building # NoId
  /\ building' = NoId
  /\ fut' = [fut EXCEPT ![building] =
                IF @ = "building" /\ result = "frames" THEN result ELSE @]
  /\ UNCHANGED <<control, state, progress, due, engine, queue, places, history>>

\* "failed": the build raised, or built no frame at all.
WorkerDone(result) ==
  /\ building # NoId
  /\ building' = NoId
  /\ fut' = [fut EXCEPT ![building] = IF @ = "building" THEN result ELSE @]
  /\ UNCHANGED <<control, state, progress, due, engine, queue, places, history>>

-----------------------------------------------------------------------------
Extras ==
  \/ TakeFirst \/ StartDone \/ EmitDone
  \/ \E i \in Ids : \/ StartVisit(i) \/ EndIdle(i) \/ StillBuilding(i)
                    \/ Emit(i) \/ NextPass(i)

Sending ==
  \/ Block \/ FeedGate \/ SendGate \/ EndItem
  \/ \E last \in BOOLEAN : \/ SendBase(last)
                           \/ \E i \in Ids : SendExtra(i, last)

Close == CancelQueued \/ JoinWorker

EngineStep == Sending \/ Extras \/ Close

WorkerStep == WorkerTake \/ \E result \in {"frames", "failed"} : WorkerDone(result)

ControlStep ==
  \/ Pause \/ Resume \/ Stop
  \/ \E inc \in Incidents : Inject(inc)

Next ==
  \/ ControlStep \/ EngineStep \/ WorkerStep
  \/ OutOfFrames \/ NextPhase
  \/ \E i \in Ids : DeadlinePasses(i)

Spec == Init /\ [][Next]_vars

\* The threads of the program run on and time passes; nobody is obliged to
\* pause, resume, stop or inject, and a run may loop for ever.
Fairness ==
  /\ WF_vars(EngineStep)
  /\ WF_vars(WorkerStep)
  /\ \A i \in Ids : WF_vars(DeadlinePasses(i))

FairSpec == Spec /\ Fairness

-----------------------------------------------------------------------------
(* Properties.                                                             *)

Counters == [Ids -> Nat]
PhasesOf == [Ids -> 0..Phases]
States == {"absent", "pending", "active", "done", "failed"}
Futures == {"none", "queued", "building", "frames", "failed", "cancelled"}
Places == {"gate", "hold", "send", "starting", "taking", "emitting", "closing",
           "joining", "ended"}

ControlType ==
  /\ mode \in Modes
  /\ go \in BOOLEAN /\ stop \in BOOLEAN
  /\ injections \in Seq(Incidents) /\ Len(injections) <= MaxInjections
  /\ pending \subseteq Ids /\ active \subseteq Ids

InjectionType ==
  /\ state \in [Ids -> States] /\ fut \in [Ids -> Futures]
  /\ due \in [Ids -> BOOLEAN]
  /\ left \in Counters /\ passes \in Counters
  /\ credit \in Counters /\ framesOut \in Counters

EngineType ==
  /\ pc \in Places /\ waiting \in {"no", "blocked", "woken"}
  /\ visit \subseteq Ids /\ starting \in Ids \cup {NoId}
  /\ copies \in 0..MaxCopies /\ extra \in Counters

WorkerType == queue \in Seq(Ids) /\ building \in Ids \cup {NoId}

PlaceType ==
  /\ env \in 1..Phases
  /\ builtOn \in PhasesOf /\ nextOn \in PhasesOf /\ recordedOn \in PhasesOf

HistoryType ==
  /\ fed \in Counters /\ sent \in Counters
  /\ sincePause \in Nat /\ turns \in Nat /\ fresh \in BOOLEAN

TypeOK ==
  /\ ControlType /\ InjectionType /\ EngineType
  /\ WorkerType /\ PlaceType /\ HistoryType

InLoop == pc \notin {"closing", "joining", "ended"}

Over(i) == state[i] \in {"done", "failed"}

\* A pause holds the run: what still leaves before the next resume(), however
\* the pauses and the gates interleave, is what the last gate had let through
\* already. In a loop over cycles this is one frame; in a paced run the copies of
\* one item, or one injected frame; in an unpaced timed run one item and all that
\* is spliced in after it.
PauseHolds ==
  /\ mode # "unpaced" => sincePause <= MostCopies
  /\ turns <= 1

\* No TCP session is cut short: an injection whose time is up, or whose next
\* build failed, has put all frames of each pass it began into the send loop,
\* none left out and none twice (control.py: "The incident pass in flight when
\* the time is up is finished").
WholePasses ==
  \A i \in Ids :
    InLoop /\ Over(i) => sent[i] + extra[i] = passes[i] * PassLen

\* An injection never takes more than its ratio of the wire: over any number
\* of passes, whatever credit the ends of passes leave unused, it hands out
\* one frame plus ratio / (1 - ratio) per base frame.
ShareBounded ==
  \A i \in Ids : framesOut[i] * Unit <= Unit + Gain[i] * fed[i]

\* The next pass of an active injection is always on its way through the
\* worker: no failure, cancellation or second injection loses it, or the
\* injection would stay active without ever sending again.
NextPassComing ==
  \A i \in active : InLoop =>
    /\ fut[i] \notin {"none", "cancelled"}
    /\ fut[i] = "queued" => \E k \in 1..Len(queue) : queue[k] = i
    /\ fut[i] = "building" => building = i

\* No injection build outlives the engine thread, whatever was queued or in
\* flight when the run was stopped (RunControl.close).
NoBuildOutlivesRun == pc = "ended" => queue = <<>> /\ building = NoId

\* An injection that is over is never started again nor hands out a frame,
\* although its cancelled build may still finish.
OverIsFinal ==
  [][\A i \in Ids : Over(i) =>
        state'[i] = state[i] /\ framesOut'[i] = framesOut[i]]_vars

\* A stopped run ends, also when it is paused and nobody resumes it, or when
\* the worker is in the middle of a build.
StopEnds == stop ~> pc = "ended"

\* Every accepted injection comes to an end (done or failed) unless the run
\* ends first or stays paused for ever.
InjectionEnds ==
  []<>go => \A i \in Ids : state[i] = "pending" ~> Over(i) \/ ~InLoop

\* What inject() promises: "ValueError ... when that incident is already being
\* injected". It does not hold: an injection is in neither _pending nor
\* _active while _extras takes and starts it.
OneAtATime ==
  \A i, j \in active : injections[i] = injections[j] => i = j

\* What _build promises: a pass is addressed onto "the environment the engine
\* is sending now (a campaign phase's ...), as the manifest records it". It
\* does not hold: passes are built ahead, and the phase may change.
BuiltWhereRecorded ==
  \A i \in active : builtOn[i] = recordedOn[i]
=============================================================================
