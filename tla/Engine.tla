-------------------------------- MODULE Engine --------------------------------
(***************************************************************************)
(* One cycle-mode run: Engine._run of src/tgt/engine.py, from opening the  *)
(* outputs to the end of its finally clause, with the background build of  *)
(* the next cycle ("tgt-build") and everything that can fail on the way:   *)
(* the raw socket, the pcap file, a build, a send, a pcap write, a         *)
(* manifest write. A run with --replay takes its frames from a capture in  *)
(* place of builds: ReplaySource of src/tgt/replay.py, read pass by pass.  *)
(* The frames RunControl injects and its pause are left to that module: a  *)
(* run that is paused takes no step until it is resumed or stopped.        *)
(*                                                                         *)
(* A frame is counted where it goes: on the wire, into the pcap, into the  *)
(* recorder (the manifest's ground truth), into the stats. The pcap is a   *)
(* buffered file (PcapWriter of src/tgt/pcap.py): what was handed to it is *)
(* on the disk only once it was flushed, which happens when the buffer is  *)
(* full, about once a second, and when the file is closed.                 *)
(***************************************************************************)
EXTENDS Naturals

CONSTANTS
  Frames,      \* frames one cycle builds, frames of a capture
  Counts,      \* the values of --count tried; 0 is no bound
  Passes,      \* the values of --replay-loop tried; 0 is no bound
  Ifaces,      \* what --iface names in the runs looked at: interfaces
  MaxFrames    \* bound: frames attempted by a run without --count; it has to
               \* be stopped by then (--duration does that by itself)

ASSUME FramesAssumption == Frames \in Nat \ {0}
ASSUME CountsAssumption == Counts \subseteq Nat /\ Counts # {}
ASSUME PassesAssumption == Passes \subseteq Nat
ASSUME IfacesAssumption == Ifaces \subseteq {"none", "one", "several"}
ASSUME MaxFramesAssumption ==
  /\ MaxFrames \in Nat \ {0}
  /\ \A c \in Counts : c <= MaxFrames
  /\ \A p \in Passes : p * Frames <= MaxFrames

\* What of RunConfig decides the course of a run. record: a manifest path is
\* given. timed: --duration is. A run needs somewhere to put its frames
\* (cli._run_engine).
Configs ==
  {c \in [ifaces : Ifaces, pcap : BOOLEAN, record : BOOLEAN,
          loop : BOOLEAN, timed : BOOLEAN, count : Counts, replay : BOOLEAN,
          passes : Passes \cup {0}] :
     /\ c.ifaces # "none" \/ c.pcap
     /\ c.passes > 0 => c.replay}

VARIABLES
  cfg,
  pc, stop,
  sender, file,          \* RawSender and pcap: "none", "open" or "closed"
  recorder,              \* a Recorder for the manifest was made
  cycle, batch,          \* the cycle that is sent; the cycle its frames are of
  todo,                  \* frames of the batch the feed has yet to yield
  nxt, job,              \* the Future of the next cycle; the cycle it builds
  done,                  \* passes over the capture that are complete
  wire,                  \* frames that left on an interface
  partial,               \* history: one of them left on some of --iface only
  missed,                \* an interface has errors in Stats.per_iface
  logged,                \* frames the PcapWriter took
  kept,                  \* those of them the file on disk has
  flushFailed,           \* a flush of the pcap failed
  observed, packets, errors,
  saved,                 \* what the manifest on disk says: a count, or NoFile
  saveFailed,            \* the latest write of the manifest failed
  died,                  \* what raised the exception that ended _run, or "no"
  running, finished,     \* Stats.running, Stats.finished
  late                   \* history: a frame was attempted after the stop

sending == <<wire, partial, missed>>
capture == <<logged, kept, flushFailed>>
counters == <<sending, capture, observed, packets, errors>>
outputs == <<sender, file, recorder, saved, saveFailed>>
flags == <<died, running, finished>>
builds == <<cycle, batch, todo, nxt, job, done>>
vars == <<cfg, pc, stop, outputs, builds, counters, flags, late>>

NoFile == MaxFrames + 1   \* no manifest was written yet

Init ==
  /\ cfg \in Configs
  /\ pc = "open" /\ stop = FALSE
  /\ sender = "none" /\ file = "none" /\ recorder = FALSE
  /\ cycle = 0 /\ batch = 0 /\ todo = 0 /\ nxt = "none" /\ job = 0 /\ done = 0
  /\ wire = 0 /\ partial = FALSE /\ missed = FALSE
  /\ logged = 0 /\ kept = 0 /\ flushFailed = FALSE
  /\ observed = 0 /\ packets = 0 /\ errors = 0
  /\ saved = NoFile /\ saveFailed = FALSE
  /\ died = "no" /\ running = TRUE /\ finished = FALSE
  /\ late = FALSE

\* stop(): the API, the TUI, a signal handler.
Stop ==
  /\ ~stop /\ stop' = TRUE
  /\ UNCHANGED <<cfg, pc, outputs, builds, counters, flags, late>>

-----------------------------------------------------------------------------
(* Opening the outputs and building the first cycle.                       *)

\* An exception unwinds to the finally clause.
Raise(what) ==
  died' = what /\ pc' = "shutdown" /\ UNCHANGED <<running, finished>>

\* RawSender.open raises when no interface could be opened; its counters are the
\* run's Stats.per_iface only when it does not.
OpenSender ==
  /\ pc = "open"
  /\ \/ /\ cfg.ifaces = "none"
        /\ pc' = "file" /\ UNCHANGED <<sender, missed, errors>>
     \/ /\ cfg.ifaces # "none"
        /\ sender' = "open" /\ pc' = "file" /\ UNCHANGED errors
        /\ \/ UNCHANGED missed
           \/ cfg.ifaces = "several" /\ missed' = TRUE
     \/ /\ cfg.ifaces # "none"
        /\ UNCHANGED <<sender, missed>>
        /\ IF cfg.pcap
             THEN pc' = "file" /\ UNCHANGED errors
             ELSE pc' = "shutdown" /\ errors' = errors + 1
  /\ UNCHANGED <<cfg, stop, file, recorder, saved, saveFailed, builds, wire, partial,
                 capture, observed, packets, flags, late>>

\* PcapWriter(), which may raise, then Recorder().
OpenFile ==
  /\ pc = "file"
  /\ \/ /\ pc' = "build" /\ UNCHANGED flags
        /\ file' = IF cfg.pcap THEN "open" ELSE "none"
        /\ recorder' = cfg.record
     \/ cfg.pcap /\ Raise("open") /\ UNCHANGED <<file, recorder>>
  /\ UNCHANGED <<cfg, stop, sender, saved, saveFailed, builds, counters, late>>

\* The first cycle, or the look at the capture that is to be replayed.
FirstBuild ==
  /\ pc = "build"
  /\ \/ pc' = "cycle" /\ todo' = Frames /\ UNCHANGED flags
     \/ Raise("build") /\ UNCHANGED todo
  /\ UNCHANGED <<cfg, stop, outputs, cycle, batch, nxt, job, done, counters, late>>

-----------------------------------------------------------------------------
(* The loop over cycles and the frames of a cycle.                         *)

\* mutant: the cycle being sent is built again
SubmitsSameCycle == nxt' = "queued" /\ job' = cycle

SubmitNext == nxt' = "queued" /\ job' = cycle + 1

StartCycle ==
  /\ pc = "cycle"
  /\ IF stop
       THEN pc' = "shutdown" /\ UNCHANGED <<nxt, job>>
       ELSE /\ pc' = "feed"
            /\ IF cfg.loop /\ ~cfg.replay THEN SubmitNext ELSE UNCHANGED <<nxt, job>>
  /\ UNCHANGED <<cfg, stop, outputs, cycle, batch, todo, done, counters, flags, late>>

Exhausted == todo = 0

\* mutant: a pass more than --replay-loop
PassTooMany == cfg.passes > 0 /\ done >= cfg.passes

LastPass == cfg.passes > 0 /\ done + 1 >= cfg.passes

\* RunControl.feed: the gate lets no further frame through once stop is set. A
\* capture that has been read to its end is a pass, whose last one stops the run;
\* the reading may fail (ReplaySource.__iter__).
Feed ==
  /\ pc = "feed"
  /\ \/ /\ Exhausted
        /\ IF cfg.replay THEN done' = done + 1 /\ stop' = (stop \/ LastPass)
                          ELSE UNCHANGED <<done, stop>>
        /\ pc' = (IF ~cfg.loop \/ stop' THEN "shutdown" ELSE "next")
        /\ UNCHANGED <<todo, flags>>
     \/ /\ ~Exhausted /\ stop
        /\ pc' = "shutdown" /\ UNCHANGED <<todo, stop, done, flags>>
     \/ /\ ~Exhausted /\ ~stop
        /\ todo' = todo - 1 /\ pc' = "gate" /\ UNCHANGED <<stop, done, flags>>
     \/ cfg.replay /\ Raise("read") /\ UNCHANGED <<todo, stop, done>>
  /\ UNCHANGED <<cfg, outputs, cycle, batch, nxt, job, counters, late>>

\* The stop checks and the gate before a frame leaves, around limiter.wait.
SendGate ==
  /\ pc = "gate"
  /\ pc' = IF stop THEN "shutdown" ELSE "send"
  /\ UNCHANGED <<cfg, stop, outputs, builds, counters, flags, late>>

Attempts == packets + errors

\* mutant: a frame the interface refused is logged like any other
LogsFailure == pc' = "log"

SkipFailure == pc' = "bounds"

\* The frame left: on every interface, or some of several missed it.
Leaves ==
  /\ wire' = wire + 1
  /\ \/ UNCHANGED <<partial, missed>>
     \/ cfg.ifaces = "several" /\ partial' = TRUE /\ missed' = TRUE

\* sender.send, or nothing when the run only writes a file. It raises when the
\* frame left on no interface.
Send ==
  /\ pc = "send"
  /\ late' = stop
  /\ \/ /\ pc' = "log" /\ UNCHANGED errors
        /\ IF sender = "open" THEN Leaves ELSE UNCHANGED sending
     \/ /\ sender = "open" /\ errors' = errors + 1 /\ missed' = TRUE
        /\ SkipFailure /\ UNCHANGED <<wire, partial>>
  /\ UNCHANGED <<cfg, stop, outputs, builds, capture, observed, packets, flags>>

\* pcap.write takes the frame into the buffer; it flushes nothing, or what was
\* there before (the buffer is full), or all (the second is up). A flush that
\* fails half-way (a full disk) raises, after the frame has left: frames counted
\* long before are then still in the buffer, the one in hand is there or not.
Log ==
  /\ pc = "log"
  /\ \/ file # "open" /\ pc' = "account" /\ UNCHANGED <<flags, capture>>
     \/ /\ file = "open" /\ pc' = "account" /\ UNCHANGED <<flags, flushFailed>>
        /\ logged' = logged + 1
        /\ kept' \in {kept, logged, logged'}
     \/ /\ file = "open" /\ Raise("write") /\ flushFailed' = TRUE
        /\ logged' \in {logged, logged + 1}
        /\ kept' \in kept..logged
  /\ UNCHANGED <<cfg, stop, outputs, builds, sending, observed, packets, errors, late>>

\* recorder.observe and the stats.
Account ==
  /\ pc = "account" /\ pc' = "bounds"
  /\ packets' = packets + 1
  /\ observed' = IF recorder THEN observed + 1 ELSE observed
  /\ UNCHANGED <<cfg, stop, outputs, builds, sending, capture, errors, flags, late>>

\* _write_manifest: an OSError leaves the previous file in place.
WriteManifest ==
  \/ saved' = observed /\ saveFailed' = FALSE
  \/ saveFailed' = TRUE /\ UNCHANGED saved

\* The rewrite of the manifest every MANIFEST_INTERVAL seconds.
Rewrite ==
  /\ pc = "bounds" /\ recorder /\ saved # observed
  /\ WriteManifest
  /\ UNCHANGED <<cfg, pc, stop, sender, file, recorder, builds, counters, flags, late>>

\* mutant: --count counts the frames that left, not the attempts
CountsPackets == cfg.count > 0 /\ packets >= cfg.count

\* mutant: one frame more than --count
OneTooMany == cfg.count > 0 /\ Attempts > cfg.count

CountReached == cfg.count > 0 /\ Attempts >= cfg.count

\* --count, or at any frame --duration, ends the run.
Bounds ==
  /\ pc = "bounds"
  /\ \/ (CountReached \/ cfg.timed) /\ stop' = TRUE /\ pc' = "shutdown"
     \/ /\ ~CountReached
        /\ Attempts < MaxFrames \/ stop
        /\ UNCHANGED stop /\ pc' = "feed"
  /\ UNCHANGED <<cfg, outputs, builds, counters, flags, late>>

\* nxt.result(): waits for the build and raises what it raised. A capture is
\* read once more.
NextCycle ==
  /\ pc = "next"
  /\ cfg.replay \/ nxt \in {"built", "failed"}
  /\ cycle' = cycle + 1
  /\ nxt' = "none"
  /\ IF cfg.replay \/ nxt = "built"
       THEN /\ pc' = "cycle" /\ todo' = Frames /\ UNCHANGED flags
            /\ batch' = IF cfg.replay THEN cycle + 1 ELSE job
       ELSE Raise("build") /\ UNCHANGED <<batch, todo>>
  /\ UNCHANGED <<cfg, stop, outputs, job, done, counters, late>>

-----------------------------------------------------------------------------
(* The finally clause. pool.shutdown(wait=False) leaves the worker alone;  *)
(* control.close() waits for an injection pass in flight (RunControl).     *)

Closed(output) == IF output = "open" THEN "closed" ELSE output

\* mutant: the file is closed and what was not flushed is forgotten
DropsBuffer == UNCHANGED <<kept, flushFailed>>

\* PcapWriter.close flushes what is left; that this fails is not told to anyone.
LastFlush ==
  \/ kept' = logged /\ UNCHANGED flushFailed
  \/ kept' \in kept..logged /\ flushFailed' = TRUE

Shutdown ==
  /\ pc = "shutdown" /\ pc' = "files"
  /\ UNCHANGED <<cfg, stop, outputs, builds, counters, flags, late>>

CloseFiles ==
  /\ pc = "files" /\ pc' = "manifest"
  /\ sender' = Closed(sender) /\ file' = Closed(file)
  /\ IF file = "open" THEN LastFlush ELSE UNCHANGED <<kept, flushFailed>>
  /\ UNCHANGED <<cfg, stop, recorder, saved, saveFailed, builds, sending, logged, observed,
                 packets, errors, flags, late>>

FinalManifest ==
  /\ pc = "manifest" /\ pc' = "done"
  /\ IF recorder THEN WriteManifest ELSE UNCHANGED <<saved, saveFailed>>
  /\ UNCHANGED <<cfg, stop, sender, file, recorder, builds, counters, flags,
                 late>>

Done ==
  /\ pc = "done" /\ pc' = "ended"
  /\ running' = FALSE /\ finished' = TRUE
  /\ UNCHANGED <<cfg, stop, outputs, builds, counters, died, late>>

-----------------------------------------------------------------------------
(* The prebuild worker. It builds what is queued even after the run ended. *)

BuildStarts ==
  /\ nxt = "queued" /\ nxt' = "building"
  /\ UNCHANGED <<cfg, pc, stop, outputs, cycle, batch, todo, job, done, counters,
                 flags, late>>

BuildEnds ==
  /\ nxt = "building" /\ nxt' \in {"built", "failed"}
  /\ UNCHANGED <<cfg, pc, stop, outputs, cycle, batch, todo, job, done, counters,
                 flags, late>>

Opening == OpenSender \/ OpenFile \/ FirstBuild
Looping == StartCycle \/ Feed \/ SendGate \/ Send \/ Log \/ Account \/ Bounds \/ NextCycle
Ending == Shutdown \/ CloseFiles \/ FinalManifest \/ Done
EngineStep == Opening \/ Looping \/ Ending
WorkerStep == BuildStarts \/ BuildEnds

\* The run is over and the pool idle: nothing is left to do.
Ended == pc = "ended" /\ nxt \notin {"queued", "building"} /\ UNCHANGED vars

Next == Stop \/ EngineStep \/ WorkerStep \/ Rewrite \/ Ended

\* The threads run on; nobody is obliged to stop the run, and a manifest is
\* rewritten or not as time goes by. A run without --count or --duration may
\* sit at MaxFrames for ever: there the bound stands for "and so on".
Fairness == WF_vars(EngineStep) /\ WF_vars(WorkerStep)

Spec == Init /\ [][Next]_vars /\ Fairness

-----------------------------------------------------------------------------
(* Properties.                                                             *)

NextStates == {"none", "queued", "building", "built", "failed"}

\* The types of the engine's state (Engine.__init__, Stats, the locals of
\* _run).
TypeOK ==
  /\ cfg \in Configs
  /\ pc \in {"open", "file", "build", "cycle", "feed", "gate", "send", "log",
            "account", "bounds", "next", "shutdown", "files", "manifest",
            "done", "ended"}
  /\ {stop, recorder, saveFailed, running, finished, late, partial, missed,
    flushFailed} \subseteq BOOLEAN
  /\ {sender, file} \subseteq {"none", "open", "closed"}
  /\ died \in {"no", "open", "build", "read", "write"}
  /\ nxt \in NextStates
  /\ {cycle, batch, todo, job, done} \subseteq Nat
  /\ {wire, logged, kept, observed, packets, errors, saved} \subseteq Nat

\* A frame that left but was not counted: it is being written, or its write
\* raised.
Unaccounted == IF pc \in {"log", "account"} \/ died = "write" THEN 1 ELSE 0

\* "only frames that really left (or are file-only) count and land in the
\* pcap, so the pcap stays ground truth" (engine.py:414): wire, pcap, manifest
\* and stats tell of the same frames, but for the one being handled and the one
\* whose pcap write failed, whatever failed before; and the capture never has a
\* frame that did not leave. What of it is on the disk lags behind (kept).
GroundTruth ==
  /\ sender # "none" => wire = packets + Unaccounted
  /\ file # "none" =>
       /\ kept <= logged /\ logged <= packets + Unaccounted
       /\ died # "write" => logged = IF pc = "log" THEN packets ELSE packets + Unaccounted
  /\ recorder => observed = packets

\* However a run ended (stop, bound, a failed build, a full disk), it leaves
\* its outputs closed, the capture on disk whole, unless a flush of it failed,
\* and the manifest on disk complete, unless its last write failed; then an
\* earlier, shorter one is still there.
EndsComplete ==
  finished =>
    /\ sender # "open" /\ file # "open" /\ ~running
    /\ file # "none" /\ ~flushFailed => kept = packets
    /\ recorder /\ ~saveFailed => saved = observed
    /\ saved # NoFile => saved <= observed

\* A cycle is never sent twice and none is skipped: the frames to send are
\* only ever replaced by those of the cycle after, built in the background
\* (engine.py:390, "each cycle is rebuilt fresh"), or of the next pass.
FreshCycles ==
  [][todo' > todo => \/ batch' = batch + 1 /\ todo = 0
                     \/ packets + errors = 0 /\ batch' = 0]_vars

\* "--count bounds attempts, so a dead interface still ends" (engine.py:432),
\* and so do --duration, --replay-loop and a run of one cycle: nobody has to stop
\* them.
BoundedRunEnds ==
  (cfg.count > 0 \/ cfg.timed \/ ~cfg.loop \/ cfg.passes > 0) ~> finished

\* "--replay-loop N stops the run after N passes" (replay.py:15): a pass counts
\* only when all its frames were tried, none is begun after the last one, and the
\* last one stops the run.
ReplaysWhole ==
  cfg.replay =>
    /\ Attempts >= done * Frames
    /\ cfg.passes > 0 =>
         /\ Attempts <= cfg.passes * Frames
         /\ done >= cfg.passes => stop

\* Frames attempted so far. A run with nowhere to put them counts the failure
\* to open as an error.
Attempted ==
  IF sender = "none" /\ file = "none" THEN 0 ELSE packets + errors + Unaccounted

\* The run keeps what RunPromise promises of any run: also that stop() ends it,
\* whatever it waits for and whatever fails.
Promise == INSTANCE RunPromise WITH
  NoBound <- MaxFrames + 1,
  count <- IF cfg.count = 0 THEN MaxFrames + 1 ELSE cfg.count,
  attempted <- Attempted,
  stopping <- stop

KeepsPromise == Promise!Spec
=============================================================================
