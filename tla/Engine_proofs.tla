---------------------------- MODULE Engine_proofs ----------------------------
(***************************************************************************)
(* Proofs about Engine, and about CliRun, the process around it, for any   *)
(* cycle length, values of --count and of --replay-loop.                   *)
(*                                                                         *)
(* What the properties say of the end of a run, or of any of its moments,  *)
(* rests on what holds at each place of _run: which outputs can be open    *)
(* there (Opened), of which cycle the frames are (Cycles), how many frames *)
(* a pass over the capture has had (Replayed), whether another frame may   *)
(* leave (Allowed), and what is left to do before the end (Closing).       *)
(***************************************************************************)
EXTENDS CliRun, TLAPS

Early == {"open", "file", "build"}
Handling == {"log", "account"}                      \* a frame that has left
Over == {"shutdown", "files", "manifest", "done", "ended"}

Opened ==
  /\ pc = "open" => sender = "none"
  /\ pc \in {"open", "file"} => file = "none" /\ ~recorder
  /\ pc = "file" => cfg.pcap \/ sender = "open"
  /\ pc \notin Over => died = "no" /\ sender # "closed"
  /\ pc \notin {"manifest", "done", "ended"} => file # "closed"
  /\ pc \notin Over \cup {"open", "file"} => sender = "open" \/ file = "open"
  /\ pc \in Early => /\ wire = 0 /\ logged = 0 /\ kept = 0 /\ observed = 0
                    /\ packets = 0 /\ errors = 0

\* An interface that missed a frame has counted it as an error.
Heard == partial => missed

Closing ==
  /\ died = "write" => flushFailed
  /\ pc \in {"manifest", "done", "ended"} /\ file # "none" /\ ~flushFailed => kept = logged
  /\ pc \in {"manifest", "done", "ended"} => sender # "open" /\ file # "open"
  /\ pc \in {"done", "ended"} /\ recorder /\ ~saveFailed => saved = observed
  /\ saved # NoFile => saved <= observed
  /\ finished => pc = "ended" /\ ~running

Cycles ==
  /\ pc \notin Over => batch = cycle /\ (nxt # "none" => job = cycle + 1)
  /\ pc \in Early => cycle = 0 /\ todo = 0
  /\ pc = "next" => todo = 0

\* Frames of the passes so far that were taken from the capture.
Taken == packets + errors + (IF pc \in {"gate", "send"} \cup Handling THEN 1 ELSE 0)

Replayed ==
  cfg.replay =>
    /\ ReplaysWhole
    /\ pc \in Early => done = 0
    /\ pc = "next" => Taken = done * Frames
    /\ pc \notin Over \cup Early \cup {"next"} => Taken + todo = done * Frames + Frames
    /\ pc \notin Over /\ cfg.passes > 0 => done < cfg.passes

Allowed ==
  /\ late => stop /\ pc \in Handling \cup {"bounds", "feed"} \cup Over
  /\ cfg.count > 0 /\ pc \notin Handling \cup {"bounds"} \cup Over =>
       packets + errors < cfg.count

IInv == /\ TypeOK /\ Opened /\ Heard /\ GroundTruth /\ Closing /\ Cycles /\ Replayed
        /\ Allowed

-----------------------------------------------------------------------------
\* What the steps below need of the types.
LEMMA Types ==
  ASSUME TypeOK
  PROVE  /\ cfg.count \in Nat /\ cfg.passes \in Nat
         /\ {cfg.pcap, cfg.record, cfg.loop, cfg.timed, cfg.replay} \subseteq BOOLEAN
         /\ cfg.ifaces # "none" \/ cfg.pcap
         /\ wire \in Nat /\ logged \in Nat /\ kept \in Nat /\ observed \in Nat
         /\ packets \in Nat
         /\ errors \in Nat /\ saved \in Nat
         /\ cycle \in Nat /\ batch \in Nat /\ todo \in Nat /\ job \in Nat
         /\ done \in Nat
         /\ Frames \in Nat /\ Frames > 0
         /\ stop \in BOOLEAN /\ recorder \in BOOLEAN /\ saveFailed \in BOOLEAN
         /\ running \in BOOLEAN /\ finished \in BOOLEAN /\ late \in BOOLEAN
         /\ partial \in BOOLEAN /\ missed \in BOOLEAN /\ flushFailed \in BOOLEAN
<1>1. cfg.count \in Counts /\ cfg.passes \in Passes \cup {0}
  BY DEF TypeOK, Configs
<1>2. /\ {cfg.pcap, cfg.record, cfg.loop, cfg.timed, cfg.replay} \subseteq BOOLEAN
      /\ cfg.ifaces # "none" \/ cfg.pcap
  BY DEF TypeOK, Configs
<1>3. cfg.count \in Nat
  BY <1>1, CountsAssumption
<1>4. cfg.passes \in Nat
  <2>1. \A p \in Passes \cup {0} : p \in Nat
    BY PassesAssumption
  <2> QED
    BY <1>1, <2>1
<1>5. Frames \in Nat /\ Frames > 0
  BY FramesAssumption
<1> QED
  BY <1>2, <1>3, <1>4, <1>5 DEF TypeOK

\* A run before it opens its outputs satisfies the invariant.
LEMMA InitIInv == Init => IInv
<1>1. ASSUME Init PROVE TypeOK
  <2>1. NoFile \in Nat
    BY MaxFramesAssumption DEF NoFile
  <2>2. /\ {stop, recorder, saveFailed, running, finished, late, partial, missed,
             flushFailed} \subseteq BOOLEAN
        /\ cfg \in Configs
    BY <1>1 DEF Init
  <2>3. {cycle, batch, todo, job, done} \subseteq Nat
    BY <1>1 DEF Init
  <2>4. {wire, logged, kept, observed, packets, errors, saved} \subseteq Nat
    BY <1>1, <2>1 DEF Init
  <2>5. pc = "open" /\ sender = "none" /\ file = "none" /\ nxt = "none" /\ died = "no"
    BY <1>1 DEF Init
  <2> QED
    BY <2>2, <2>3, <2>4, <2>5 DEF TypeOK, NextStates
<1>2. Init => Opened /\ Heard /\ GroundTruth /\ Closing
  BY DEF Init, Opened, Heard, GroundTruth, Closing, Early, Over
<1>3. Init => Cycles
  BY DEF Init, Cycles, Early, Over
<1>4. ASSUME Init PROVE Replayed /\ Allowed
  <2>1. TypeOK
    BY <1>1, <1>4
  <2>2. cfg.count \in Nat /\ cfg.passes \in Nat
    BY <2>1, Types
  <2>3. 0 * Frames = 0 /\ cfg.passes * Frames \in Nat
    BY <2>2, FramesAssumption
  <2>4. ReplaysWhole
    BY <1>4, <2>2, <2>3 DEF Init, ReplaysWhole, Attempts
  <2> QED
    BY <1>4, <2>2, <2>4 DEF Init, Replayed, Allowed, Early, Over, Handling
<1> QED
  BY <1>1, <1>2, <1>3, <1>4 DEF IInv

\* Every step keeps the types.
LEMMA TypeStep ==
  ASSUME TypeOK, [Next]_vars PROVE TypeOK'
<1>1. CASE Opening
  <2>1. CASE OpenSender
    <3>1. missed' \in BOOLEAN
      BY <2>1 DEF OpenSender, TypeOK
    <3>2. errors' \in Nat /\ sender' \in {"none", "open", "closed"}
          /\ pc' \in {"file", "shutdown"}
      BY <2>1 DEF OpenSender, TypeOK
    <3> QED
      BY <2>1, <3>1, <3>2 DEF OpenSender, TypeOK, builds, capture, flags
  <2>2. CASE OpenFile \/ FirstBuild
    BY <2>2, FramesAssumption DEF OpenFile, FirstBuild, Raise, TypeOK, Configs, outputs,
       builds, counters, sending, capture, flags
  <2> QED
    BY <1>1, <2>1, <2>2 DEF Opening
<1>2. CASE StartCycle \/ Feed \/ SendGate
  <2>1. CASE StartCycle
    BY <2>1 DEF StartCycle, SubmitNext, TypeOK, NextStates, outputs, counters, flags, sending, capture
  <2>2. CASE Feed
    <3>1. todo \in Nat /\ done \in Nat /\ stop \in BOOLEAN
      BY DEF TypeOK
    <3>3. todo' \in Nat /\ done' \in Nat
      BY <2>2, <3>1 DEF Feed, Exhausted
    <3>4. stop' \in BOOLEAN
      BY <2>2, <3>1 DEF Feed
    <3>2. /\ pc' \in {"shutdown", "next", "gate"} /\ died' \in {"no", "open", "build", "read", "write"}
          /\ running' \in BOOLEAN /\ finished' \in BOOLEAN
      BY <2>2 DEF Feed, Raise, TypeOK, flags
    <3> QED
      BY <2>2, <3>2, <3>3, <3>4 DEF Feed, TypeOK, outputs, counters, sending, capture
  <2>3. CASE SendGate
    BY <2>3 DEF SendGate, TypeOK, outputs, builds, counters, flags, sending, capture
  <2> QED
    BY <1>2, <2>1, <2>2, <2>3
<1>3. CASE Send \/ Log \/ Account
  <2>1. CASE Send
    <3>1. wire' \in Nat /\ errors' \in Nat /\ pc' \in {"log", "bounds"}
      BY <2>1 DEF Send, SkipFailure, Leaves, TypeOK, sending
    <3>2. partial' \in BOOLEAN /\ missed' \in BOOLEAN
      BY <2>1 DEF Send, SkipFailure, Leaves, TypeOK, sending
    <3>3. late' \in BOOLEAN
      BY <2>1 DEF Send, TypeOK
    <3> QED
      BY <2>1, <3>1, <3>2, <3>3 DEF Send, TypeOK, outputs, builds, flags, capture
  <2>2. CASE Log
    <3>1. logged' \in Nat /\ pc' \in {"account", "shutdown"} /\ running' = running
          /\ finished' = finished /\ died' \in {died, "write"}
      BY <2>2 DEF Log, Raise, TypeOK, flags, capture
    <3>2. kept' \in Nat
      <4>1. kept \in Nat /\ logged \in Nat
        BY DEF TypeOK
      <4>2. kept' \in kept..logged \cup {kept, logged, logged'}
        BY <2>2 DEF Log, capture
      <4> QED
        BY <3>1, <4>1, <4>2
    <3>3. flushFailed' \in BOOLEAN
      BY <2>2 DEF Log, TypeOK, capture
    <3> QED
      BY <2>2, <3>1, <3>2, <3>3 DEF Log, TypeOK, outputs, builds, sending
  <2>3. CASE Account
    BY <2>3 DEF Account, TypeOK, outputs, builds, flags, sending, capture
  <2> QED
    BY <1>3, <2>1, <2>2, <2>3
<1>4. CASE Bounds \/ NextCycle
  <2>1. CASE Bounds
    BY <2>1 DEF Bounds, TypeOK, outputs, builds, counters, flags, sending, capture
  <2>2. CASE NextCycle
    <3>1. /\ todo' \in Nat /\ batch' \in Nat /\ cycle' \in Nat
          /\ pc' \in {"cycle", "shutdown"} /\ running' = running
          /\ finished' = finished /\ died' \in {died, "build"}
      BY <2>2, FramesAssumption DEF NextCycle, Raise, TypeOK, flags
    <3> QED
      BY <2>2, <3>1 DEF NextCycle, TypeOK, NextStates, outputs, counters, sending, capture
  <2> QED
    BY <1>4, <2>1, <2>2
<1>5. CASE Ending
  <2>1. CASE CloseFiles
    <3>1. kept' \in Nat
      <4>1. kept' \in kept..logged \cup {kept, logged}
        BY <2>1 DEF CloseFiles, LastFlush
      <4> QED
        BY <4>1, Types
    <3>2. flushFailed' \in BOOLEAN
      BY <2>1 DEF CloseFiles, LastFlush, TypeOK
    <3> QED
      BY <2>1, <3>1, <3>2 DEF CloseFiles, Closed, TypeOK, builds, flags, sending
  <2>2. CASE Shutdown \/ FinalManifest \/ Done
    BY <2>2 DEF Shutdown, FinalManifest, WriteManifest, Done, TypeOK, outputs, builds,
       counters, sending, capture, flags
  <2> QED
    BY <1>5, <2>1, <2>2 DEF Ending
<1>6. CASE WorkerStep \/ Stop \/ Rewrite \/ Ended \/ UNCHANGED vars
  BY <1>6 DEF WorkerStep, BuildStarts, BuildEnds, Stop, Rewrite, WriteManifest, Ended,
     TypeOK, NextStates, vars, outputs, builds, counters, sending, capture, flags
<1> QED
  BY <1>1, <1>2, <1>3, <1>4, <1>5, <1>6 DEF Next, EngineStep, Looping

\* Steps of the other threads leave the engine's own state alone.
LEMMA Elsewhere ==
  ASSUME WorkerStep \/ Stop \/ Rewrite \/ Ended \/ UNCHANGED vars
  PROVE  /\ UNCHANGED <<cfg, pc, sender, file, recorder, cycle, batch, todo, job, done,
                        counters, flags, late>>
         /\ nxt' # "none" => nxt # "none"
  BY DEF WorkerStep, BuildStarts, BuildEnds, Stop, Rewrite, Ended, vars, outputs, builds

\* Which outputs can be open where.
LEMMA OpenedStep ==
  ASSUME TypeOK, Opened, [Next]_vars PROVE Opened'
<1>1. CASE OpenSender
  <2>1. UNCHANGED <<died, file, recorder, wire, logged, kept, observed, packets>>
    BY <1>1 DEF OpenSender, capture, flags
  <2> QED
    BY <1>1, <2>1, Types DEF OpenSender, Opened, Early, Over
<1>2. CASE OpenFile
  <2>1. /\ UNCHANGED <<cfg, sender, wire, logged, kept, observed, packets, errors>>
        /\ pc = "file" /\ died = "no" /\ sender # "closed"
        /\ cfg.pcap \/ sender = "open"
        /\ wire = 0 /\ logged = 0 /\ kept = 0 /\ observed = 0 /\ packets = 0 /\ errors = 0
    BY <1>2 DEF OpenFile, Opened, Early, Over, counters, sending, capture
  <2>2. CASE pc' = "build"
    <3>1. died' = died /\ file' = (IF cfg.pcap THEN "open" ELSE "none")
      BY <1>2, <2>2 DEF OpenFile, Raise, flags
    <3>2. file' # "closed" /\ (sender = "open" \/ file' = "open")
      BY <2>1, <3>1
    <3> QED
      BY <2>1, <2>2, <3>1, <3>2 DEF Opened, Early, Over
  <2>3. CASE pc' = "shutdown"
    <3>1. file' = "none"
      BY <1>2, <2>3 DEF OpenFile, Opened
    <3> QED
      BY <2>1, <2>3, <3>1 DEF Opened, Early, Over
  <2> QED
    BY <1>2, <2>2, <2>3 DEF OpenFile, Raise
<1>3. CASE FirstBuild
  BY <1>3 DEF FirstBuild, Raise, Opened, Early, Over, outputs, counters, sending, capture,
     flags
<1>4. CASE StartCycle \/ SendGate \/ NextCycle
  BY <1>4 DEF StartCycle, SendGate, NextCycle, Raise, Opened, Early, Over, outputs,
     counters, sending, capture, flags
<1>5. CASE Feed
  BY <1>5 DEF Feed, Raise, Opened, Early, Over, outputs, counters, sending, capture, flags
<1>6. CASE Send \/ Account \/ Bounds
  <2>1. pc \in {"send", "account", "bounds"} /\ pc' \in {"log", "bounds", "feed", "shutdown"}
    BY <1>6 DEF Send, SkipFailure, Account, Bounds
  <2>2. UNCHANGED <<sender, file, died>>
    BY <1>6 DEF Send, Account, Bounds, outputs, flags
  <2> QED
    BY <2>1, <2>2 DEF Opened, Early, Over
<1>7. CASE Log
  BY <1>7 DEF Log, Raise, Opened, Early, Over, outputs, sending, flags
<1>8. CASE Ending
  BY <1>8 DEF Ending, Shutdown, CloseFiles, FinalManifest, Done, Opened, Early, Over,
     outputs, counters, sending, capture, flags
<1>9. CASE WorkerStep \/ Stop \/ Rewrite \/ Ended \/ UNCHANGED vars
  BY <1>9, Elsewhere DEF Opened, counters, sending, capture, flags
<1> QED
  BY <1>1, <1>2, <1>3, <1>4, <1>5, <1>6, <1>7, <1>8, <1>9
  DEF Next, EngineStep, Opening, Looping

\* A frame that some interfaces miss is counted by them.
LEMMA HeardStep ==
  ASSUME TypeOK, Heard, [Next]_vars PROVE Heard'
<1>1. CASE OpenSender
  <2>1. partial' = partial /\ (missed' = missed \/ missed' = TRUE)
    BY <1>1 DEF OpenSender
  <2> QED
    BY <2>1, Zenon DEF Heard
<1>2. CASE Send
  <2>1. \/ partial' = partial /\ missed' = missed
        \/ missed' = TRUE
    BY <1>2 DEF Send, Leaves, sending
  <2> QED
    BY <2>1, Zenon DEF Heard
<1>3. CASE ~OpenSender /\ ~Send
  <2>1. UNCHANGED <<partial, missed>>
    BY <1>3, Elsewhere
       DEF Next, EngineStep, Opening, OpenFile, FirstBuild, Looping, StartCycle, Feed,
       SendGate, Log, Account, Bounds, NextCycle, Ending, Shutdown, CloseFiles, FinalManifest,
       Done, counters, sending
  <2> QED
    BY <2>1, Zenon DEF Heard
<1> QED
  BY <1>1, <1>2, <1>3

\* Wire, pcap, manifest and stats go on telling of the same frames.
LEMMA TruthStep ==
  ASSUME TypeOK, Opened, GroundTruth, [Next]_vars PROVE GroundTruth'
<1>1. CASE OpenSender \/ OpenFile
  <2>1. /\ UNCHANGED <<wire, observed, packets, logged, kept>> /\ pc \in {"open", "file"}
        /\ pc' \in {"file", "shutdown", "build"} /\ died' # "write"
    BY <1>1 DEF OpenSender, OpenFile, Raise, Opened, Over, counters, sending, capture, flags
  <2>2. wire = 0 /\ observed = 0 /\ packets = 0 /\ logged = 0 /\ kept = 0
    BY <2>1 DEF Opened, Early
  <2> QED
    BY <2>1, <2>2 DEF GroundTruth, Unaccounted
<1>2. CASE Send
  <2>1. /\ UNCHANGED <<sender, file, recorder, logged, kept, observed, packets, died>>
        /\ pc = "send" /\ died = "no" /\ sender \in {"none", "open"}
    BY <1>2 DEF Send, Opened, Over, TypeOK, outputs, capture, flags
  <2>2. \/ pc' = "log" /\ wire' = (IF sender = "open" THEN wire + 1 ELSE wire)
        \/ pc' = "bounds" /\ wire' = wire
    BY <1>2 DEF Send, SkipFailure, Leaves, sending
  <2>3. Unaccounted = 0
    BY <2>1 DEF Unaccounted
  <2>4. CASE pc' = "log" /\ wire' = (IF sender = "open" THEN wire + 1 ELSE wire)
    <3>1. Unaccounted' = 1
      BY <2>4 DEF Unaccounted
    <3> QED
      BY <2>1, <2>3, <2>4, <3>1, Types DEF GroundTruth
  <2>5. CASE pc' = "bounds" /\ wire' = wire
    <3>1. Unaccounted' = 0
      BY <2>1, <2>5 DEF Unaccounted
    <3> QED
      BY <2>1, <2>3, <2>5, <3>1, Types DEF GroundTruth
  <2> QED
    BY <2>2, <2>4, <2>5
<1>3. CASE Log
  <2>1. /\ UNCHANGED <<sender, file, recorder, wire, observed, packets>>
        /\ pc = "log" /\ died = "no" /\ file \in {"none", "open"}
    BY <1>3 DEF Log, Opened, Over, TypeOK, outputs, sending
  <2>2. Unaccounted = 1 /\ packets \in Nat /\ logged \in Nat /\ kept \in Nat
    BY <2>1, Types DEF Unaccounted
  <2>3. file # "none" => kept <= logged /\ logged = packets
    BY <2>1 DEF GroundTruth
  <2>4. Unaccounted' = 1
    BY <1>3, <2>1 DEF Log, Raise, Unaccounted
  <2>5. CASE file # "open"
    <3>1. file = "none" /\ file' = "none"
      BY <2>1, <2>5
    <3> QED
      BY <2>1, <2>2, <2>4, <3>1 DEF GroundTruth
  <2>6. CASE pc' = "account" /\ file = "open"
    <3>1. died' = died /\ logged' = logged + 1 /\ kept' \in {kept, logged, logged'}
      BY <1>3, <2>6 DEF Log, Raise, flags
    <3>2. kept' <= logged' /\ logged' <= packets' + 1 /\ logged' = packets' + 1
      BY <2>1, <2>2, <2>3, <2>6, <3>1
    <3> QED
      BY <2>1, <2>2, <2>4, <2>6, <3>1, <3>2 DEF GroundTruth
  <2>7. CASE died' = "write" /\ file = "open"
    <3>1. logged' \in {logged, logged + 1} /\ kept' \in kept..logged
      BY <1>3, <2>1, <2>7 DEF Log, flags
    <3>2. kept' <= logged' /\ logged' <= packets' + 1
      BY <2>1, <2>2, <2>3, <2>7, <3>1
    <3> QED
      BY <2>1, <2>2, <2>4, <2>7, <3>2 DEF GroundTruth
  <2> QED
    BY <1>3, <2>5, <2>6, <2>7 DEF Log, Raise
<1>4. CASE Account
  <2>1. /\ UNCHANGED <<sender, file, recorder, wire, logged, kept, died>>
        /\ pc = "account" /\ pc' = "bounds" /\ died = "no" /\ packets' = packets + 1
        /\ observed' = IF recorder THEN observed + 1 ELSE observed
    BY <1>4 DEF Account, Opened, Over, outputs, sending, capture, flags
  <2>2. Unaccounted = 1 /\ Unaccounted' = 0
    BY <2>1 DEF Unaccounted
  <2> QED
    BY <2>1, <2>2, Types DEF GroundTruth
<1>5. CASE FirstBuild \/ StartCycle \/ SendGate \/ NextCycle \/ Bounds \/ Feed
  <2>1. /\ UNCHANGED <<sender, file, recorder, wire, logged, kept, observed, packets>>
        /\ pc \notin {"log", "account"} /\ pc' \notin {"log", "account"} /\ pc \notin Over
        /\ died' \in {died, "build", "read"}
    BY <1>5 DEF FirstBuild, StartCycle, SendGate, NextCycle, Bounds, Feed, Raise, outputs,
       counters, sending, capture, flags, Over
  <2>2. died = "no" /\ died' # "write"
    BY <2>1 DEF Opened
  <2>3. Unaccounted = 0 /\ Unaccounted' = 0
    BY <2>1, <2>2 DEF Unaccounted
  <2> QED
    BY <2>1, <2>2, <2>3 DEF GroundTruth
<1>6. CASE CloseFiles
  <2>1. /\ UNCHANGED <<recorder, wire, logged, observed, packets, died>>
        /\ pc = "files" /\ pc' = "manifest"
        /\ (sender' = "none" <=> sender = "none") /\ (file' = "none" <=> file = "none")
    BY <1>6 DEF CloseFiles, Closed, sending, flags
  <2>2. kept <= logged => kept' <= logged'
    BY <1>6, <2>1, Types DEF CloseFiles, LastFlush
  <2>3. Unaccounted' = Unaccounted
    BY <2>1 DEF Unaccounted
  <2> QED
    BY <2>1, <2>2, <2>3 DEF GroundTruth
<1>7. CASE Shutdown \/ FinalManifest \/ Done
  BY <1>7 DEF Shutdown, FinalManifest, Done, GroundTruth, Unaccounted, outputs, counters,
     sending, capture, flags
<1>8. CASE WorkerStep \/ Stop \/ Rewrite \/ Ended \/ UNCHANGED vars
  BY <1>8, Elsewhere DEF GroundTruth, Unaccounted, counters, sending, capture, flags
<1> QED
  BY <1>1, <1>2, <1>3, <1>4, <1>5, <1>6, <1>7, <1>8
  DEF Next, EngineStep, Opening, Looping, Ending

\* What is left to do before the end is done in its order.
LEMMA ClosingStep ==
  ASSUME TypeOK, Opened, Closing, [Next]_vars PROVE Closing'
<1>1. CASE Opening
  BY <1>1 DEF Opening, OpenSender, OpenFile, FirstBuild, Raise, Opened, Closing, Early, Over,
     outputs, counters, capture, flags, NoFile
<1>2. CASE StartCycle \/ SendGate \/ NextCycle \/ Bounds \/ Feed
  BY <1>2 DEF StartCycle, SendGate, NextCycle, Bounds, Feed, Raise, Closing, outputs,
     counters, capture, flags, NoFile
<1>3. CASE Send \/ Log \/ Account
  <2>1. /\ UNCHANGED <<saved, running, finished>>
        /\ pc \in {"send", "log", "account"} /\ pc' \in {"log", "account", "bounds", "shutdown"}
    BY <1>3 DEF Send, SkipFailure, Log, Account, Raise, outputs, flags
  <2>2. died' = "write" => flushFailed'
    BY <1>3, <2>1 DEF Send, Log, Account, Raise, Closing, Opened, Over, capture, flags
  <2>3. observed' \in {observed, observed + 1}
    BY <1>3 DEF Send, Log, Account
  <2> QED
    BY <2>1, <2>2, <2>3, Types DEF Closing, NoFile
<1>9. CASE Shutdown
  BY <1>9 DEF Shutdown, Closing, outputs, counters, capture, flags, NoFile
<1>4. CASE CloseFiles
  <2>1. /\ UNCHANGED <<recorder, saved, saveFailed, observed, logged, flags>>
        /\ pc' = "manifest" /\ pc = "files"
        /\ sender' # "open" /\ file' # "open" /\ (file' # "none" => file # "none")
    BY <1>4 DEF CloseFiles, Closed
  <2>2. /\ flushFailed => flushFailed'
        /\ file = "open" /\ ~flushFailed' => kept' = logged'
    BY <1>4, <2>1 DEF CloseFiles, LastFlush
  <2>3. file # "closed"
    BY <2>1 DEF Opened
  <2> QED
    BY <2>1, <2>2, <2>3 DEF Closing, TypeOK, flags, NoFile
<1>5. CASE FinalManifest
  BY <1>5, Types DEF FinalManifest, WriteManifest, Closing, counters, capture, flags, NoFile
<1>6. CASE Done
  BY <1>6 DEF Done, Closing, outputs, counters, capture, NoFile
<1>7. CASE Rewrite
  BY <1>7, Types DEF Rewrite, WriteManifest, Closing, counters, capture, flags, NoFile
<1>8. CASE WorkerStep \/ Stop \/ Ended \/ UNCHANGED vars
  BY <1>8 DEF WorkerStep, BuildStarts, BuildEnds, Stop, Ended, vars, Closing, outputs,
     counters, capture, flags, NoFile
<1> QED
  BY <1>1, <1>2, <1>3, <1>4, <1>5, <1>6, <1>7, <1>8, <1>9
  DEF Next, EngineStep, Looping, Ending

\* The frames are those of the cycle that is sent, the next one is built meanwhile.
LEMMA CyclesStep ==
  ASSUME TypeOK, Cycles, [Next]_vars PROVE Cycles'
<1>1. CASE Opening
  BY <1>1 DEF Opening, OpenSender, OpenFile, FirstBuild, Raise, Cycles, Early, Over, builds
<1>2. CASE StartCycle \/ Feed
  BY <1>2 DEF StartCycle, SubmitNext, Feed, Exhausted, Raise, Cycles, Early, Over
<1>3. CASE SendGate \/ Send \/ Log \/ Account \/ Bounds
  BY <1>3 DEF SendGate, Send, SkipFailure, Log, Account, Bounds, Raise, Cycles, Early, Over,
     builds
<1>4. CASE NextCycle
  BY <1>4, Types DEF NextCycle, Raise, Cycles, Early, Over
<1>5. CASE Ending
  BY <1>5 DEF Ending, Shutdown, CloseFiles, FinalManifest, Done, Cycles, Early, Over, builds
<1>6. CASE WorkerStep \/ Stop \/ Rewrite \/ Ended \/ UNCHANGED vars
  BY <1>6, Elsewhere DEF Cycles
<1> QED
  BY <1>1, <1>2, <1>3, <1>4, <1>5, <1>6 DEF Next, EngineStep, Looping

\* Another frame may leave only before the stop and within --count.
LEMMA AllowedStep ==
  ASSUME TypeOK, Opened, Allowed, [Next]_vars PROVE Allowed'
<1>1. CASE Opening
  BY <1>1, Types DEF Opening, OpenSender, OpenFile, FirstBuild, Raise, Opened, Allowed, Early,
     Over, Handling, counters
<1>2. CASE StartCycle \/ SendGate \/ NextCycle
  BY <1>2 DEF StartCycle, SendGate, NextCycle, Raise, Allowed, Over, Handling, counters
<1>3. CASE Feed
  BY <1>3 DEF Feed, Raise, Allowed, Over, Handling, counters
<1>4. CASE Send \/ Log \/ Account
  BY <1>4, Types DEF Send, SkipFailure, Log, Account, Raise, Allowed, Over, Handling
<1>5. CASE Bounds
  BY <1>5, Types DEF Bounds, CountReached, Attempts, Allowed, Over, Handling, counters
<1>6. CASE Ending
  BY <1>6 DEF Ending, Shutdown, CloseFiles, FinalManifest, Done, Allowed, Over, Handling,
     counters
<1>7. CASE WorkerStep \/ Stop \/ Rewrite \/ Ended \/ UNCHANGED vars
  BY <1>7 DEF WorkerStep, BuildStarts, BuildEnds, Stop, Rewrite, Ended, vars, Allowed, outputs,
     counters
<1> QED
  BY <1>1, <1>2, <1>3, <1>4, <1>5, <1>6, <1>7 DEF Next, EngineStep, Looping

-----------------------------------------------------------------------------
\* A pass more is a pass of frames more, and no fewer passes are no fewer frames.
LEMMA Multiples ==
  ASSUME NEW m \in Nat, NEW n \in Nat, NEW f \in Nat
  PROVE  /\ m * f \in Nat
         /\ (m + 1) * f = m * f + f
         /\ m <= n => m * f <= n * f
<1>1. m * f \in Nat /\ n * f \in Nat /\ (m + 1) * f = m * f + f
  OBVIOUS
<1>2. ASSUME m <= n PROVE m * f <= n * f
  <2>1. PICK d \in Nat : n = m + d
    BY <1>2
  <2>2. n * f = m * f + d * f /\ d * f \in Nat
    BY <2>1
  <2> QED
    BY <1>1, <2>2
<1> QED
  BY <1>1, <1>2

\* What is attempted within a pass before the last is within all passes.
LEMMA BeforeLast ==
  ASSUME NEW d \in Nat, NEW p \in Nat, NEW f \in Nat, NEW a \in Nat,
         d < p, a <= d * f + f
  PROVE  a <= p * f
<1>1. d + 1 \in Nat /\ d + 1 <= p
  OBVIOUS
<1>2. (d + 1) * f = d * f + f /\ (d + 1) * f <= p * f
  BY <1>1, Multiples
<1>3. d * f \in Nat /\ p * f \in Nat
  BY Multiples
<1> QED
  BY <1>2, <1>3

\* The bounds of a replay hold of what is attempted within its passes.
LEMMA WithinPasses ==
  ASSUME TypeOK, cfg.replay, cfg' = cfg, done' \in Nat, packets' + errors' \in Nat,
         done' * Frames <= packets' + errors',
         cfg.passes > 0 => packets' + errors' <= done' * Frames + Frames
                           /\ done' < cfg.passes
  PROVE  ReplaysWhole'
<1>1. cfg.passes \in Nat /\ Frames \in Nat
  BY Types
<1>2. ASSUME cfg.passes > 0
      PROVE  packets' + errors' <= cfg.passes * Frames /\ ~(done' >= cfg.passes)
  <2>1. done' < cfg.passes /\ packets' + errors' <= done' * Frames + Frames
    BY <1>2
  <2>2. packets' + errors' <= cfg.passes * Frames
    BY <1>1, <2>1, BeforeLast
  <2>3. \A m, n \in Nat : m < n => ~(m >= n)
    OBVIOUS
  <2> QED
    BY <1>1, <2>1, <2>2, <2>3
<1> QED
  BY <1>2 DEF ReplaysWhole, Attempts

\* The frames of a pass are taken one by one, and a pass counts with its last one.
LEMMA ReplayedStep ==
  ASSUME TypeOK, Opened, Replayed, [Next]_vars PROVE Replayed'
<1> SUFFICES ASSUME cfg.replay, cfg' = cfg PROVE Replayed'
  <2>1. cfg' = cfg
    BY DEF Next, EngineStep, Opening, OpenSender, OpenFile, FirstBuild, Looping, StartCycle,
       Feed, SendGate, Send, Log, Account, Bounds, NextCycle, Ending, Shutdown, CloseFiles,
       FinalManifest, Done, WorkerStep, BuildStarts, BuildEnds, Stop, Rewrite, Ended, vars
  <2> QED
    BY <2>1 DEF Replayed
<1>1. /\ packets \in Nat /\ errors \in Nat /\ todo \in Nat /\ done \in Nat
      /\ Frames \in Nat /\ Frames > 0 /\ cfg.passes \in Nat
      /\ done * Frames \in Nat /\ stop \in BOOLEAN
  <2>1. /\ packets \in Nat /\ errors \in Nat /\ todo \in Nat /\ done \in Nat
        /\ Frames \in Nat /\ Frames > 0 /\ cfg.passes \in Nat /\ stop \in BOOLEAN
    BY Types
  <2> QED
    BY <2>1, Multiples
<1>2. ReplaysWhole /\ done * Frames <= packets + errors
  BY DEF Replayed, ReplaysWhole, Attempts
<1>3. CASE Opening
  <2>1. packets = 0 /\ errors = 0 /\ done = 0 /\ done' = 0 /\ packets' = 0 /\ pc \in Early
        /\ errors' \in {0, 1}
    BY <1>3 DEF Opening, OpenSender, OpenFile, FirstBuild, Opened, Replayed, Early, builds,
       counters
  <2>2. done * Frames = 0
    BY <1>1, <2>1
  <2>3. cfg.passes > 0 => done < cfg.passes
    BY <2>1 DEF Replayed, Early, Over
  <2>4. ReplaysWhole'
    <3>1. done' * Frames = 0 /\ packets' + errors' \in {0, 1}
      <4>1. 0 * Frames = 0 /\ 0 + 0 = 0 /\ 0 + 1 = 1
        BY <1>1
      <4>2. errors' = 0 \/ errors' = 1
        BY <2>1
      <4> QED
        BY <2>1, <4>1, <4>2
    <3>2. packets' + errors' <= done' * Frames + Frames
      BY <1>1, <3>1
    <3>3. done' \in Nat /\ packets' + errors' \in Nat /\ done' * Frames <= packets' + errors'
      <4>1. done' \in Nat
        BY <2>1
      <4>2. packets' + errors' \in Nat /\ 0 <= packets' + errors'
        BY <3>1
      <4> QED
        BY <3>1, <4>1, <4>2
    <3>4. cfg.passes > 0 => packets' + errors' <= done' * Frames + Frames
                            /\ done' < cfg.passes
      BY <2>1, <2>3, <3>2
    <3> QED
      BY <3>3, <3>4, WithinPasses
  <2>5. CASE pc' \in Over \cup Early
    BY <2>1, <2>3, <2>4, <2>5 DEF Replayed, Early, Over
  <2>6. CASE pc' \notin Over \cup Early
    <3>1. pc' = "cycle" /\ todo' = Frames /\ errors' = 0
      BY <1>3, <2>1, <2>6 DEF Opening, OpenSender, OpenFile, FirstBuild, Raise, Early, Over,
         counters
    <3> QED
      BY <1>1, <2>1, <2>2, <2>3, <2>4, <3>1 DEF Replayed, Taken, Early, Over, Handling
  <2> QED
    BY <2>5, <2>6
<1>4. CASE Feed
  <2>1. pc = "feed" /\ UNCHANGED <<packets, errors>> /\ packets + errors + todo = done * Frames + Frames
        /\ (cfg.passes > 0 => done < cfg.passes)
    BY <1>1, <1>4 DEF Feed, Replayed, Taken, Early, Over, Handling, counters
  <2>2. CASE done' = done
    <3>1. stop' = stop /\ \/ pc' = "shutdown"
                          \/ pc' = "gate" /\ todo' = todo - 1 /\ todo # 0
      BY <1>1, <1>4, <2>2 DEF Feed, Exhausted, Raise
    <3>2. ReplaysWhole'
      BY <1>1, <1>2, <2>1, <2>2, WithinPasses
    <3> QED
      BY <1>1, <2>1, <2>2, <3>1, <3>2 DEF Replayed, Taken, Early, Over, Handling
  <2>3. CASE done' # done
    <3>1. /\ todo = 0 /\ done' = done + 1 /\ todo' = todo
          /\ stop' = (stop \/ LastPass)
          /\ pc' = IF ~cfg.loop \/ stop' THEN "shutdown" ELSE "next"
      <4>1. todo = 0 /\ todo' = todo
        BY <1>4, <2>3 DEF Feed, Exhausted
      <4>2. done' = done + 1 /\ stop' = (stop \/ LastPass)
        BY <1>4, <2>3 DEF Feed
      <4>3. pc' = IF ~cfg.loop \/ stop' THEN "shutdown" ELSE "next"
        BY <1>4, <2>3 DEF Feed
      <4> QED
        BY <4>1, <4>2, <4>3
    <3>7. pc' \in {"shutdown", "next"}
      BY <3>1
    <3>2. done' * Frames = done * Frames + Frames /\ done' * Frames \in Nat
      BY <1>1, <3>1, Multiples
    <3>3. packets' + errors' = done' * Frames
      BY <1>1, <2>1, <3>1, <3>2
    <3>4. cfg.passes > 0 => stop' \/ done' < cfg.passes
      <4>1. cfg.passes > 0 => LastPass \/ done' < cfg.passes
        BY <1>1, <3>1 DEF LastPass
      <4>2. LastPass => stop'
        BY <3>1
      <4> QED
        BY <4>1, <4>2
    <3>8. pc' = "next" => ~stop'
      BY <3>1
    <3>5. cfg.passes > 0 => packets' + errors' <= cfg.passes * Frames
      <4>1. ASSUME cfg.passes > 0 PROVE done' <= cfg.passes
        BY <1>1, <2>1, <3>1, <4>1
      <4> QED
        BY <1>1, <3>1, <3>3, <4>1, Multiples
    <3>6. ReplaysWhole'
      <4>1. cfg.passes > 0 /\ done' >= cfg.passes => stop'
        BY <1>1, <3>1, <3>4
      <4> QED
        BY <1>1, <3>1, <3>2, <3>3, <3>5, <4>1 DEF ReplaysWhole, Attempts
    <3>9. pc' = "next" => Taken' = done' * Frames
      BY <1>1, <2>1, <3>2, <3>3 DEF Taken, Handling
    <3>10. pc' = "next" /\ cfg.passes > 0 => done' < cfg.passes
      BY <3>4, <3>8
    <3> QED
      BY <3>6, <3>7, <3>9, <3>10 DEF Replayed, Early, Over
  <2> QED
    BY <2>2, <2>3
<1>5. CASE NextCycle
  <2>1. /\ pc = "next" /\ pc' = "cycle" /\ todo' = Frames
        /\ UNCHANGED <<packets, errors, done, stop>>
    BY <1>5 DEF NextCycle, counters
  <2>2. packets + errors = done * Frames /\ (cfg.passes > 0 => done < cfg.passes)
    BY <1>1, <2>1 DEF Replayed, Taken, Early, Over, Handling
  <2>3. ReplaysWhole'
    BY <1>1, <2>1, <2>2, WithinPasses
  <2> QED
    BY <1>1, <2>1, <2>2, <2>3 DEF Replayed, Taken, Early, Over, Handling
<1>6. CASE StartCycle \/ SendGate \/ Send \/ Log \/ Account \/ Bounds
  <2>1. UNCHANGED <<done, todo>> /\ pc \notin Over \cup Early \cup {"next"}
    BY <1>6 DEF StartCycle, SendGate, Send, Log, Account, Bounds, builds, Over, Early
  <2>2. Taken + todo = done * Frames + Frames /\ (cfg.passes > 0 => done < cfg.passes)
    BY <2>1 DEF Replayed
  <2>3. \/ pc' \in Over /\ UNCHANGED <<packets, errors>>
        \/ pc' \notin Over \cup Early \cup {"next"} /\ Taken' = Taken
    <3>1. CASE StartCycle \/ SendGate \/ Bounds
      BY <3>1 DEF StartCycle, SendGate, Bounds, Taken, Handling, Over, Early, counters
    <3>2. CASE Send
      BY <1>1, <3>2 DEF Send, SkipFailure, Taken, Handling, Over, Early
    <3>3. CASE Log
      BY <3>3 DEF Log, Raise, Taken, Handling, Over, Early
    <3>4. CASE Account
      BY <1>1, <3>4 DEF Account, Taken, Handling, Over, Early
    <3> QED
      BY <1>6, <3>1, <3>2, <3>3, <3>4
  <2>4. /\ packets' + errors' \in Nat /\ packets' + errors' >= packets + errors
        /\ packets' + errors' <= Taken
    <3>1. CASE StartCycle \/ SendGate \/ Log \/ Bounds
      BY <1>1, <3>1 DEF StartCycle, SendGate, Log, Bounds, Taken, counters
    <3>2. CASE Send
      BY <1>1, <3>2 DEF Send, SkipFailure, Taken
    <3>3. CASE Account
      BY <1>1, <3>3 DEF Account, Taken, Handling
    <3> QED
      BY <1>6, <3>1, <3>2, <3>3
  <2>5. Taken \in Nat /\ Taken <= done * Frames + Frames
    BY <1>1, <2>2 DEF Taken
  <2>6. ReplaysWhole'
    BY <1>1, <1>2, <2>1, <2>2, <2>4, <2>5, WithinPasses
  <2> QED
    BY <2>1, <2>2, <2>3, <2>6 DEF Replayed, Over, Early
<1>7. CASE Ending \/ WorkerStep \/ Stop \/ Rewrite \/ Ended \/ UNCHANGED vars
  <2>1. /\ UNCHANGED <<packets, errors, done, todo>> /\ stop' \in {stop, TRUE}
        /\ pc' = pc \/ pc' \in Over
    BY <1>7, Elsewhere DEF Ending, Shutdown, CloseFiles, FinalManifest, Done, WorkerStep,
       BuildStarts, BuildEnds, Stop, Rewrite, Ended, vars, builds, counters, Over
  <2>2. ReplaysWhole'
    <3>1. stop => stop'
      BY <2>1
    <3> QED
      BY <1>2, <2>1, <3>1 DEF ReplaysWhole, Attempts
  <2> QED
    BY <2>1, <2>2 DEF Replayed, Taken, Over, Early
<1> QED
  BY <1>3, <1>4, <1>5, <1>6, <1>7 DEF Next, EngineStep, Looping

LEMMA IInvStep == IInv /\ [Next]_vars => IInv'
  BY TypeStep, OpenedStep, HeardStep, TruthStep, ClosingStep, CyclesStep, ReplayedStep, AllowedStep
  DEF IInv

-----------------------------------------------------------------------------
\* The engine's state keeps its types (Engine.__init__, the locals of _run).
THEOREM TypeCorrect == Spec => []TypeOK
  BY InitIInv, IInvStep, PTL DEF Spec, IInv

\* Wire, pcap, manifest and stats tell of the same frames, whatever fails
\* (Engine._run: engine.py:414).
THEOREM TruthCorrect == Spec => []GroundTruth
  BY InitIInv, IInvStep, PTL DEF Spec, IInv

\* What there is to say of the end follows from the rest: a capture that was
\* flushed has the frames it took, which are the frames counted.
LEMMA EndsWhole ==
  ASSUME TypeOK, GroundTruth, Closing PROVE EndsComplete
<1>1. ASSUME finished, file # "none", ~flushFailed PROVE kept = packets
  <2>1. pc = "ended" /\ died # "write" /\ kept = logged
    BY <1>1 DEF Closing
  <2>2. Unaccounted = 0
    BY <2>1 DEF Unaccounted
  <2> QED
    BY <1>1, <2>1, <2>2, Types DEF GroundTruth
<1> QED
  BY <1>1 DEF Closing, EndsComplete

\* However a run ends, its outputs are closed, its capture is whole or a flush of it
\* failed, and its manifest is complete or the last write of it failed (the finally
\* clause of Engine._run, PcapWriter.close).
THEOREM EndsCorrect == Spec => []EndsComplete
<1>1. IInv => EndsComplete
  BY EndsWhole DEF IInv
<1> QED
  BY InitIInv, IInvStep, <1>1, PTL DEF Spec

\* A replay sends whole passes of its capture and not one frame more than asked
\* for, for any length of the capture (ReplaySource.__iter__).
THEOREM ReplaysCorrect == Spec => []ReplaysWhole
<1>1. IInv => ReplaysWhole
  BY DEF IInv, Replayed, ReplaysWhole
<1> QED
  BY InitIInv, IInvStep, <1>1, PTL DEF Spec

\* No cycle is sent twice and none is skipped (Engine._run: engine.py:390-448).
THEOREM CyclesCorrect == Spec => FreshCycles
<1>1. ASSUME IInv, [Next]_vars, todo' > todo
      PROVE  \/ batch' = batch + 1 /\ todo = 0
             \/ packets + errors = 0 /\ batch' = 0
  <2>1. todo \in Nat /\ todo # todo' /\ ~(todo - 1 > todo)
    <3>1. todo \in Nat
      BY <1>1, Types DEF IInv
    <3>2. \A n \in Nat : ~(n > n) /\ ~(n - 1 > n)
      OBVIOUS
    <3> QED
      BY <1>1, <3>1, <3>2
  <2>2. FirstBuild \/ NextCycle
    BY <1>1, <2>1 DEF Next, EngineStep, Opening, OpenSender, OpenFile, Looping, StartCycle, Feed,
       SendGate, Send, Log, Account, Bounds, Ending, Shutdown, CloseFiles, FinalManifest, Done,
       WorkerStep, BuildStarts, BuildEnds, Stop, Rewrite, Ended, vars, builds
  <2>3. CASE FirstBuild
    BY <1>1, <2>3 DEF FirstBuild, IInv, Cycles, Opened, Early, Over
  <2>4. CASE NextCycle
    BY <1>1, <2>1, <2>4 DEF NextCycle, Raise, IInv, Cycles, Over
  <2> QED
    BY <2>2, <2>3, <2>4
<1>2. IInv /\ [Next]_vars =>
        [todo' > todo => \/ batch' = batch + 1 /\ todo = 0
                         \/ packets + errors = 0 /\ batch' = 0]_vars
  BY <1>1
<1> QED
  BY InitIInv, IInvStep, <1>2, PTL DEF Spec, FreshCycles

-----------------------------------------------------------------------------
\* A run that has not begun is one that promises everything.
LEMMA PromiseInit == Init => Promise!Init
<1>1. ASSUME Init PROVE cfg.count \in Nat
  BY <1>1, InitIInv, Types DEF IInv
<1> QED
  BY <1>1, MaxFramesAssumption DEF Init, Promise!Init, Attempted

\* The number of attempts moves when a frame has left or was refused, and only then.
LEMMA AttemptsMove ==
  ASSUME IInv, [Next]_vars, ~Send PROVE Attempted' = Attempted
<1>1. CASE OpenSender \/ OpenFile
  BY <1>1 DEF IInv, OpenSender, OpenFile, Raise, Attempted, Unaccounted, Opened, Early, Over,
     counters, flags
<1>2. CASE Log
  BY <1>2 DEF IInv, Log, Raise, Attempted, Unaccounted, Opened, Over, outputs, flags
<1>3. CASE Account
  BY <1>3, Types DEF IInv, Account, Attempted, Unaccounted, Opened, Over, outputs, flags
<1>4. CASE FirstBuild \/ StartCycle \/ Feed \/ SendGate \/ Bounds \/ NextCycle
  BY <1>4 DEF IInv, FirstBuild, StartCycle, Feed, SendGate, Bounds, NextCycle, Raise, Attempted,
     Unaccounted, Opened, Over, outputs, counters, flags
<1>5. CASE Ending
  BY <1>5 DEF Ending, Shutdown, CloseFiles, Closed, FinalManifest, Done, Attempted, Unaccounted,
     outputs, counters, flags
<1>6. CASE WorkerStep \/ Stop \/ Rewrite \/ Ended \/ UNCHANGED vars
  BY <1>6, Elsewhere DEF Attempted, Unaccounted, counters, flags
<1> QED
  BY <1>1, <1>2, <1>3, <1>4, <1>5, <1>6 DEF Next, EngineStep, Opening, Looping

\* A frame that is sent or refused is an attempt the promise allows.
LEMMA SendAttempts ==
  ASSUME IInv, Send PROVE Promise!Attempt
<1>1. /\ pc = "send" /\ died = "no" /\ late' = stop /\ ~late /\ ~finished
      /\ sender = "open" \/ file = "open"
      /\ UNCHANGED <<cfg, stop, sender, file, packets, finished, died>>
  BY DEF Send, IInv, Opened, Allowed, Closing, Over, Early, Handling, outputs, flags
<1>2. /\ cfg.count \in Nat /\ packets \in Nat /\ errors \in Nat
      /\ cfg.count > 0 => packets + errors < cfg.count
  BY <1>1, Types DEF IInv, Allowed, Over, Handling
<1>3. Attempted = packets + errors /\ Attempted' = packets + errors + 1
  BY <1>1, <1>2 DEF Send, SkipFailure, Attempted, Unaccounted
<1>4. cfg.count # 0 => Attempted < cfg.count
  BY <1>2, <1>3
<1> QED
  BY <1>1, <1>3, <1>4 DEF Promise!Attempt

\* Every step of the engine is one the promise allows, or none of its business.
LEMMA PromiseStep ==
  ASSUME IInv, [Next]_vars PROVE [Promise!Next]_(Promise!vars)
<1>1. CASE Send
  BY <1>1, SendAttempts DEF Promise!Next
<1>2. CASE ~Send
  <2>1. cfg' = cfg /\ Attempted' = Attempted
    BY <1>2, AttemptsMove
       DEF Next, EngineStep, Opening, OpenSender, OpenFile, FirstBuild, Looping, StartCycle,
       Feed, SendGate, Log, Account, Bounds, NextCycle, Ending, Shutdown, CloseFiles,
       FinalManifest, Done, WorkerStep, BuildStarts, BuildEnds, Stop, Rewrite, Ended, vars
  <2>2. late' = late
    BY <1>2
       DEF Next, EngineStep, Opening, OpenSender, OpenFile, FirstBuild, Looping, StartCycle,
       Feed, SendGate, Log, Account, Bounds, NextCycle, Ending, Shutdown, CloseFiles,
       FinalManifest, Done, WorkerStep, BuildStarts, BuildEnds, Stop, Rewrite, Ended, vars
  <2>3. \/ stop' = stop /\ finished' = finished
        \/ stop' = TRUE /\ finished' = finished
        \/ stop' = stop /\ finished' = TRUE
    <3>1. CASE Opening
      BY <3>1 DEF Opening, OpenSender, OpenFile, FirstBuild, Raise, flags
    <3>2. CASE StartCycle \/ SendGate \/ Log \/ Account \/ NextCycle \/ Ending
      BY <3>2 DEF StartCycle, SendGate, Log, Account, NextCycle, Ending, Shutdown, CloseFiles,
         FinalManifest, Done, Raise, flags
    <3>3. CASE Feed \/ Bounds
      <4>1. finished' = finished
        BY <3>3 DEF Feed, Bounds, Raise, flags
      <4>2. stop' = stop \/ stop' = TRUE
        <5>1. CASE Bounds
          BY <5>1 DEF Bounds
        <5>2. CASE Feed
          <6>1. stop' = stop \/ stop' = (stop \/ LastPass)
            BY <5>2 DEF Feed
          <6>2. stop \in BOOLEAN
            BY Types DEF IInv
          <6> QED
            BY <6>1, <6>2
        <5> QED
          BY <3>3, <5>1, <5>2
      <4> QED
        BY <4>1, <4>2
    <3>4. CASE WorkerStep \/ Stop \/ Rewrite \/ Ended \/ UNCHANGED vars
      BY <3>4 DEF WorkerStep, BuildStarts, BuildEnds, Stop, Rewrite, Ended, vars, flags
    <3> QED
      BY <1>2, <3>1, <3>2, <3>3, <3>4 DEF Next, EngineStep, Looping
  <2> QED
    BY <2>1, <2>2, <2>3 DEF Promise!Next, Promise!RequestStop, Promise!Finish, Promise!vars
<1> QED
  BY <1>1, <1>2

\* The engine implements RunPromise, but for its liveness: at most --count frames
\* are attempted, at most one after the stop, none after the end (Engine._run).
THEOREM PromiseCorrect == Spec => Promise!Init /\ [][Promise!Next]_(Promise!vars)
  BY InitIInv, IInvStep, PromiseInit, PromiseStep, PTL DEF Spec

-----------------------------------------------------------------------------
(* The process (CliRun). To the engine a signal is a stop like any other,  *)
(* and what the main thread does is none of its business: all that holds of*)
(* an engine holds of the engine of a process.                             *)

MainTypes ==
  /\ main \in {"poll", "join", "joinAgain", "summary", "exit", "exited"}
  /\ timedOut \in BOOLEAN

\* The engine has set Stats.finished by the time its thread is over.
EndIsFinished == pc = "ended" => finished

\* Unless the join gave up, the main thread prints and leaves after the engine, and
\* what it printed is what the engine had counted when it ended.
Awaited ==
  /\ main \in {"poll", "join", "joinAgain", "summary"} => told = NotTold
  /\ main \in {"summary", "exit", "exited"} /\ ~timedOut =>
       /\ pc = "ended"
       /\ told # NotTold =>
            told = [packets |-> packets, status |-> IF NoErrors THEN 0 ELSE 1]

CliIInv == IInv /\ MainTypes /\ EndIsFinished /\ Awaited

\* A step of the process is one of its engine, or none of its engine's.
LEMMA EngineMoves ==
  ASSUME TypeOK, [CliNext]_allVars PROVE [Next]_vars
<1>1. CASE Signal \/ Interrupt
  <2>1. /\ stop' = TRUE \/ stop' = stop
        /\ UNCHANGED <<cfg, pc, outputs, builds, counters, flags, late>>
    BY <1>1 DEF Signal, OnSignal, Interrupt, OnInterrupt
  <2>2. CASE stop' = stop
    BY <2>1, <2>2 DEF vars
  <2>3. CASE stop' = TRUE /\ stop' # stop
    <3>1. ~stop
      BY <2>3, Types
    <3> QED
      BY <2>1, <2>3, <3>1 DEF Next, Stop
  <2> QED
    BY <2>1, <2>2, <2>3
<1>2. CASE MainStep \/ Exited \/ UNCHANGED allVars
  BY <1>2 DEF MainStep, Poll, Joined, Summary, Exit, Exited, allVars
<1>3. CASE Threads(EngineStep) \/ Threads(WorkerStep) \/ Threads(Rewrite)
  BY <1>3 DEF Threads, Next
<1> QED
  BY <1>1, <1>2, <1>3 DEF CliNext

\* Nothing the engine of a process does is seen by the main thread, and nothing is
\* counted once it has ended.
LEMMA EndIsQuiet ==
  ASSUME TypeOK, EngineStep \/ WorkerStep \/ Rewrite, pc = "ended"
  PROVE  pc' = pc /\ finished' = finished /\ UNCHANGED counters
<1>1. ~EngineStep /\ ~Rewrite
  BY DEF EngineStep, Opening, OpenSender, OpenFile, FirstBuild, Looping, StartCycle, Feed,
     SendGate, Send, Log, Account, Bounds, NextCycle, Ending, Shutdown, CloseFiles,
     FinalManifest, Done, Rewrite
<1> QED
  BY <1>1 DEF WorkerStep, BuildStarts, BuildEnds, flags

\* The thread of an engine that ends has said so before.
LEMMA EndStep ==
  ASSUME EndIsFinished, [CliNext]_allVars PROVE EndIsFinished'
<1>1. CASE Signal \/ Interrupt \/ MainStep \/ Exited \/ UNCHANGED allVars
  <2>1. pc' = pc /\ finished' = finished
    BY <1>1 DEF Signal, Interrupt, MainStep, Poll, Joined, Summary, Exit, Exited, allVars, vars,
       flags
  <2> QED
    BY <2>1 DEF EndIsFinished
<1>2. CASE Threads(EngineStep)
  BY <1>2 DEF Threads, EngineStep, Opening, OpenSender, OpenFile, FirstBuild, Looping, StartCycle,
     Feed, SendGate, Send, SkipFailure, Log, Account, Bounds, NextCycle, Ending, Shutdown,
     CloseFiles, FinalManifest, Done, Raise, EndIsFinished
<1>3. CASE Threads(WorkerStep) \/ Threads(Rewrite)
  <2>1. pc' = pc /\ finished' = finished
    BY <1>3 DEF Threads, WorkerStep, BuildStarts, BuildEnds, Rewrite, flags
  <2> QED
    BY <2>1 DEF EndIsFinished
<1> QED
  BY <1>1, <1>2, <1>3 DEF CliNext

\* The main thread waits for the end, or says that it did not.
LEMMA AwaitedStep ==
  ASSUME TypeOK, MainTypes, Awaited, [CliNext]_allVars PROVE MainTypes' /\ Awaited'
<1>1. CASE Signal \/ Interrupt
  <2>1. UNCHANGED <<pc, packets, told>> /\ NoErrors' = NoErrors
    BY <1>1 DEF Signal, Interrupt, NoErrors, counters, sending
  <2>2. CASE Signal
    BY <2>1, <2>2 DEF Signal, MainTypes, Awaited
  <2>3. CASE Interrupt
    BY <2>1, <2>3 DEF Interrupt, OnInterrupt, MainTypes, Awaited, Alive
  <2> QED
    BY <1>1, <2>2, <2>3
<1>2. CASE MainStep
  <2>1. UNCHANGED <<pc, packets>> /\ NoErrors' = NoErrors
    BY <1>2 DEF MainStep, Poll, Joined, Summary, Exit, NoErrors, vars, counters, sending
  <2>2. CASE Poll
    BY <2>1, <2>2 DEF Poll, AfterSignal, Alive, MainTypes, Awaited
  <2>3. CASE Joined
    BY <2>1, <2>3 DEF Joined, Alive, MainTypes, Awaited
  <2>4. CASE Summary
    BY <2>1, <2>4 DEF Summary, NoErrors, MainTypes, Awaited
  <2>5. CASE Exit
    BY <2>1, <2>5 DEF Exit, MainTypes, Awaited
  <2> QED
    BY <1>2, <2>2, <2>3, <2>4, <2>5 DEF MainStep
<1>3. CASE Exited \/ UNCHANGED allVars
  BY <1>3 DEF Exited, allVars, process, vars, counters, sending, NoErrors, MainTypes, Awaited
<1>4. CASE Threads(EngineStep) \/ Threads(WorkerStep) \/ Threads(Rewrite)
  <2>1. UNCHANGED <<main, timedOut, told>>
    BY <1>4 DEF Threads, process
  <2>2. pc = "ended" => pc' = pc /\ packets' = packets /\ NoErrors' = NoErrors
    BY <1>4, EndIsQuiet DEF Threads, NoErrors, counters, sending
  <2> QED
    BY <2>1, <2>2 DEF MainTypes, Awaited
<1> QED
  BY <1>1, <1>2, <1>3, <1>4 DEF CliNext

LEMMA CliInitIInv == CliInit => CliIInv
  BY InitIInv DEF CliInit, CliIInv, MainTypes, EndIsFinished, Awaited, Init

LEMMA CliStep == CliIInv /\ [CliNext]_allVars => CliIInv'
<1>1. IInv => TypeOK
  BY DEF IInv
<1> QED
  BY <1>1, EngineMoves, IInvStep, EndStep, AwaitedStep DEF CliIInv

\* The engine in a process is an engine: it does nothing an Engine cannot do, so
\* what is proved of every run above holds of the run of `tgt run`, whatever
\* signals arrive (cli._run_engine around Engine._run).
THEOREM ProcessRunsEngine == CliSpec => Init /\ [][Next]_vars
<1>1. CliInit => Init
  BY DEF CliInit
<1>2. CliIInv /\ [CliNext]_allVars => [Next]_vars
  BY EngineMoves DEF CliIInv, IInv
<1> QED
  BY <1>1, <1>2, CliInitIInv, CliStep, PTL DEF CliSpec

\* A process that did not give up waiting leaves everything on disk, tells the final
\* count, and exits with 0 only if every frame it tried left on every interface
\* (cli._run_engine).
THEOREM ExitsCorrect == CliSpec => []ExitsComplete
<1>1. CliIInv => ExitsComplete
  <2> SUFFICES ASSUME CliIInv, main = "exited", ~timedOut
               PROVE  /\ EndsComplete /\ finished
                      /\ told # NotTold =>
                           /\ told.packets = packets
                           /\ told.status = 0 /\ sender # "none" =>
                                wire = Attempts + Unaccounted /\ ~partial
    BY DEF ExitsComplete
  <2>1. EndsComplete /\ finished
    BY EndsWhole DEF CliIInv, IInv, EndIsFinished, Awaited
  <2>2. ASSUME told # NotTold
        PROVE  /\ told.packets = packets
               /\ told.status = 0 => errors = 0 /\ ~missed
    <3>1. told = [packets |-> packets, status |-> IF NoErrors THEN 0 ELSE 1]
      BY <2>2 DEF CliIInv, Awaited
    <3>2. told.packets = packets /\ (told.status = 0 => NoErrors)
      BY <3>1
    <3> QED
      BY <3>2 DEF NoErrors
  <2>3. ASSUME told # NotTold, told.status = 0, sender # "none"
        PROVE  wire = Attempts + Unaccounted /\ ~partial
    <3>1. errors = 0 /\ ~missed
      BY <2>2, <2>3
    <3>2. wire = packets + Unaccounted
      BY <2>3 DEF CliIInv, IInv, GroundTruth
    <3>3. packets + errors = packets
      BY <3>1, Types DEF CliIInv, IInv
    <3> QED
      BY <3>1, <3>2, <3>3 DEF CliIInv, IInv, Heard, Attempts
  <2> QED
    BY <2>1, <2>2, <2>3
<1> QED
  BY <1>1, CliInitIInv, CliStep, PTL DEF CliSpec
=============================================================================
