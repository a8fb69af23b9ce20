# TLA+ models of the Traffic Generation Toolkit

The toolkit (`src/tgt`) builds industrial and enterprise network traffic and
sends it to interfaces, into a pcap, or both, while it can be paused, re-paced,
stopped and given attack traffic to inject; it writes down what it sent, and a
monitor's findings are scored against that. This directory models the parts of
it where an order of things decides: the engine thread, the threads around it,
the files and interfaces it fills; the conversations that are pieced together
from many builds; and the phases of a campaign, from the plan over the frames to
the manifest and its score. The bytes of frames are left out.

## The system and its parts

| part | state | operations | meets |
|---|---|---|---|
| engine (`engine.py`) | stop event, outputs, current batch, Future of the next, counters | `start`, `stop`, `join`, `_run`, `_run_timed`, `_write_manifest`; `_build_cycle`, `_sprinkle` | pulls frames through the live control, hands them to sender, pcap and recorder |
| live control (`control.py`) | `_go` event, pending and active injections, worker pool | `pause`, `resume`, `set_rate`, `inject`; `gate`, `feed`, `close` for the engine | called by API and TUI threads, by the engine thread; its worker builds passes |
| `tgt run` (`cli.py`) | signals caught | `_run_engine`, `_on_signal` | starts, polls, stops and joins the engine |
| sender (`sender.py`) | a socket, retry time and counters per interface; the rate limiter | `open`, `send`, `close`; `wait`, `set_rate` | the kernel's interfaces, which others change |
| timed scheduler (`schedule.py`, `timing.py`) | streams, two heaps, open persistent connections with the polls built ahead | `load`, `inject`, `run`; `Stream.occur`; `env_streams` | driven by `Engine._run_timed`, loaded per phase; calls the builders |
| builders (`packet.py`, `protocols*.py`, `tls.py`) | one build context and port allocator per process, a lock | `PROFILES[key].build`, `begin_build`, `isolated_build` | prebuild worker, injection worker, engine thread |
| incidents (`incidents.py`) | tables | `ATTACKS[what]`, `Incident.build`, `map_onto`, `unmapped_hosts` | engine, scheduler, recorder: all three place an incident's hosts by it |
| recorder (`manifest.py`) | indexes of addresses and flows; assets, flows, events, phases | `observe`, `campaign`, `begin_phase`, `end_phase`, `to_dict`, `write` | engine thread writes, API threads read |
| pcap writer (`pcap.py`) | open file, time of the last flush | `write`, `flush`, `close` | engine thread |
| control API (`api.py`), TUI (`tui.py`) | none of their own | start, stop, pause, resume, rate, inject, status | live control, engine |
| campaigns (`campaign.py`) | phases with environment, offline hosts, sprinkles | `build`, `_apply`, `_diff`, `_events`, `union_env` | scheduler, recorder |
| replay (`replay.py`, `pcapread.py`, `rewrite.py`, `remapenv.py`) | position, passes done, address maps | iteration, `apply` | engine, in place of a batch |
| environments, inventory (`enterprise.py`, `envfile.py`, `inventory.py`) | tables | lookup, `from_dict`, `new_assets` | campaigns, builders, recorder |
| score, bench (`score.py`, `bench.py`) | reports, sub-processes | `match_assets`, `score`, `detections`, `perfect_export` | the manifest of a run, a monitor's export |
| interfaces, service (`net.py`, `service.py`, `scripts/`) | interfaces of the kernel, a pid file | create, delete, start, stop | the kernel, systemd |

What is hard here: three to five threads share the run; a pause, a stop, a
deadline or a failing build can fall between any two steps; interfaces vanish
under the sender; the disk fills up; a phase of a campaign ends while frames of
it are still queued or being built; a process leaves while its threads work. A
conversation is cut out of builds that know nothing of each other, by a table
with two numbers per protocol. The manifest is told nothing but frames: it
finds out who sent them by addresses that a campaign moves about.
`PROJECT.json` lists these hazards at their lines, with the properties that
stand for each.

## The modules

| module | models | state and actions in the code |
|---|---|---|
| `RunControl` | `RunControl` and the gates of the send loops | one action per call of a control thread (each holds the lock), per step of `_extras` (which does not), per gate, per frame sent, per step of the worker; `mode` says which gates the loop has |
| `RunPromise` | what a run promises, whatever fails | abstract: stop requests, attempts, the finish |
| `Engine` | `Engine._run` in cycle mode, with builds or with the passes of a replay | `pc` is the place in `_run`; every call that can fail has an outcome that fails; of the frames written to the pcap `kept` are on the disk, the others in the buffer |
| `CliRun` | `cli._run_engine` around an `Engine` | the main thread's poll loop, the handlers, the join that may give up at any moment, the exit |
| `FanOut` | `RawSender` over interfaces that others change | `send` is a loop of steps, one per interface, with the network acting in between |
| `Scheduler` | `Scheduler` and the loop over phases of `_run_timed` | `Load` is `load` with the injected frames of the phase, `Occur` and `Skip` are the inner loop of `run`, `Yield` its yield |
| `Connection` | the TCP side of persistent sessions of streams | an action per kind of occurrence of `_poll`, per `load` of a stream; `Ride` is the loop of `occur` with `delta` and `rewrite` |
| `Pacing` | the sleeps of `_run_timed` and who disturbs them | the loop step by step, with the clock, `pause`, `resume`, `stop` and the three steps of `set_rate` in between |
| `RateLimiter` | `RateLimiter` between its two callers | `wait` and `set_rate`, an action for each read or write of `interval`, of `_next` and of the clock, as neither takes a lock |
| `Wire` | `TcpSession`, `_tcp_flow` and what a message is | operators: exchanges, sessions, datagrams |
| `PlantBuilders`, `OfficeBuilders`, `SecureBuilders`, `AttackBuilders` | the flow builders of the `protocols*.py`, the attacks of `incidents.py` | an operator per builder, with its name; arguments are the number of messages and of the build, and what the hosts decide |
| `Builders` | the registries `PROFILES` and `ATTACKS` | the 87 profiles by key |
| `Sessions` | `Stream._poll`, `_build`, `_retry`, `exchanges()`, `PERSISTENT` over the builders | an action per kind of occurrence; `Deliver` puts the next message of an occurrence on the wire, where a monitor follows it |
| `Cycle` | `_build_cycle`, `_build_base`, `_sprinkle`, `Incident.build` | operators over the builders' frames; `Sprinkled` is checked in the initial states of `Sessions` |
| `Campaign` | `campaign.build` with `_apply`, `_diff`, `_events`, `_arrivals`, `union_env`; what `envfile.from_dict` refuses and derives | `Ask` adds a change to a phase that is being written, `BuildPhase` builds or refuses it |
| `Incidents` | `map_onto`, `unmapped_hosts` and what they go by | operators over a catalog |
| `Recorder` | `Recorder` of `manifest.py` | an operator per method, with its assignments; `EventRows` and `PhaseRows` are `to_dict` |
| `Score` | `Truth`, `match_assets`, `score`, `perfect_export`, `detections` | operators over a manifest and rows |
| `CampaignRun` | `env_streams`, `Enterprise._route`, the phase loop of `_run_timed` around the recorder | `BeginPhase`, `SendFrame`, `EndPhase`, `StopRun` |

`Engine` implements `RunPromise` (`KeepsPromise`), `CliRun` extends `Engine`
with the process. `RunControl` and `Engine` split one thread between them: the
first has the gates, the pause and the injections and leaves out the outputs,
the second has the outputs and builds. A pause is not in `Engine`, because a
paused engine takes no step until it is resumed or stopped; that both release it
is what `RunControl` shows. Injected frames are in `RunControl` only as well: those
spliced into a replay are attempts that `ReplaysWhole` and `RunPromise`'s bound do not
count. `Scheduler`, `Connection`, `Pacing` and `RateLimiter`
are timed mode from the inside out: in which order frames come, what a stream's
connection makes of them, when they leave, how fast.

`Wire`, the four modules of builders, `Builders`, `Sessions` and `Cycle` are one
chain of EXTENDS: what a builder makes is defined once, and both modes cut it up.
So are `Campaign`, `Incidents`, `Recorder` and `CampaignRun`, from the plan to the
manifest, with `Score` reading it at the end.

### Abstractions

- Where frames are counted they are never looked into; an incident, an interface
  and a stream are model values. A TCP session is its place in a pass.
- Shares of the wire are integers: `Gain / Unit` is ratio / (1 - ratio), in `Cycle`
  a ratio is a pair of integers. The code uses floats; rounding errors of these
  are not modelled, `round()` and `int()` are.
- A `Future` is its state. The worker pools are a FIFO queue and one thread,
  as `ThreadPoolExecutor(1)` is.
- A pcap's buffer is a number of frames. Any write may flush it or not, since both the
  second between two flushes and the size of the buffer are free; a flush that fails may
  have written any part of it. A frame is in the buffer, on the disk or lost, never
  torn.
- An engine has no interface, one, or several; of several a frame may miss any, which
  is all that `Engine` says of them (`FanOut` has the rest).
- Time is the order of events, except in `FanOut` (clock ticks for the retry)
  and `Scheduler` (simulated time). Intervals, jitter, day profiles and the
  sprinkle ratio are a choice among `Intervals`.
- `Scheduler` lets any of the streams due at the same time go first, where the
  code has a counter; frames keep theirs.
- `Pacing` and `RateLimiter` have a clock of integers that ticks between any two
  steps, so that a send, a build or a wake-up takes any time. `Pacing` runs at
  `--speed 1`, and a send limited by the rate is a slow one.
- In `Connection` all streams join one client with one server port, so a 4-tuple
  is the client's port: the sharpest case of a conflict. A build is its initial
  sequence numbers and its port. Lifetime and refresh fall due at any occurrence,
  where the code compares times. Sequence numbers are modulo `W`, as they are
  modulo 2^32. IP IDs, timestamps and the counters of IEC 104 are left out there;
  the counters are in `Sessions`.
- In `Wire` a message is what a monitor follows of a frame: its side, the kind of
  segment, the layer it opens, uses or closes (TCP, TLS, an association, a
  session) and the number it carries. A payload cut into segments is one message.
  In `Sessions` the scheduler's timers are choices: whether a connection's life
  is over, a refresh due or a 4-tuple taken.
- In `Campaign` a host is its name, addresses, model and firmware, a flow its ends
  and protocol. In `CampaignRun` a conversation has one frame per direction, each of
  which the streams may send at any time; a DHCP client a broadcast as well.

## The runs

Every bound is a constant of a `.cfg` or a definition of an `MC` module; every
configuration is explored in full.

| run | instance | what it shows |
|---|---|---|
| `RunControl` | a run over cycles, a paced and an unpaced timed one, with up to two copies of an item; two injections (of one or of two incidents), two frames a pass, up to two passes, shares of 3/2 and 1/2 frames per base frame | `PauseHolds`, `WholePasses`, `ShareBounded`, `NextPassComing`, `NoBuildOutlivesRun` |
| `RunControlLive` | two injections of one incident, one after the other or at once, up to two passes of one frame; over cycles, or timed and unpaced over two phases; fair threads | `StopEnds`, `InjectionEnds` |
| `RunControlDuplicate` | two injections of one incident | `OneAtATime` does not hold |
| `Engine` | every kind of run with no interface or one, two frames a cycle or capture, at most five attempts or `--count 3`, replays of two passes or without end | `GroundTruth`, `EndsComplete`, `ReplaysWhole`, `FreshCycles`, `BoundedRunEnds`, `KeepsPromise` |
| `CliRun` | no interface or several, one frame a cycle, two frames, signals and Ctrl-C anywhere | `ExitsComplete`, `SignalEndsProcess` |
| `FanOut` | two interfaces, each made at most twice, two frames, time 0..3, retry after 2 | `EveryFrameAccounted`, `Recovers` |
| `Scheduler` | two streams, two phases of two units, exchanges that last three | `OneClock`, `TimeOrdered` |
| `Connection` | a session with a lifetime, one with refreshes, a stream of short sessions; three ports, chunks of three polls sent in twos, numbers modulo 8 | `Gapless`, `TableExact`, `NoOrphanPolls` |
| `Pacing` | three phases, the second with a rate of its own, two pauses, one `set_rate`, time 0..8 | `EarlyOncePerPause`, `NeverLate`, `RateTaken` |
| `RateLimiter` | rates of one frame in 2 and in 3 units and none, a backlog of 4, six frames, time 0..9 | `RateBounded`, `HeldOneInterval` |
| `Sessions` | one stream of each of the 87 profiles and 14 attacks, six variants of hosts, one or three exchanges an occurrence, chunks of 8, four builds, a live or a dead server; cycles with a second profile, two incidents, ratios 0, 1:4 and 2:1 | `Nested`, `Counted`, `Confirmed`, `StaysPersistent`, `Sprinkled` |
| `Campaign` | three hosts in two segments; every plan of two phases and two changes out of twelve, one frame a phase, either clock, a stop anywhere | `Attributed`, `FlowsTrue`, `PhasesAddUp`, `OnlineOnly`, `Detected`, `Recognised`, `Placed`, `DiffsReplay` |

Why the bounds are enough. Two injections are the fewest that share the worker,
the two heaps of pending and active ones, and an incident; two frames a pass the
fewest that have a middle; two passes the fewest with a prefetched build that is
used. In `RunControl` the shares put bursts of two frames, and base frames
without an injected one, into one run; two copies are what a core span makes of a
frame (`enterprise.py:853-857`). `RunControlLive` leaves out the paced mode, whose waits
are those of a run over cycles. In `Engine` the third frame is the first
of the second cycle, so `--count 3` ends inside a cycle with the next one being
built, and inside the second pass of a replay. One interface and none are what the outputs
tell apart; several are in `CliRun`, where one that fails alone decides on the status,
and where neither `--count` nor a replay makes a difference to the main thread. Two interfaces let a frame leave on
one and fail on the other, and two lives of a name let a socket be bound to a dead
one. In `Scheduler` an exchange of three units outlasts the stream's next occurrence
and the phase. In `Connection` three polls in twos leave a chunk half used for a
refresh to fall into, both initial numbers wrap within a chunk, and three ports are
as many as streams, so that a build does come up with one that is held. In `Pacing`
two pauses are the fewest whose errors could add up, two frames at one time and a
gap the fewest that tell a burst from a schedule, and the third phase takes its rate
from the configuration again. In `RateLimiter` the backlog is two intervals of the
faster rate, so a stall is forgotten or caught up with, and a change of the rate
goes either way.

In `Sessions` a chunk of 8 has what one of 256 has: it is a multiple of 4 and of 8,
the periods with which builders vary their messages, and three polls at a time do
not divide it. Four builds are a first chunk, one thrown away for its 4-tuple, a
refill and what follows. Streams do not meet, so one at a time will do. In `Campaign`
every property relates one frame to at most two phases, and two changes are the
fewest that can clash (an address given up and taken over, a host silenced and
removed); a second frame in a phase would only repeat what the indexes, which no frame
changes, make of the first; no host has more than two addresses. Two of the
incident's hosts have addresses in the segments, so that one of them, when no host
stands in for it, is listed in the inventory and seen by its address; the third has
none there, as most of the toolkit's incidents.
The external hosts of an incident are parties of `FlowsTrue` as well: nothing keeps a
plan from giving a host the address of one.

### Fairness

The threads of the process run (`WF` of the engine's, the worker's and the main
thread's steps) and an active injection's deadline comes; this is what the
operating system's scheduler and the clock give. Nobody is obliged to pause,
resume, stop, inject or send a signal; an interface need never come back; a
build may always fail. `InjectionEnds` speaks of runs that are not paused for
ever. A run with neither bound nor stop goes on for ever, which the bounds of
the models turn into standing still. `Sessions` and `Campaign` have no fairness and
state safety only.

### What does not hold

Found while modelling. The first is a run of its own; the others are kept out of a
property by a premise that names them, or by a constant, so that the runs show that
nothing else goes wrong.

Threads and outputs:

- `OneAtATime`: `_extras` takes a pending injection from `_pending` under the
  lock but puts it into `_active` later, without it. `inject()` of the same
  incident in between finds it in neither (`control.py:299`, `:249`).
- `BuiltWhereRecorded` (in `RunControl`): passes are built one ahead; at the boundary
  of two phases the pass sent was addressed onto the previous one's environment
  (`control.py:266`).
- A pause holds fewer frames than `gate`'s docstring says ("The engine calls it right
  before a frame leaves too", `control.py:193`). In a timed run that is not paced (a
  synthetic clock into a file) the second gate is skipped (`engine.py:536`), so the item
  in hand and every frame injected after it still go out; in a paced one a single gate
  stands before all copies of an item (`engine.py:546`). `PauseHolds` states how much
  that is in each mode.
- `SignalClosesPcap` (in `CliRun`): the main thread waits three seconds
  (`cli.py:411`). An engine that is not at its end by then, because it waits for the
  build of the next cycle (`nxt.result()`, which nothing interrupts), for an injection
  pass (`RunControl.close`) or for a disk, is a daemon thread and ends with the process,
  its pcap unclosed, against the comment at `cli.py:384`.
- A process exits with 0 although its engine died of an exception (a failed build, a full
  disk), since only errors of sends are counted (`cli.py:449`); and when a run with
  `--pcap` could not open its interfaces at all, since `per_iface` is then not set
  (`engine.py:331`). `ExitsComplete` speaks of runs that have a sender.
- The pcap is written through a buffer. A flush that fails leaves out frames which the
  stats and the manifest have counted long before; the one on closing is not even
  reported (`pcap.py:53-57`), so the capture of a run on a full disk can be short with no
  error told. `EndsComplete` excepts runs in which a flush failed.
- An injection that is accepted when the run has just ended (`is_alive()` is tested before,
  `api.py:313`) stays pending for ever. `InjectionEnds` excepts it.
- `set_rate()` between the two lines of `wait()` that read the clock and `_next`
  (`sender.py:179`, `:180`) makes the frame sleep for as long as `wait()` was held up
  there, however short the intervals. `HeldOneInterval` has that as its second case.
- A timed frame's target is computed before its sleep, so a pause that falls into
  the sleep lets it leave as soon as the run is resumed; `EarlyOncePerPause` shows
  that this is all, the frames after it are shifted.
- `set_rate()` reads the limiter, writes the configuration and then re-paces the
  limiter it read; when a phase begins in between, the new one has the old rate.
  `RateTaken` excepts that.
- A pcap is flushed by a write only. In a quiet stretch nothing flushes it, where
  its docstring says "at least every `flush_interval` seconds" (`pcap.py:18`).

Conversations:

- `OneHandle` (in `Sessions`): each build draws session and connection handles of its
  own (`protocols.py:517` for EtherNet/IP). Later chunks use those of their build on
  a connection that another build has opened.
- `Restarting` lists the protocols whose sequence numbers begin anew with each build,
  in the middle of a connection; `Unconfirmed` two (`dnp3-tls`, `realcom-cmd`) whose
  confirmations fall to the wrong side of a cut, so that some are missing.
- An occurrence that takes longer than its period overlaps with the next one
  (`schedule.py:333` has no bound). With class-1 I/O over a routed path, put into
  `Overlapping`, data leaves before the connection is open, and `Nested` fails.
- The ratio of a cycle is the one asked for only within half a malware cycle, and a
  base that is a little too small is repeated whole: the share can then be nearly half
  of what `docs/attacks.md:59` calls a fixed fraction. The repeated frames are verbatim
  copies. With several incidents only the first one's length is measured and the
  later ones may never come (`engine.py:163-178`). `Sprinkled` states these bounds.

Campaigns and the manifest:

- An address that passes from one host to another stays the first one's in the
  indexes, and the frames of its new owner are credited to the old one
  (`manifest.py:455`); `union_env` then falls back to the last phase and loses the
  removed hosts. `Contested` excepts these addresses.
- Two conversations of one protocol between the same two hosts, in opposite directions,
  are counted under the first; `FlowsTrue` excepts them.
- A sprinkled incident rides on hosts that are offline in the phase
  (`schedule.py:609`), where `env_streams` says that "hosts in `offline` send nothing"
  (`schedule.py:529`).
- On the wall clock a phase ends with its last frame, before the rest of it is slept
  (`engine.py:584`), and so do its change events, which are to span the phase
  (`campaign.py:51`). A stop before the first frame of a phase ends it before it began
  (`manifest.py:483`), and a run that fails leaves it open.
- A host that a plan adds without a MAC gets another one when its address is changed,
  since the MAC is derived from the address whenever the document is read.
- A flow between two adjacent zones that did talk, but only in the other direction, is
  reported as `cross-zone` (`campaign.py:437-449`).
- The inventory's new assets are those of the union of all phases; a host that only one
  phase brings is not listed (`inventory.py:409`).
- `tgt score` does not read `ip_history`: a monitor's row with a former address only is
  a false positive. `detections` compares hosts by the same one address of the inventory,
  so an alert about a host that has moved since the event is missed, unless event or
  alert names the address itself. `Detected` and `Recognised` except these senders
  (`Listed`).
- An incident's host that nobody stands in for keeps its own name, and its asset id is
  made of that name and the environment's (`inventory.py:409`). When the environment has
  another host of the name, two rows of the inventory go by one id, and which of them a
  row or an event means cannot be told; `Recognised` excepts such assets (`Alone`).
- Hosts of no segment are seen behind the gateway, with its MAC: a monitor's row of that
  MAC is the router's, and `Recognised` leaves it out.

## The proofs

Eight modules prove what TLC checks on the small instances for every value of the
constants, under the named assumptions of the modules (bounds are positive
numbers, shares are positive, sets of times are numbers, a plan is ordered; those of
a campaign are below).

`RunControl_proofs`. The inductive invariant `IInv` adds to the types: the stages
of `_extras` follow one another (`Stages`); an injection is where its state says
(`Lifecycle`); once something has left in a pause, what is still to be sent of the item
fits into its copies and nothing else is past a gate (`PauseInv`); a Future that is queued is in the worker's queue, one that is
building is in its hand (`WorkerInv`); and two sums per injection, frames
(`FrameAccount`: handed out + left = passes * length) and credit (`CreditAccount`:
handed out * unit + credit = first unit + gain * base frames). The safety properties
of the run are not inductive by themselves: `ShareBounded` follows from the
credit sum because credit is never negative, `WholePasses` from the frame
sum because nothing is left when an injection is over. That an injection which is
over stays over (`OverIsFinal`) is proved only.

`Engine_proofs`. Wire, pcap, manifest and stats agree because they differ only
between two calls of the send loop: `Opened` says which outputs there are at which
`pc`, `Closing` what is closed on the way out, whatever raised, and that a capture with
no failed flush has everything on disk once it is closed (`EndsWhole`). `Heard` says that
a frame which was lost on an interface has left its mark on the counters the exit status
is made of. `Cycles` relates the
batch in hand to the Future, `Replayed` the passes to the frames, and `Allowed` is
`RunPromise`'s bound on attempts. `PromiseCorrect` proves the safety part of the
refinement, step by step under the mapping of `KeepsPromise`; its fairness part is
TLC's. The process is the engine and more: every step of `CliRun` is one of `Engine` or
leaves it alone (`ProcessRunsEngine`), so the invariant of the engine is one of the
process, and `ExitsComplete` needs only, beside it, that the process exits by itself
after the join has found the engine over.

`FanOut_proofs`. Per interface the frames decided so far are packets and errors; in
the middle of `send` the ones already visited are one ahead, and the frame is lost
if and only if nobody visited has sent it (`AccountCorrect`). `Recovers` needs the
other half of `send`: once an interface is back and has been tried, its socket is bound
to the present life of the name, or it has none and its next attempt is due at most
`RETRY` after that first one.

`Scheduler_proofs`. The invariant orders the three kinds of times: no frame on the
heap is earlier than the latest yielded or than the phase's start, no entry that
counts is earlier than either, and a frame is yielded only when no entry is due
before it. `OneClock` needs that restarts are numbered, so that an old entry
never passes for a new one. That a stopped stream starts no occurrence
(`StoppedIsSilent`) is proved only.

`RateLimiter_proofs`. `RateBounded` alone is not inductive: a frame is paid for when
`wait` moves `_next`, before it leaves. `Paid` says so at every step of `wait`: what
`_next` (or what is about to be written to it) has gained since the window began
covers the frames sent and the one in hand, up to the backlog. A `set_rate` in the
middle of `wait` begins a window and may leave one stale sum behind, which is the
second of the two free frames. For `HeldOneInterval`, `Slot` says that `_next` is
never ahead of the clock but in the middle of `wait`, where it is at most one interval
after the frame asked; what `set_rate` writes to it is the time itself. Only between the
reads of the clock and of `_next` is that time later than the one `wait` goes by.

`Pacing_proofs`. `Clock` ties `paused_total` to the time really lost: they are equal
when the run goes, and differ by the current pause when it is held. `Debt` says that a
frame in hand which is to leave early has a pause to account for it that no frame
before it is accounted for by, as no frame is taken in a pause; so at most one
frame per pause is early. `NeverLate` is the other side of the same equality.
`Rated` follows the rate through the two writers: the limiter in force differs from
the configuration only while `set_rate` is between its two writes, or has been
crossed by a phase (`PhasesTakeTheRate`).

`Connection_proofs`. The invariant is the types with `TableExact` and `NoOrphanPolls`.
That a build always finds a port no other stream holds needs that fewer streams
share a client, a server and a port than a build has tries (`TriesAssumption`): the
held ports map one-to-one to other streams. `FreshTuples` follows. `StreamsAreGapless`
goes through an occurrence frame by frame: `Ride` shifts the numbers of the polls by a
difference that is right for the first frame, and that a refresh or a new connection
sets anew; that it is then right for every frame is an induction over the frames.

`CampaignRun_proofs` proves all eight properties of a campaign, for any environment,
catalog, set of incidents and plan of any length. The inductive invariant, `RunInv`,
has six parts, each preserved with the help of the ones before it.

- `PhasesInv` relates the log, which the properties speak of, to the recorder's
  counters: an open phase has counted what was sent since `p0`, a closed one exactly
  its frames, and no frame is outside the times of its phase. `PhasesCorrect` and the
  three facts of `NextPhases` need nothing of what frames are.
- `PlanInv` says that every phase that has been built is an environment `from_dict`
  takes, and that its diff is `_diff`'s. The changes of a phase keep hosts named
  and documents readable (`TakenKeeps`); `DiffsCorrect` is then about two environments
  only. `PlacementsCorrect` follows host after host through `map_onto`: a
  host is placed where no neighbour already placed is, and neighbours are symmetric.
- `TellsInv` is what the recorder knows. Whatever an index holds is there for a host or
  a talk (a conversation, or an incident's flow with the hosts that play its ends) of a
  phase or of the start (`Owned`, `FlowsTold`, `SendersTold`), and all hosts and talks
  of the phases that have begun are in (`Has`, `Covers`). Both halves are needed: the
  first says that a row found is not somebody else's, the second that one is found at
  all, so that a frame never falls through to the guess by first sender. `setdefault`
  keeps the first half, and never takes away of the second.
- `InventoryRight`, `EventsInv` and `TallyInv` are what the documents say that score
  reads. Assets have names and addresses. A change event is one of its phase's, has the
  addresses of those of its hosts that are there (`AtHome`), and is still open at the end
  of a run only if no frame was sent at all. The times the recorder keeps for an asset or
  a flow are times of frames in the log, and reach from before to after every frame
  counted there (`Within`); a flow's ends have names, so that its event has hosts to
  compare.
- A frame carries the addresses of its talk (`FramesTold`, `FramesSpeak`). With the
  invariant, `FramesAreAttributed`, `FlowsAreTrue` and `OnlySendersOnline` follow from the
  premises of these properties alone: the address is nobody else's, so the row's names are
  the sender's and the receiver's.
- `EventsAreDetected`: an alert at a frame of an event lies within the event's times, by
  `TallyInv` for what is counted and by `PhasesInv` for what a phase has changed, and the
  sender's address is among those of the event, by `Listed` and `InventoryRight` for an
  asset, or because the event names it. Every alert detects, hence, the event it was
  raised for (`AlertDetects`): none is false, none of these events is missed.
- `SendersAreRecognised` is about `match_assets`, whose keys are tried in order. A key that
  nobody else has finds nobody else (`FirstOfNobody`, `RowNobody`) and the right
  asset's own key finds it, so the first that finds anybody finds the right one
  (`MatchIs`). That the perfect export is perfect is a bijection between the assets that
  have sent and the rows (`ExportMatches`, `ExportIsPerfect`): whichever key of its row
  finds one asset only has found the asset of the row, and when assets share MAC and
  address the name, which is its own, is left.

Their assumptions, and why the code gives them. `DocumentsAssumption`: hosts have a
name and a model, and no `set` changes a name (`_SET_FIELDS`). `BaseAssumption`: the plan
starts from an environment that has been loaded. `IncidentsAssumption`: sprinkles are
checked against `INCIDENTS`, whose flows join two different hosts of theirs; host names are
unique in each. `NamesAssumption`: asset ids are `env:NAME`, which no address is, those of
incidents and routers included, and no incident is called `baseline`.
`AddressesAssumption`: MACs and IPs are written differently, for hosts, gateways
and the hosts of incidents; hosts have addresses, none of them 0.0.0.0; and `dhcp` is not
in `ATTACKS`.
`TimesAssumption`: phases last and gaps take no negative time. TLC evaluates them for the
instance of the run.

The operators on sequences and indexes are recursive functions. What they compute is
proved by induction over a set of numbers (`SetInduction`): the set of lengths for
which the claim holds contains 0 and each successor, so it contains the length at hand.
`LeastIsThere` does the same for minima.

Only model-checked: everything about liveness (`StopEnds`, `InjectionEnds`,
`BoundedRunEnds`, `SignalEndsProcess`, the fairness part of `KeepsPromise`), which
is beyond the prover's temporal logic; and the invariants of `Sessions` and `Cycle`
(`Nested`, `Counted`, `Confirmed`, `StaysPersistent`, `Sprinkled`), which are about what
101 builders make, one by one.

## What is left, and the plan

In this order:

1. Proofs: of `Sessions` that `StaysPersistent` follows from `exchanges()`.
2. The gaps of a replay in time (`replay.gap`, the resync after a second), beside
   `Pacing`.
3. `Remap`: the assignment of captured hosts to an environment, and the rewriting of
   frames with it; `Bench`: its sequence of sub-processes.
4. The rest of `Connection`: IP IDs over wraps.
5. Larger plans in `Campaign` (three changes), which take TLC beyond five minutes
   today.

### Not modelled

- `BUILD_LOCK` and the build context: every `begin_build()` is under the lock, as
  reading the five callers shows (`engine.py:124`, `:201`, `control.py:264`,
  `schedule.py:298`, `:466`); a model would repeat what a lock is.
- The bytes of frames, TLS handshakes as bytes, checksums; tables of devices, hosts,
  incidents and techniques, as the models hold for any of them.
- The TUI's screens, argument parsing, HTTP parsing, reports and export formats.
- `net.py`, `service.py` and the scripts: sequences of commands of the system, whose
  effects are the kernel's. What they do to a run is the network's part in `FanOut`.
- Plugins: they fill registries before a run starts.
