-------------------------------- MODULE CliRun --------------------------------
(***************************************************************************)
(* `tgt run`: cli._run_engine, the main thread around an Engine. It polls  *)
(* the engine thread, turns SIGTERM, SIGHUP and Ctrl-C into a stop, waits  *)
(* at most three seconds for the engine to end, prints the summary and     *)
(* leaves the process. The engine thread is a daemon: it is gone once the  *)
(* interpreter has exited, which waits only for the worker of the prebuild *)
(* pool (concurrent.futures joins its threads at exit).                    *)
(***************************************************************************)
EXTENDS Engine, Integers

VARIABLES
  main,      \* where the main thread is
  caught,    \* a SIGTERM or SIGHUP arrived
  asked,     \* history: one of them or a Ctrl-C did
  timedOut,  \* history: the join gave up waiting for the engine
  told       \* the packet count and exit status printed, or NotTold

process == <<main, caught, asked, timedOut, told>>
allVars == <<vars, process>>

NotTold == [packets |-> 0, status |-> -1]

CliInit ==
  /\ Init
  /\ main = "poll" /\ caught = FALSE /\ asked = FALSE /\ timedOut = FALSE /\ told = NotTold

Alive == pc # "ended"

OnSignal == caught' = TRUE /\ stop' = TRUE

\* The handlers are in place until the summary.
Signal ==
  /\ main \in {"poll", "join", "joinAgain"} /\ ~caught
  /\ OnSignal /\ asked' = TRUE
  /\ UNCHANGED <<cfg, pc, outputs, builds, counters, flags, late, main,
                 timedOut, told>>

\* mutant: the except clause is inside the loop, and the poll goes on
KeepsPolling == UNCHANGED <<main, stop, timedOut>>

OnInterrupt == main' = "joinAgain" /\ stop' = TRUE /\ UNCHANGED timedOut

\* Ctrl-C stops the engine; another one during the join of the except clause
\* gives up on the summary.
Interrupt ==
  /\ \/ main \in {"poll", "join"} /\ OnInterrupt
     \/ main = "joinAgain" /\ main' = "exit" /\ timedOut' = Alive /\ UNCHANGED stop
  /\ asked' = TRUE
  /\ UNCHANGED <<cfg, pc, outputs, builds, counters, flags, late, caught, told>>

\* mutant: the loop is left on a signal without waiting for the engine
LeavesAtOnce == "summary"

AfterSignal == "join"

Poll ==
  /\ main = "poll"
  /\ ~Alive \/ caught
  /\ main' = IF Alive THEN AfterSignal ELSE "summary"
  /\ UNCHANGED <<vars, caught, asked, timedOut, told>>

\* eng.join(timeout=3) returns: the engine has ended, or the three seconds are up
\* wherever it is: at a build, a slow write, the injection pass that
\* RunControl.close waits for, the last manifest.
Joined ==
  /\ main \in {"join", "joinAgain"}
  /\ timedOut' = Alive
  /\ main' = "summary"
  /\ UNCHANGED <<vars, caught, asked, told>>

\* mutant: the errors of the single interfaces are printed, but do not matter
IgnoresInterfaces == errors = 0

NoErrors == errors = 0 /\ ~missed

Summary ==
  /\ main = "summary" /\ main' = "exit"
  /\ told' = [packets |-> packets, status |-> IF NoErrors THEN 0 ELSE 1]
  /\ UNCHANGED <<vars, caught, asked, timedOut>>

\* The interpreter exits once the pool's worker is idle. An engine that is still
\* running was told to stop before main came here: it queues no further build.
Exit ==
  /\ main = "exit" /\ nxt \notin {"queued", "building"}
  /\ main' = "exited"
  /\ UNCHANGED <<vars, caught, asked, timedOut, told>>

MainStep == Poll \/ Joined \/ Summary \/ Exit

Threads(A) == A /\ main # "exited" /\ UNCHANGED process

Exited == main = "exited" /\ UNCHANGED allVars

CliNext ==
  \/ Signal \/ Interrupt \/ MainStep \/ Exited
  \/ Threads(EngineStep) \/ Threads(WorkerStep) \/ Threads(Rewrite)

CliSpec ==
  /\ CliInit /\ [][CliNext]_allVars
  /\ WF_allVars(MainStep)
  /\ WF_allVars(Threads(EngineStep)) /\ WF_allVars(Threads(WorkerStep))

-----------------------------------------------------------------------------
(* Properties.                                                             *)

\* A process that did not give up waiting leaves everything on disk, tells the
\* final count, and exits with 0 only if every frame it tried left, and left on
\* every interface that --iface names.
ExitsComplete ==
  main = "exited" /\ ~timedOut =>
    /\ EndsComplete /\ finished
    /\ told # NotTold =>
         /\ told.packets = packets
         /\ told.status = 0 /\ sender # "none" =>
              wire = Attempts + Unaccounted /\ ~partial

\* A SIGTERM, a SIGHUP or a Ctrl-C ends the process, whatever the engine is
\* doing.
SignalEndsProcess == asked ~> main = "exited"

\* "SIGTERM (systemctl/podman stop, timeout) and SIGHUP stop the engine like
\* Ctrl-C does, so the pcap is flushed + closed and the summary printed"
\* (cli.py:384). It does not hold: the code waits three seconds for that, and an
\* engine that is not at its end by then loses the race with the exit.
SignalClosesPcap ==
  main = "exited" /\ caught /\ told # NotTold /\ logged > 0 => file = "closed"
=============================================================================
