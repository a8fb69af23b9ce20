----------------------------- MODULE MCScheduler -----------------------------
(* Scheduler for TLC. An occurrence builds nothing or two frames of which    *)
(* the second comes after the stream's next occurrence, often after the end  *)
(* of the phase.                                                             *)
EXTENDS Scheduler

MCBuilds == {<<>>, <<0, 3>>}
MCIntervals == {1, 2}
MCDelays == {0, 1}
=============================================================================
