------------------------------ MODULE RunPromise ------------------------------
(***************************************************************************)
(* What a run in cycle mode or a replay promises whoever starts and stops  *)
(* it, whatever the interface, the disk and the builds do: it attempts at  *)
(* most Count frames (if there is a bound), at most one frame leaves after *)
(* the stop request, nothing leaves once it has finished, and a stopped run*)
(* does finish. src/tgt/engine.py implements it (Engine.tla).              *)
(***************************************************************************)
EXTENDS Naturals

CONSTANT NoBound   \* the count of a run that is not bounded

VARIABLES
  count,           \* --count, or NoBound
  attempted,       \* frames handed to the interfaces or to the file
  stopping,        \* stop was requested, or the bound reached
  late,            \* a frame was attempted after that
  finished

vars == <<count, attempted, stopping, late, finished>>

Init ==
  /\ count \in Nat \cup {NoBound}
  /\ attempted = 0
  /\ ~stopping /\ ~late /\ ~finished

RequestStop ==
  /\ stopping' = TRUE
  /\ UNCHANGED <<count, attempted, late, finished>>

Attempt ==
  /\ ~finished
  /\ count # NoBound => attempted < count
  /\ stopping => ~late
  /\ attempted' = attempted + 1
  /\ late' = stopping
  /\ UNCHANGED <<count, stopping, finished>>

Finish ==
  /\ finished' = TRUE
  /\ UNCHANGED <<count, attempted, stopping, late>>

Next == RequestStop \/ Attempt \/ Finish

Spec == Init /\ [][Next]_vars /\ WF_vars(stopping /\ Finish)
=============================================================================
