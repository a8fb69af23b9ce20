------------------------------- MODULE MCEngine -------------------------------
(* A small instance of Engine: two frames a cycle, no --count or one that   *)
(* falls within the second cycle.                                           *)
EXTENDS Engine

MCCounts == {0, 3}
MCPasses == {0, 2}
=============================================================================
