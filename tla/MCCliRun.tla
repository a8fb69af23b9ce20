------------------------------- MODULE MCCliRun -------------------------------
(* A small instance of CliRun: one frame a cycle, no --count. A run on      *)
(* several interfaces can do all that one on a single interface can.        *)
EXTENDS CliRun

MCCounts == {0}
MCPasses == {0}
=============================================================================
