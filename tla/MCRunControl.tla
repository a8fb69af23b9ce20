----------------------------- MODULE MCRunControl -----------------------------
(* RunControl for TLC: two injections with unlike shares of the wire.       *)
EXTENDS RunControl

\* With Unit = 2: 3/2 frames per base frame (a ratio of 0.6, so bursts and
\* credit left over at the end of a pass) and 1/2 (a ratio of 1/3, so base
\* frames without an injected one).
MCGain == [i \in 1..MaxInjections |-> IF i % 2 = 1 THEN 3 ELSE 1]

\* With Unit = 1: one injected frame per base frame (a ratio of 0.5).
MCUnitGain == [i \in 1..MaxInjections |-> 1]
=============================================================================
