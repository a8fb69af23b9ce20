------------------------------- MODULE MCPacing -------------------------------
EXTENDS Pacing

\* Three phases: two frames at one time and a gap, a phase with a rate of its
\* own, and another without one.
MCTimes == << <<0, 0, 2>>, <<3>>, <<4>> >>
MCEnds == <<2, 4, 5>>
MCOwnRate == <<Unset, 3, Unset>>
=============================================================================
