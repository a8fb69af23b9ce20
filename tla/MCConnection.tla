----------------------------- MODULE MCConnection -----------------------------
EXTENDS Connection

\* One pair of numbers next to the wrap, one away from it.
MCISNs == {<<7, 5>>, <<2, 6>>}
=============================================================================
