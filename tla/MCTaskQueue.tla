---------------------------- MODULE MCTaskQueue ----------------------------
EXTENDS TaskQueue, TLC

\* Timeouts that end at once and in the next second.
MCTimeouts == {0, 2}

\* Names are only compared.
Symmetry == Permutations(Workers) \cup Permutations(Queues)
=============================================================================
