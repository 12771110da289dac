---------------------------- MODULE MCTailDaemon ----------------------------
\* Small instances of TailDaemon for TLC.  Commands of one kind, and the
\* process slots, are interchangeable; the liveness runs do not say so.
EXTENDS TailDaemon, TLC

Symmetry == Permutations(Dialers) \cup Permutations(Servers) \cup Permutations(Proc)
=============================================================================
