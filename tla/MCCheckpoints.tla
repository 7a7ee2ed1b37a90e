--------------------------- MODULE MCCheckpoints ---------------------------
\* Instances of Checkpoints for TLC: one or two processes on a chain of a few blocks.
EXTENDS Checkpoints, TLC

CONSTANTS p1, p2

Replicas == Permutations({p1, p2})

\* A block of height 2 that won its race here, of a hash that is not its own; an edit may
\* put that right.
Strays == {Block(2, MaxHeight + 1, Original[1].hash, Garbage)}
=============================================================================
