--------------------------- MODULE MCSyntheticFeed ---------------------------
\* A unit of seven ticks, and three jumps, two of them between the same snapshots.
EXTENDS SyntheticFeed

SevenTicks == {2, 4, 6, 8, 10, 12}

SmallSteps == {-2, 0, 1}

SmallFlow == {-2, 1}

ThreeJumps ==
    <<[at |-> 1, by |-> 3], [at |-> 2, by |-> 2], [at |-> 4, by |-> 0 - 9]>>
=============================================================================
