------------------------ MODULE MCOwnershipService ------------------------
EXTENDS OwnershipService, TLC

CONSTANTS c1, c2
Threads     == {c1, c2}
SameThreads == Permutations(Threads)
===========================================================================
