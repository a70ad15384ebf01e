--------------------------- MODULE MCLearningStores ---------------------------
EXTENDS LearningStores, TLC

\* Runs and ticks are interchangeable: nothing but their identity is kept of one.
Interchangeable == Permutations(Runs) \cup Permutations(Ticks)
=============================================================================
