--------------------------- MODULE MCMetricsStore ---------------------------
EXTENDS MetricsStore, TLC

Symmetry == Permutations(Mount) \cup Permutations(Spelling)
=============================================================================
