--------------------------- MODULE MCLongestSeen ---------------------------
(***************************************************************************)
(* LongestSeen for TLC: limits small enough that each of them cuts.        *)
(***************************************************************************)
EXTENDS LongestSeen, TLC

Symmetry == Permutations(Pid)

=============================================================================
