---------------------------- MODULE MCWriteGate ----------------------------
(***************************************************************************)
(* WriteGate for TLC: one or two databases, overlapping clicks and calls,  *)
(* and a ring smaller than the number of calls so that it overflows.       *)
(***************************************************************************)
EXTENDS WriteGate, TLC

Symmetry == Permutations(Call) \union Permutations(Click) \union Permutations(Db)

=============================================================================
