---------------------------- MODULE MCCollector ----------------------------
(***************************************************************************)
(* Collector for TLC.  Databases share nothing but the report of a failed  *)
(* write and the join at the end of a tick, so most questions need one.    *)
(* Two roles execute one query.                                            *)
(***************************************************************************)
EXTENDS Collector, TLC

CONSTANTS s1, s2

MCQueryId == [s \in Statement |-> "shared"]

Symmetry == Permutations({s1, s2})

=============================================================================
