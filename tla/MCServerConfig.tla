--------------------------- MODULE MCServerConfig ---------------------------
(***************************************************************************)
(* ServerConfig for TLC: operators whose clicks overlap, and libraries an  *)
(* administrator sets by hand, one of them with a name that is refused.    *)
(***************************************************************************)
EXTENDS ServerConfig, TLC

Symmetry == Permutations(Click)

=============================================================================
