------------------------------ MODULE MCPages -------------------------------
(* Two mounts with two toggles; three mounts on two servers, the first and  *)
(* the third on one database; the file is edited to put another mount first *)
(* or to drop one.                                                          *)
EXTENDS Pages, TLC

CONSTANTS s1, s2, a, b, c

Mount(path, server, key) == [path |-> path, server |-> server, database_key |-> key]

MCLists == {<<Mount(a, s1, "k1"), Mount(b, s2, "k2"), Mount(c, s1, "k1")>>,
            <<Mount(b, s2, "k2"), Mount(a, s1, "k1")>>}
=============================================================================
