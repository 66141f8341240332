--------------------------- MODULE MC_PooledTunnel ---------------------------
(***************************************************************************)
(* PooledTunnel on a small instance.  Sessions and streams are model       *)
(* values; sessions, and streams of one kind, are interchangeable.         *)
(***************************************************************************)
EXTENDS PooledTunnel, TLC

Symmetry == {p @@ q @@ r : p \in Permutations(Session), q \in Permutations(Local),
                           r \in Permutations(Remote)}
=============================================================================
