---------------------------- MODULE MC_Expansion ----------------------------
(* Expansion on small instances; the cfg files give the numbers. *)
EXTENDS Expansion
=============================================================================
