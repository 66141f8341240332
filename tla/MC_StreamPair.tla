---------------------------- MODULE MC_StreamPair ----------------------------
(***************************************************************************)
(* StreamPair on small instances: how many chunks each application feeds.  *)
(***************************************************************************)
EXTENDS StreamPair

CONSTANTS OpenerChunks, TargetChunks

MCChunks == [e \in Side |-> IF e = "opener" THEN OpenerChunks ELSE TargetChunks]
=============================================================================
