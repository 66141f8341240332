---------------------------- MODULE MC_Signaling ----------------------------
EXTENDS Signaling

MCRequests == {"info", "control"}
MCAcks == [r \in MCRequests |-> IF r = "control" THEN 2 ELSE 1]
MCSize == <<1, 0>>
=============================================================================
