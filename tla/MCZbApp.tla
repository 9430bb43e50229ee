------------------------------ MODULE MCZbApp ------------------------------
(* Commands of the cloud to two ports of one device, one of which reports    *)
(* its changes, with changes at the device and losses on the radio.          *)
EXTENDS ZbApp

CONSTANTS a1, p1, p2

OneDevice == [p \in {p1, p2} |-> a1]
MCSeqNum == 0 .. SeqMod - 1
===========================================================================
