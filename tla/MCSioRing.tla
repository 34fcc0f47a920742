------------------------------ MODULE MCSioRing ------------------------------
(* An instance of SioRing for TLC: two short packets, the body of the       *)
(* second one looks like the start of a packet, and a longer one that is    *)
(* sent again.                                                              *)
EXTENDS SioRing

TwoPackets == << <<3>>, <<Magic>> >>
Longer     == <<5, 6>>
=============================================================================
