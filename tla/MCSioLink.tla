------------------------------ MODULE MCSioLink -----------------------------
(***************************************************************************)
(* Instances of SioLink for TLC.                                            *)
(***************************************************************************)
EXTENDS SioLink, TLC

CONSTANTS a, b, c

Two   == {a, b}
Three == {a, b, c}

OnlyA == {a}

OneTalks(n) == [x \in Console |-> IF x = a THEN n ELSE 0]
FourFromA   == OneTalks(4)
OneEach     == [x \in Console |-> IF x = c THEN 0 ELSE 1]
=============================================================================
