---------------------------- MODULE MCProcSched -----------------------------
(***************************************************************************)
(* Instances of ProcSched for TLC.  Three slots are the smallest table in   *)
(* which a slot can be reused under a traversal that still holds it while a *)
(* third proc looks on; two suffice for the loops over scripts and marks.   *)
(***************************************************************************)
EXTENDS ProcSched

CONSTANTS r1, s1, s2, m1

OneRoot    == {r1}
OneScript  == {s1}
TwoScripts == {s1, s2}
OneMark    == {m1}
NoMark     == {}
=============================================================================
