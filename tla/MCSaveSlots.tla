----------------------------- MODULE MCSaveSlots ----------------------------
(***************************************************************************)
(* Instances of SaveSlots for TLC.  Two game slots are enough: operations   *)
(* concern one slot, or copy one to another.                                *)
(***************************************************************************)
EXTENDS SaveSlots, TLC

CONSTANTS g0, g1

TwoGames == {g0, g1}
Swapping == Permutations(TwoGames)
=============================================================================
