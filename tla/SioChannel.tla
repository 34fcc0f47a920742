----------------------------- MODULE SioChannel -----------------------------
(***************************************************************************)
(* What the link cable protocol of src/sio_core.c promises to the Link      *)
(* Arena: every console receives what every other console emitted, in the   *)
(* order it was emitted and at most once.  The k-th message of a console is *)
(* named k, from 0.                                                         *)
(***************************************************************************)
EXTENDS Integers, Sequences

CONSTANT Console

VARIABLES
  emitted,   \* emitted[n]: number of messages console n has emitted
  got        \* got[m][n]: what m received from n

vars == <<emitted, got>>

Init ==
  /\ emitted = [n \in Console |-> 0]
  /\ got = [m \in Console |-> [n \in Console |-> << >>]]

Emit(n) ==
  /\ emitted' = [emitted EXCEPT ![n] = @ + 1]
  /\ UNCHANGED got

Deliver(m, n) ==
  /\ m # n
  /\ Len(got[m][n]) < emitted[n]
  /\ got' = [got EXCEPT ![m][n] = Append(@, Len(@))]
  /\ UNCHANGED emitted

Next == \E n \in Console : Emit(n) \/ \E m \in Console : Deliver(m, n)

Spec == Init /\ [][Next]_vars
=============================================================================
