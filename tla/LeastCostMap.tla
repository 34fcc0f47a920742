---- MODULE LeastCostMap ----
(***************************************************************************)
(* What the rest of the game expects of a movement map: each tile holds    *)
(* the least price of walking there from the origin, or Unreached when it  *)
(* cannot be reached with the unit's allowance without crossing an enemy.  *)
(* The map is filled in one step.                                          *)
(***************************************************************************)
EXTENDS MapGrid

CONSTANT NoMap

VARIABLES prices, foes, origin, movement, result

job == <<prices, foes, origin, movement>>

Open(m, n) == n \notin foes /\ m <= movement

(* The map is a fixed point: nothing cheaper is left, and every reached     *)
(* tile is paid for by a neighbour.                                         *)
IsLeastCost(m) ==
  /\ m \in [Tiles -> 0 .. 255]
  /\ m[origin] = 0
  /\ \A t \in Tiles : \A n \in Neighbours(t) :
       m[t] # Unreached /\ Open(m[t] + prices[n], n) => m[n] <= m[t] + prices[n]
  /\ \A n \in Tiles \ {origin} :
       m[n] # Unreached =>
         /\ Open(m[n], n)
         /\ \E t \in Neighbours(n) : m[t] # Unreached /\ m[n] = m[t] + prices[n]

Init == result = NoMap

Fill ==
  /\ result = NoMap
  /\ IsLeastCost(result')
  /\ UNCHANGED job

Spec == Init /\ [][Fill]_<<job, result>>
====
