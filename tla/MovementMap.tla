---- MODULE MovementMap ----
(***************************************************************************)
(* GenerateMovementMap and the flood it runs (asm/arm.s): two pools of     *)
(* entries, the one being read (src) and the one being written (dst), and  *)
(* the map of costs both work on.  An entry is tried towards every side    *)
(* but the one it came from, with the cost the map holds at that moment.   *)
(*                                                                         *)
(* The working prices, the enemies on the unit map, the tile and the       *)
(* allowance are chosen once: every call of GenerateMovementMap is one of  *)
(* the initial states.  hasUnit = FALSE is the choice of no enemies.       *)
(***************************************************************************)
EXTENDS MapGrid, Sequences

CONSTANTS PriceTables,   \* gWorkingTerrainMoveCosts over the tiles' terrain
          FoeSets,       \* tiles the unit map gives to another allegiance
          Origins,       \* (x, y) of the call
          Movements      \* movement of the call

ASSUME FloodAssumption ==
  /\ PriceTables \subseteq [Tiles -> Price]
  /\ FoeSets \subseteq SUBSET Tiles
  /\ Origins \subseteq Tiles
  /\ Movements \subseteq 0 .. MaxMovement

VARIABLES prices, foes, origin, movement, map, src, dst, todo

job == <<prices, foes, origin, movement>>
floodVars == <<map, src, dst, todo>>

Start == 5
Entry == [tile : Tiles, connexion : Dirs \cup {Start}]

OnwardSameSide(entry) ==    \* mutant: leaves out the side it walked towards
  IF entry.connexion = Start THEN Dirs ELSE Dirs \ {entry.connexion}

(* The case of MapFloodCore's jump table: an entry that came from a side    *)
(* does not look back at it; the first one looks at all four.               *)
Onward(entry) ==
  IF entry.connexion = Start THEN Dirs ELSE Dirs \ {Back[entry.connexion]}

OnwardOf(pool) == IF pool = <<>> THEN {} ELSE Onward(Head(pool))

(* The order of the four calls of MapFloodCoreStep.                          *)
Rank == [d \in Dirs |-> CASE d = Up -> 1 [] d = Down -> 2
                          [] d = Left -> 3 [] d = Right -> 4]

IsNext(d) == d \in todo /\ \A e \in todo : Rank[d] <= Rank[e]

Init ==
  /\ prices \in PriceTables
  /\ foes \in FoeSets
  /\ origin \in Origins
  /\ movement \in Movements
  /\ map = [[t \in Tiles |-> Unreached] EXCEPT ![origin] = 0]
  /\ src = <<>>
  /\ dst = <<[tile |-> origin, connexion |-> Start]>>
  /\ todo = {}

PassableEqual(n, cost) ==       \* mutant: the test the asm's comment shows
  cost <= map[n] /\ n \notin foes /\ cost <= movement

PassableAnyUnit(n, cost) ==     \* mutant: walks through enemies
  cost < map[n] /\ cost <= movement

PassableUnbounded(n, cost) ==   \* mutant: forgets the allowance
  cost < map[n] /\ n \notin foes

Passable(n, cost) ==
  /\ cost < map[n]
  /\ n \notin foes
  /\ cost <= movement

(* MapFloodCoreStep for the entry being read, towards d.                    *)
Relax(d) ==
  /\ IsNext(d)
  /\ LET here == Head(src).tile
         n == Towards(here, d)
         cost == map[here] + prices[n]
     IN IF n \in Tiles /\ Passable(n, cost)
        THEN /\ map' = [map EXCEPT ![n] = cost]
             /\ dst' = Append(dst, [tile |-> n, connexion |-> d])
        ELSE UNCHANGED <<map, dst>>
  /\ todo' = todo \ {d}
  /\ UNCHANGED <<job, src>>

(* The terminator is written behind dst and src moves to its next entry.    *)
NextEntry ==
  /\ src # <<>>
  /\ todo = {}
  /\ src' = Tail(src)
  /\ todo' = OnwardOf(Tail(src))
  /\ UNCHANGED <<job, map, dst>>

(* src is at its terminator: the pools change places, and the flood ends    *)
(* when the new src has nothing in it.                                      *)
SwapKeepsPool ==                \* mutant: the pool to write is not rewound
  /\ src = <<>>
  /\ dst # <<>>
  /\ src' = dst
  /\ todo' = OnwardOf(dst)
  /\ UNCHANGED <<job, map, dst>>

Swap ==
  /\ src = <<>>
  /\ dst # <<>>
  /\ src' = dst
  /\ dst' = <<>>
  /\ todo' = OnwardOf(dst)
  /\ UNCHANGED <<job, map>>

Done == src = <<>> /\ dst = <<>>

FloodNext == (\E d \in Dirs : Relax(d)) \/ NextEntry \/ Swap

FloodSpec == Init /\ [][FloodNext]_<<job, floodVars>>

----------------------------------------------------------------------------
(* The fields keep their ranges: a cost in the map fits the byte it is      *)
(* stored in, and an entry names a tile of the map.                         *)
TypeOK ==
  /\ prices \in PriceTables
  /\ foes \in FoeSets
  /\ origin \in Origins
  /\ movement \in Movements
  /\ map \in [Tiles -> 0 .. 255]
  /\ src \in Seq(Entry)
  /\ dst \in Seq(Entry)
  /\ todo \subseteq Dirs
  /\ src = <<>> => todo = {}

PendingIn(pool, first, t, d) ==
  \E i \in first .. Len(pool) : pool[i].tile = t /\ d \in Onward(pool[i])

Pending(t, d) ==
  \/ PendingIn(dst, 1, t, d)
  \/ PendingIn(src, 2, t, d)
  \/ src # <<>> /\ Head(src).tile = t /\ d \in todo

Settled(t, n) ==
  \/ map[n] <= map[t] + prices[n]
  \/ n \in foes
  \/ map[t] + prices[n] > movement

(* No gain is forgotten: where walking on from a reached tile would make a   *)
(* neighbour cheaper, an entry that will try that step is still in a pool.   *)
(* The entry does not look back, and its cost is read when it is tried, not  *)
(* when it is pushed.                                                        *)
GainsArePending ==
  \A t \in Tiles : \A d \in Dirs :
    Towards(t, d) \in Tiles /\ map[t] # Unreached =>
      Settled(t, Towards(t, d)) \/ Pending(t, d)

(* Every reached tile is paid for by a reached neighbour, is within the      *)
(* allowance and is not an enemy's, whatever was lowered since.              *)
CostsArePaid ==
  /\ map[origin] = 0
  /\ \A n \in Tiles \ {origin} :
       map[n] # Unreached =>
         /\ map[n] <= movement
         /\ n \notin foes
         /\ \E t \in Neighbours(n) :
              map[t] # Unreached /\ map[t] + prices[n] <= map[n]

(* A pool never holds the same entry twice, so it stays below four entries   *)
(* per tile: MapFloodCoreStep appends to a pool of 128 without looking at    *)
(* its end, and a test that let equal costs through would fill it up.        *)
NoEntryTwice ==
  \A pool \in {src, dst} : \A i, j \in DOMAIN pool : pool[i] = pool[j] => i = j

NoMap == [t \in {} |-> Unreached]

Promise == INSTANCE LeastCostMap
             WITH prices <- prices, foes <- foes, origin <- origin,
                  movement <- movement, NoMap <- NoMap,
                  result <- IF Done THEN map ELSE NoMap

(* When the flood ends the map is a least-cost map, filled once.             *)
FillsLeastCosts == Promise!Spec
====
