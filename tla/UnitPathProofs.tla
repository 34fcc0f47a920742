--------------------------- MODULE UnitPathProofs ---------------------------
(***************************************************************************)
(* Proofs about the flood (MovementMap), and about the arrow, the script and *)
(* the stop of a unit (UnitPath), for maps of every size, every table of    *)
(* prices, every set of enemies, every allowance and every way the player   *)
(* takes the cursor.                                                        *)
(*                                                                         *)
(* The arrow rests on three functions that are defined by recursion:        *)
(* LeastCosts, BestScripts and Walked.  What they compute is proved by      *)
(* induction with sets: a set of numbers that holds 0 and with each number  *)
(* the next one holds them all (AllNumbers, UpTo), because a set of numbers *)
(* that is not empty has a least member (LeastNumber).                      *)
(***************************************************************************)
EXTENDS UnitPath, SequenceTheorems, WellFoundedInduction, TLAPS
-----------------------------------------------------------------------------
(* The flood. *)

(* The facts about the two pools that keep an entry from being pushed twice:*)
(* like the fields of a chessboard, the tiles of one pool have one colour   *)
(* and those of the other pool the other one, so what a round lowers is not  *)
(* what it reads.                                                            *)
Colour(t) == (t[1] + t[2]) % 2

Colours ==
  /\ \A i, j \in DOMAIN src : Colour(src[i].tile) = Colour(src[j].tile)
  /\ \A i, j \in DOMAIN dst : Colour(dst[i].tile) = Colour(dst[j].tile)
  /\ \A i \in DOMAIN src, j \in DOMAIN dst :
       Colour(src[i].tile) # Colour(dst[j].tile)

From(entry) == Towards(entry.tile, Back[entry.connexion])

(* The step that pushed an entry of dst is not worth taking again.          *)
PushedIsPaid ==
  \A i \in DOMAIN dst :
    dst[i].connexion \in Dirs =>
      /\ From(dst[i]) \in Tiles
      /\ map[dst[i].tile] <= map[From(dst[i])] + prices[dst[i].tile]

Distinct(pool) == \A i, j \in DOMAIN pool : pool[i] = pool[j] => i = j

(* The directions are four numbers, and none of them marks the first entry.  *)
LEMMA DirsAre == Dirs = {0, 1, 2, 3} /\ Start \notin Dirs
BY DEF Dirs, Left, Right, Down, Up, Start

(* Turning round twice is the direction one came with.                       *)
LEMMA BackIs ==
  ASSUME NEW d \in Dirs
  PROVE  Back[d] \in Dirs /\ Back[Back[d]] = d
BY DEF Back, Dirs, Left, Right, Down, Up

(* A step leads to another tile, of the other colour, and back.             *)
LEMMA StepThere ==
  ASSUME NEW t \in Tiles, NEW d \in Dirs, Towards(t, d) \in Tiles
  PROVE  /\ Towards(t, d) # t
         /\ Towards(Towards(t, d), Back[d]) = t
         /\ t \in Neighbours(Towards(t, d))
         /\ Colour(Towards(t, d)) # Colour(t)
<1> USE SizeAssumption
<1>0. PICK x \in 0 .. Width - 1, y \in 0 .. Height - 1 : t = <<x, y>>
  BY DEF Tiles
<1>1. CASE d = Left
  <2>1. Towards(t, d) = <<x - 1, y>> /\ Back[d] = Right
    BY <1>0, <1>1 DEF Towards, Back, Dirs, Left, Right, Down, Up
  <2>2. Towards(<<x - 1, y>>, Right) = t
    BY <1>0 DEF Towards, Left, Right, Down, Up
  <2>3. (x - 1 + y) % 2 # (x + y) % 2
    BY <1>0
  <2> QED BY <1>0, <1>1, <2>1, <2>2, <2>3, BackIs DEF Neighbours, Colour
<1>2. CASE d = Right
  <2>1. Towards(t, d) = <<x + 1, y>> /\ Back[d] = Left
    BY <1>0, <1>2 DEF Towards, Back, Dirs, Left, Right, Down, Up
  <2>2. Towards(<<x + 1, y>>, Left) = t
    BY <1>0 DEF Towards, Left, Right, Down, Up
  <2>3. (x + 1 + y) % 2 # (x + y) % 2
    BY <1>0
  <2> QED BY <1>0, <1>2, <2>1, <2>2, <2>3, BackIs DEF Neighbours, Colour
<1>3. CASE d = Down
  <2>1. Towards(t, d) = <<x, y + 1>> /\ Back[d] = Up
    BY <1>0, <1>3 DEF Towards, Back, Dirs, Left, Right, Down, Up
  <2>2. Towards(<<x, y + 1>>, Up) = t
    BY <1>0 DEF Towards, Left, Right, Down, Up
  <2>3. (x + (y + 1)) % 2 # (x + y) % 2
    BY <1>0
  <2> QED BY <1>0, <1>3, <2>1, <2>2, <2>3, BackIs DEF Neighbours, Colour
<1>4. CASE d = Up
  <2>1. Towards(t, d) = <<x, y - 1>> /\ Back[d] = Down
    BY <1>0, <1>4 DEF Towards, Back, Dirs, Left, Right, Down, Up
  <2>2. Towards(<<x, y - 1>>, Down) = t
    BY <1>0 DEF Towards, Left, Right, Down, Up
  <2>3. (x + (y - 1)) % 2 # (x + y) % 2
    BY <1>0
  <2> QED BY <1>0, <1>4, <2>1, <2>2, <2>3, BackIs DEF Neighbours, Colour
<1> QED BY <1>1, <1>2, <1>3, <1>4 DEF Dirs

(* What is left to try of a pool's first entry are directions.              *)
LEMMA OnwardIsDirs ==
  ASSUME NEW pool \in Seq(Entry)
  PROVE  OnwardOf(pool) \subseteq Dirs
BY DEF OnwardOf, Onward

----------------------------------------------------------------------------
(* The ranges as the provers like them: natural numbers and their bounds.   *)
LEMMA Ranges ==
  ASSUME TypeOK
  PROVE  /\ prices \in [Tiles -> Nat] /\ \A t \in Tiles : prices[t] >= 1
         /\ foes \subseteq Tiles
         /\ origin \in Tiles /\ movement \in Nat /\ movement <= 124
         /\ map \in [Tiles -> Nat] /\ \A t \in Tiles : map[t] <= 255
<1>1. prices \in [Tiles -> Nat] /\ \A t \in Tiles : prices[t] >= 1
  <2>1. prices \in [Tiles -> 1 .. 255]
    BY FloodAssumption DEF TypeOK, Price
  <2> QED BY <2>1
<1>2. foes \subseteq Tiles /\ origin \in Tiles
  BY FloodAssumption DEF TypeOK
<1>3. movement \in Nat /\ movement <= 124
  <2>1. movement \in 0 .. 124
    BY FloodAssumption DEF TypeOK, MaxMovement
  <2> QED BY <2>1
<1>4. map \in [Tiles -> Nat] /\ \A t \in Tiles : map[t] <= 255
  <2>1. map \in [Tiles -> 0 .. 255]
    BY DEF TypeOK
  <2>2. \A t \in Tiles : map[t] \in Nat /\ map[t] <= 255
    BY <2>1
  <2> QED BY <2>1, <2>2
<1> QED BY <1>1, <1>2, <1>3, <1>4

(* One step of the flood, its parts named.                                   *)
LEMMA RelaxStep ==
  ASSUME TypeOK, NEW d \in Dirs, Relax(d),
         NEW here, here = Head(src).tile,
         NEW n, n = Towards(here, d),
         NEW cost, cost = map[here] + prices[n]
  PROVE  /\ src \in Seq(Entry) /\ src # <<>> /\ here \in Tiles
         /\ todo' = todo \ {d} /\ d \in todo
         /\ src' = src
         /\ prices' = prices /\ foes' = foes
         /\ origin' = origin /\ movement' = movement
         /\ \/ /\ n \in Tiles /\ cost < map[n] /\ n \notin foes
               /\ cost <= movement /\ cost \in Nat /\ cost < 255
               /\ map' = [map EXCEPT ![n] = cost]
               /\ dst' = Append(dst, [tile |-> n, connexion |-> d])
            \/ /\ map' = map /\ dst' = dst
               /\ n \in Tiles =>
                    \/ cost >= map[n] \/ n \in foes \/ cost > movement
<1>1. src # <<>> /\ Head(src) \in Entry /\ src \in Seq(Entry)
  BY DEF TypeOK, Relax, IsNext
<1>2. here \in Tiles
  BY <1>1 DEF Entry
<1>3. ASSUME n \in Tiles
      PROVE  map[n] \in Nat /\ map[n] <= 255 /\ cost \in Nat /\ movement \in Nat
  BY <1>2, <1>3, Ranges
<1>4. /\ todo' = todo \ {d} /\ d \in todo /\ src' = src
      /\ prices' = prices /\ foes' = foes
      /\ origin' = origin /\ movement' = movement
  BY DEF Relax, IsNext, job
<1>5. CASE n \in Tiles /\ Passable(n, cost)
  <2>1. /\ map' = [map EXCEPT ![n] = cost]
        /\ dst' = Append(dst, [tile |-> n, connexion |-> d])
    BY <1>5 DEF Relax
  <2>2. cost < map[n] /\ n \notin foes /\ cost <= movement
    BY <1>5 DEF Passable
  <2>3. cost \in Nat /\ cost < 255
    BY <1>3, <1>5, <2>2
  <2> QED BY <1>1, <1>2, <1>4, <1>5, <2>1, <2>2, <2>3, Zenon
<1>6. CASE ~(n \in Tiles /\ Passable(n, cost))
  <2>1. map' = map /\ dst' = dst
    BY <1>6 DEF Relax
  <2>2. n \in Tiles => (\/ cost >= map[n] \/ n \in foes \/ cost > movement)
    BY <1>3, <1>6 DEF Passable
  <2> QED BY <1>1, <1>2, <1>4, <2>1, <2>2
<1> QED BY <1>5, <1>6

(* The flood keeps its types: costs stay bytes, entries name tiles.          *)
THEOREM FloodTypes == FloodSpec => []TypeOK
<1>1. Init => TypeOK
  <2> SUFFICES ASSUME Init PROVE TypeOK OBVIOUS
  <2>1. origin \in Tiles BY FloodAssumption DEF Init
  <2>2. dst \in Seq(Entry) BY <2>1 DEF Init, Entry
  <2>3. map \in [Tiles -> 0 .. 255]
    BY <2>1 DEF Init, Unreached
  <2>4. src \in Seq(Entry) /\ (src = <<>> => todo = {}) /\ todo \subseteq Dirs
    BY DEF Init
  <2>5. prices \in PriceTables /\ foes \in FoeSets /\ origin \in Origins
        /\ movement \in Movements
    BY DEF Init
  <2> QED BY <2>2, <2>3, <2>4, <2>5, Zenon DEF TypeOK
<1>2. TypeOK /\ [FloodNext]_<<job, floodVars>> => TypeOK'
  <2> SUFFICES ASSUME TypeOK, [FloodNext]_<<job, floodVars>> PROVE TypeOK'
    OBVIOUS
  <2>1. ASSUME NEW d \in Dirs, Relax(d) PROVE TypeOK'
    <3> DEFINE here == Head(src).tile
               n == Towards(here, d)
               cost == map[here] + prices[n]
    <3>1. /\ todo' = todo \ {d} /\ src' = src /\ src # <<>>
          /\ prices' = prices /\ foes' = foes
          /\ origin' = origin /\ movement' = movement
          /\ \/ /\ n \in Tiles /\ cost \in Nat /\ cost < 255
                /\ map' = [map EXCEPT ![n] = cost]
                /\ dst' = Append(dst, [tile |-> n, connexion |-> d])
             \/ map' = map /\ dst' = dst
      BY <2>1, RelaxStep
    <3> HIDE DEF here, n, cost
    <3>2. map' \in [Tiles -> 0 .. 255]
      <4>1. map \in [Tiles -> 0 .. 255]
        BY DEF TypeOK
      <4>2. ASSUME cost \in Nat, cost < 255
            PROVE  [map EXCEPT ![n] = cost] \in [Tiles -> 0 .. 255]
        <5>1. cost \in 0 .. 255
          BY <4>2
        <5> QED BY <4>1, <5>1
      <4> QED BY <3>1, <4>1, <4>2, Zenon
    <3>3. dst' \in Seq(Entry)
      <4>1. n \in Tiles => [tile |-> n, connexion |-> d] \in Entry
        BY DEF Entry
      <4> QED BY <3>1, <4>1 DEF TypeOK
    <3> QED BY <3>1, <3>2, <3>3 DEF TypeOK
  <2>2. CASE NextEntry
    <3>1. Tail(src) \in Seq(Entry)
      BY <2>2 DEF NextEntry, TypeOK
    <3> QED BY <2>2, <3>1, OnwardIsDirs DEF NextEntry, TypeOK, job, OnwardOf
  <2>3. CASE Swap
    BY <2>3, OnwardIsDirs DEF Swap, TypeOK, job
  <2>4. CASE UNCHANGED <<job, floodVars>>
    BY <2>4 DEF TypeOK, job, floodVars
  <2> QED BY <2>1, <2>2, <2>3, <2>4 DEF FloodNext
<1> QED BY <1>1, <1>2, PTL DEF FloodSpec

----------------------------------------------------------------------------
(* A map that holds the origin only is paid for.                             *)
LEMMA InitCosts == Init /\ TypeOK => CostsArePaid
BY Ranges DEF Init, CostsArePaid, Unreached

(* A lowered tile is paid for by the tile whose entry was read; lowering it  *)
(* takes nothing from the tiles it pays for.                                 *)
LEMMA RelaxCosts ==
  ASSUME TypeOK, CostsArePaid, NEW d \in Dirs, Relax(d)
  PROVE  CostsArePaid'
<1> DEFINE here == Head(src).tile
           n == Towards(here, d)
           cost == map[here] + prices[n]
<1>1. here \in Tiles /\ prices' = prices /\ foes' = foes
      /\ origin' = origin /\ movement' = movement
  BY RelaxStep
<1>2. CASE map' = map
  BY <1>1, <1>2 DEF CostsArePaid
<1>3. CASE /\ n \in Tiles /\ cost < map[n] /\ n \notin foes
           /\ cost <= movement /\ cost \in Nat /\ cost < 255
           /\ map' = [map EXCEPT ![n] = cost]
  <2>1. here \in Neighbours(n) /\ here # n
    BY <1>1, <1>3, StepThere
  <2> HIDE DEF here, n
  <2>2. /\ map \in [Tiles -> Nat] /\ prices \in [Tiles -> Nat]
        /\ prices[n] >= 1 /\ movement \in Nat
    BY <1>3, Ranges
  <2>3. map'[n] = cost /\ \A t \in Tiles \ {n} : map'[t] = map[t]
    BY <1>3, <2>2
  <2>4. n # origin /\ map[here] # 255
    BY <1>1, <1>3, <2>2 DEF CostsArePaid
  <2>5. map'[origin] = 0
    BY <2>3, <2>4, Ranges DEF CostsArePaid
  <2>6. ASSUME NEW k \in Tiles \ {origin}, map'[k] # 255
        PROVE  /\ map'[k] <= movement /\ k \notin foes
               /\ \E t \in Neighbours(k) :
                    map'[t] # 255 /\ map'[t] + prices[k] <= map'[k]
    <3>1. CASE k = n
      <4>1. map'[here] = map[here]
        BY <1>1, <2>1, <2>3
      <4> QED BY <1>3, <2>1, <2>2, <2>3, <2>4, <3>1, <4>1
    <3>2. CASE k # n
      <4>1. map'[k] = map[k]
        BY <2>3, <3>2
      <4>2. PICK t \in Neighbours(k) :
              map[t] # 255 /\ map[t] + prices[k] <= map[k]
        BY <2>6, <4>1 DEF CostsArePaid, Unreached
      <4>3. t \in Tiles
        BY DEF Neighbours
      <4>4. map'[t] <= map[t] /\ map'[t] # 255 /\ map'[t] \in Nat
        BY <1>3, <2>2, <2>3, <4>2, <4>3
      <4>5. map'[t] + prices[k] <= map'[k]
        <5>1. map[t] \in Nat /\ map[k] \in Nat /\ prices[k] \in Nat
          BY <2>2, <4>3
        <5>2. map[t] + prices[k] <= map'[k]
          BY <4>1, <4>2
        <5>3. map'[t] \in Nat /\ map'[t] <= map[t] /\ map'[k] \in Nat
          BY <4>1, <4>4, <5>1
        <5> QED BY <5>1, <5>2, <5>3
      <4> QED BY <2>6, <4>1, <4>4, <4>5 DEF CostsArePaid, Unreached
    <3> QED BY <3>1, <3>2
  <2> QED BY <1>1, <2>5, <2>6 DEF CostsArePaid, Unreached
<1>4. \/ map' = map
      \/ /\ n \in Tiles /\ cost < map[n] /\ n \notin foes
         /\ cost <= movement /\ cost \in Nat /\ cost < 255
         /\ map' = [map EXCEPT ![n] = cost]
  BY RelaxStep, ZenonT(60)
<1> HIDE DEF here, n, cost
<1> QED BY <1>2, <1>3, <1>4

(* Every cost in the map is paid for by a neighbour, at every moment of the  *)
(* flood (CostsArePaid).                                                     *)
THEOREM FloodCosts == FloodSpec => []CostsArePaid
<1>1. ASSUME TypeOK, CostsArePaid, [FloodNext]_<<job, floodVars>>
      PROVE  CostsArePaid'
  <2>1. CASE NextEntry \/ Swap \/ UNCHANGED <<job, floodVars>>
    BY <1>1, <2>1 DEF NextEntry, Swap, job, floodVars, CostsArePaid
  <2> QED BY <1>1, <2>1, RelaxCosts DEF FloodNext
<1> QED BY <1>1, InitCosts, FloodTypes, PTL DEF FloodSpec

----------------------------------------------------------------------------
(* What the origin can gain is pending in the first entry.                   *)
LEMMA InitGains == Init /\ TypeOK => GainsArePending
<1> SUFFICES ASSUME Init, TypeOK, NEW t \in Tiles, NEW e \in Dirs, map[t] # 255
             PROVE  Pending(t, e)
  BY DEF GainsArePending, Unreached
<1>1. t = origin
  BY Ranges DEF Init, Unreached
<1>2. Len(dst) = 1 /\ dst[1] = [tile |-> origin, connexion |-> Start]
  BY DEF Init
<1>3. e \in Onward(dst[1])
  BY <1>2 DEF Onward
<1> QED BY <1>1, <1>2, <1>3 DEF Pending, PendingIn

(* What is pending stays pending, but for the step just tried.              *)
LEMMA RelaxPending ==
  ASSUME TypeOK, NEW d \in Dirs, Relax(d), NEW t, NEW e, Pending(t, e),
         ~(t = Head(src).tile /\ e = d)
  PROVE  Pending(t, e)'
<1>1. /\ src' = src /\ todo' = todo \ {d} /\ dst \in Seq(Entry)
      /\ dst' = dst \/ \E x : dst' = Append(dst, x)
  BY RelaxStep DEF TypeOK
<1>2. CASE PendingIn(dst, 1, t, e)
  <2>1. PICK i \in 1 .. Len(dst) : dst[i].tile = t /\ e \in Onward(dst[i])
    BY <1>2 DEF PendingIn
  <2>2. i \in 1 .. Len(dst') /\ dst'[i] = dst[i]
    BY <1>1
  <2> QED BY <2>1, <2>2 DEF Pending, PendingIn
<1>3. CASE PendingIn(src, 2, t, e)
  BY <1>1, <1>3 DEF Pending
<1>4. CASE src # <<>> /\ Head(src).tile = t /\ e \in todo
  BY <1>1, <1>4 DEF Pending
<1> QED BY <1>2, <1>3, <1>4 DEF Pending

(* Trying a step settles it; lowering a tile makes its own steps pending.    *)
LEMMA RelaxGains ==
  ASSUME TypeOK, GainsArePending, NEW d \in Dirs, Relax(d)
  PROVE  GainsArePending'
<1> DEFINE here == Head(src).tile
           n == Towards(here, d)
           cost == map[here] + prices[n]
<1>1. /\ here \in Tiles /\ prices' = prices /\ foes' = foes
      /\ movement' = movement /\ dst \in Seq(Entry)
  BY RelaxStep DEF TypeOK
<1>2. /\ map \in [Tiles -> Nat] /\ prices \in [Tiles -> Nat]
      /\ \A t \in Tiles : prices[t] >= 1
      /\ movement \in Nat
  BY Ranges
<1> SUFFICES ASSUME NEW t \in Tiles, NEW e \in Dirs, Towards(t, e) \in Tiles,
                    map'[t] # 255
             PROVE  Settled(t, Towards(t, e))' \/ Pending(t, e)'
  BY DEF GainsArePending, Unreached
<1> DEFINE k == Towards(t, e)
<1>3. CASE map' = map /\ (n \in Tiles =>
             \/ cost >= map[n] \/ n \in foes \/ cost > movement)
  <2>1. CASE t = here /\ e = d
    BY <1>1, <1>2, <1>3, <2>1 DEF Settled
  <2>2. CASE ~(t = here /\ e = d)
    <3>1. Settled(t, k) => Settled(t, k)'
      BY <1>1, <1>3 DEF Settled
    <3>2. Settled(t, k) \/ Pending(t, e)
      BY <1>3 DEF GainsArePending, Unreached
    <3> QED BY <2>2, <3>1, <3>2, RelaxPending
  <2> QED BY <2>1, <2>2
<1>4. CASE /\ n \in Tiles /\ cost < map[n] /\ cost \in Nat /\ cost < 255
           /\ map' = [map EXCEPT ![n] = cost]
           /\ dst' = Append(dst, [tile |-> n, connexion |-> d])
  <2>1. here # n /\ Towards(n, Back[d]) = here
    BY <1>1, <1>4, StepThere
  <2> HIDE DEF here, n
  <2>2. map'[n] = cost /\ \A x \in Tiles \ {n} : map'[x] = map[x]
    BY <1>2, <1>4
  <2>3. \A x \in Tiles : map'[x] \in Nat /\ map'[x] <= map[x]
    BY <1>2, <1>4, <2>2
  <2>4. CASE t = n /\ e = Back[d]
    <3>1. k = here /\ map'[k] = map[here]
      BY <1>1, <2>1, <2>2, <2>4
    <3>2. map[here] <= cost + prices[here]
      BY <1>1, <1>2, <1>4
    <3> QED BY <1>1, <2>2, <2>4, <3>1, <3>2 DEF Settled
  <2>5. CASE t = n /\ e # Back[d]
    <3> DEFINE new == [tile |-> n, connexion |-> d]
    <3>1. Len(dst') = Len(dst) + 1 /\ dst'[Len(dst) + 1] = new
      BY <1>1, <1>4
    <3>2. e \in Onward(new)
      BY <2>5, DirsAre DEF Onward
    <3>3. Len(dst) + 1 \in 1 .. Len(dst')
      BY <1>1, <3>1
    <3>4. new.tile = t
      BY <2>5
    <3> HIDE DEF new
    <3> QED BY <3>1, <3>2, <3>3, <3>4 DEF Pending, PendingIn
  <2>6. CASE t # n
    <3>1. map'[t] = map[t]
      BY <2>2, <2>6
    <3>2. Settled(t, k) \/ Pending(t, e)
      BY <3>1 DEF GainsArePending, Unreached
    <3>3. Settled(t, k) => Settled(t, k)'
      <4>1. map'[k] <= map[k] /\ map'[k] \in Nat
        BY <2>3
      <4> HIDE DEF k
      <4> QED BY <1>1, <1>2, <3>1, <4>1, k \in Tiles DEF Settled, k
    <3>4. CASE t = here /\ e = d
      <4>1. k = n
        BY <3>4 DEF n
      <4> QED BY <1>1, <1>2, <1>4, <2>2, <3>1, <3>4, <4>1 DEF Settled
    <3>5. CASE ~(t = here /\ e = d)
      BY <3>2, <3>3, <3>5, RelaxPending DEF here
    <3> QED BY <3>4, <3>5
  <2> QED BY <2>4, <2>5, <2>6
<1> QED BY <1>3, <1>4, RelaxStep

(* Moving on in src, or swapping the pools, loses no pending step.           *)
LEMMA TurnPending ==
  ASSUME TypeOK, NextEntry \/ Swap, NEW t, NEW e, Pending(t, e)
  PROVE  Pending(t, e)'
<1>1. src \in Seq(Entry) /\ dst \in Seq(Entry)
  BY DEF TypeOK
<1>2. CASE NextEntry
  <2>1. src # <<>> /\ todo = {} /\ src' = Tail(src) /\ dst' = dst
        /\ todo' = OnwardOf(Tail(src))
    BY <1>2 DEF NextEntry
  <2>2. CASE PendingIn(dst, 1, t, e)
    BY <2>1, <2>2 DEF Pending
  <2>3. CASE PendingIn(src, 2, t, e)
    <3>1. PICK i \in 2 .. Len(src) : src[i].tile = t /\ e \in Onward(src[i])
      BY <2>3 DEF PendingIn
    <3>2. /\ Len(src') = Len(src) - 1 /\ i - 1 \in 1 .. Len(src')
          /\ src'[i - 1] = src[i] /\ src' # <<>>
      <4>1. Len(Tail(src)) = Len(src) - 1 /\ Len(src) \in Nat
        BY <1>1, <2>1
      <4>2. i - 1 \in 1 .. Len(Tail(src)) /\ i = (i - 1) + 1
        BY <3>1, <4>1
      <4>3. Tail(src)[i - 1] = src[i]
        BY <1>1, <2>1, <4>1, <4>2
      <4>4. Tail(src) # <<>>
        BY <4>2
      <4> QED BY <2>1, <4>1, <4>2, <4>3, <4>4
    <3>3. CASE i = 2
      <4>1. Head(src') = src[2]
        BY <3>2, <3>3
      <4>2. todo' = Onward(src[2])
        BY <2>1, <3>2, <4>1 DEF OnwardOf
      <4> QED BY <3>1, <3>2, <3>3, <4>1, <4>2 DEF Pending
    <3>4. CASE i # 2
      <4>1. i - 1 \in 2 .. Len(src')
        BY <3>1, <3>2, <3>4
      <4> QED BY <3>1, <3>2, <4>1 DEF Pending, PendingIn
    <3> QED BY <3>3, <3>4
  <2> QED BY <2>1, <2>2, <2>3 DEF Pending
<1>3. CASE Swap
  <2>1. src = <<>> /\ todo = {} /\ src' = dst /\ todo' = OnwardOf(dst)
    BY <1>3 DEF Swap, TypeOK
  <2>2. PICK i \in 1 .. Len(dst) : dst[i].tile = t /\ e \in Onward(dst[i])
    BY <2>1 DEF Pending, PendingIn
  <2>3. CASE i = 1
    <3>1. dst # <<>> /\ Head(dst) = dst[1]
      BY <1>1, <2>2
    <3> QED BY <2>1, <2>2, <2>3, <3>1 DEF Pending, OnwardOf
  <2>4. CASE i # 1
    <3>1. i \in 2 .. Len(src')
      BY <1>1, <2>1, <2>2, <2>4
    <3> QED BY <2>1, <2>2, <3>1 DEF Pending, PendingIn
  <2> QED BY <2>3, <2>4
<1> QED BY <1>2, <1>3

(* No gain is forgotten at any moment of the flood (GainsArePending).        *)
THEOREM FloodGains == FloodSpec => []GainsArePending
<1>1. ASSUME TypeOK, GainsArePending, [FloodNext]_<<job, floodVars>>
      PROVE  GainsArePending'
  <2>1. CASE NextEntry \/ Swap
    <3>1. /\ map' = map /\ prices' = prices /\ foes' = foes
          /\ movement' = movement
      BY <2>1 DEF NextEntry, Swap, job
    <3>2. \A t \in Tiles, k \in Tiles : Settled(t, k)' <=> Settled(t, k)
      BY <3>1 DEF Settled
    <3> QED BY <1>1, <2>1, <3>1, <3>2, TurnPending DEF GainsArePending
  <2>2. CASE UNCHANGED <<job, floodVars>>
    <3>1. /\ map' = map /\ prices' = prices /\ foes' = foes /\ todo' = todo
          /\ movement' = movement /\ src' = src /\ dst' = dst
      BY <2>2 DEF job, floodVars
    <3> QED BY <1>1, <3>1 DEF GainsArePending, Settled, Pending, PendingIn
  <2> QED BY <1>1, <2>1, <2>2, RelaxGains DEF FloodNext
<1> QED BY <1>1, InitGains, FloodTypes, PTL DEF FloodSpec

----------------------------------------------------------------------------
(* The promise is stated over the same grid.                                *)
LEMMA SameGrid ==
  /\ Promise!Tiles = Tiles /\ Promise!Unreached = 255
  /\ \A t : Promise!Neighbours(t) = Neighbours(t)
<1>1. Promise!Tiles = Tiles /\ Promise!Unreached = 255
  BY DEF Promise!Tiles, Tiles, Promise!Unreached
<1>2. Promise!Left = 0 /\ Promise!Right = 1 /\ Promise!Down = 2 /\ Promise!Up = 3
  BY DEF Promise!Left, Promise!Right, Promise!Down, Promise!Up
<1>3. Left = 0 /\ Right = 1 /\ Down = 2 /\ Up = 3
  BY DEF Left, Right, Down, Up
<1>4. Promise!Dirs = Dirs
  BY <1>2, <1>3 DEF Promise!Dirs, Dirs
<1>5. \A t, d : Promise!Towards(t, d) = Towards(t, d)
  BY <1>2, <1>3, Zenon DEF Promise!Towards, Towards
<1> QED BY <1>1, <1>4, <1>5 DEF Promise!Neighbours, Neighbours

(* When both pools are empty nothing is pending, so nothing is to be gained: *)
(* the map is a fixed point.                                                 *)
LEMMA DoneIsLeast ==
  ASSUME TypeOK, CostsArePaid, GainsArePending, Done
  PROVE  Promise!IsLeastCost(map)
<1>1. /\ map \in [Tiles -> Nat] /\ prices \in [Tiles -> Nat]
      /\ \A t \in Tiles : prices[t] >= 1 /\ map[t] <= 255
      /\ movement \in Nat /\ movement <= 124
  BY Ranges
<1>2. ASSUME NEW t \in Tiles, NEW n \in Neighbours(t), map[t] # 255,
             n \notin foes, map[t] + prices[n] <= movement
      PROVE  map[n] <= map[t] + prices[n]
  <2>1. PICK d \in Dirs : n = Towards(t, d)
    BY DEF Neighbours
  <2>2. n \in Tiles
    BY DEF Neighbours
  <2>3. ~Pending(t, d)
    BY DEF Done, Pending, PendingIn
  <2>4. Settled(t, n)
    BY <1>2, <2>1, <2>2, <2>3 DEF GainsArePending, Unreached
  <2> QED BY <1>1, <1>2, <2>2, <2>4 DEF Settled
<1>3. ASSUME NEW n \in Tiles \ {origin}, map[n] # 255
      PROVE  /\ map[n] <= movement /\ n \notin foes
             /\ \E t \in Neighbours(n) :
                  map[t] # 255 /\ map[n] = map[t] + prices[n]
  <2>1. PICK t \in Neighbours(n) : map[t] # 255 /\ map[t] + prices[n] <= map[n]
    BY <1>3 DEF CostsArePaid, Unreached
  <2>2. map[n] <= movement /\ n \notin foes
    BY <1>3 DEF CostsArePaid, Unreached
  <2>3. t \in Tiles /\ n \in Neighbours(t)
    <3>1. PICK d \in Dirs : t = Towards(n, d)
      BY DEF Neighbours
    <3>2. t \in Tiles
      BY DEF Neighbours
    <3> QED BY <3>1, <3>2, StepThere
  <2>4. map[t] + prices[n] <= movement
    BY <1>1, <2>1, <2>2, <2>3
  <2>5. map[n] <= map[t] + prices[n]
    BY <1>2, <2>1, <2>2, <2>3, <2>4
  <2>6. map[n] = map[t] + prices[n]
    BY <1>1, <2>1, <2>3, <2>5
  <2> QED BY <2>1, <2>2, <2>6
<1>4. map[origin] = 0 /\ map \in [Tiles -> 0 .. 255]
  BY DEF CostsArePaid, TypeOK
<1> QED
  BY <1>2, <1>3, <1>4, SameGrid DEF Promise!IsLeastCost, Promise!Open

(* NoMap is no map of the grid, which has a tile.                           *)
LEMMA MapIsSome == TypeOK => map # NoMap
<1> SUFFICES ASSUME TypeOK PROVE map # NoMap
  OBVIOUS
<1>1. DOMAIN map = Tiles /\ origin \in Tiles
  BY Ranges
<1>2. DOMAIN NoMap = {}
  BY DEF NoMap
<1> QED BY <1>1, <1>2

(* GenerateMovementMap leaves a least-cost map, whatever the map's size, the *)
(* prices, the enemies and the allowance are.                                *)
THEOREM FloodFills == FloodSpec => FillsLeastCosts
<1> DEFINE Shown == IF Done THEN map ELSE NoMap
<1>1. ASSUME Init PROVE Promise!Init
  <2>1. Len(dst) = 1
    BY <1>1 DEF Init
  <2>2. dst # <<>>
    BY <2>1
  <2> QED BY <2>2 DEF Promise!Init, Done
<1>2. ASSUME TypeOK, TypeOK', CostsArePaid', GainsArePending',
             [FloodNext]_<<job, floodVars>>
      PROVE  [Promise!Fill]_<<Promise!job, Shown>>
  <2>1. Promise!job' = Promise!job
    <3>1. job' = job
      BY <1>2 DEF FloodNext, Relax, NextEntry, Swap, job
    <3> QED BY <3>1 DEF job, Promise!job
  <2>2. CASE Done
    <3>1. ~FloodNext
      BY <1>2, <2>2 DEF Done, FloodNext, Relax, IsNext, NextEntry, Swap, TypeOK
    <3>2. UNCHANGED <<map, src, dst>>
      BY <1>2, <3>1 DEF floodVars
    <3>3. Shown' = Shown
      BY <3>2 DEF Done
    <3> QED BY <2>1, <3>3
  <2>3. CASE ~Done /\ ~Done'
    BY <2>1, <2>3
  <2>4. CASE ~Done /\ Done'
    <3>1. Promise!IsLeastCost(map)'
      BY <1>2, <2>4, DoneIsLeast, PTL
    <3>2. Shown = NoMap /\ Shown' = map'
      BY <2>4
    <3>3. Promise!IsLeastCost(map')
      BY <2>1, <3>1 DEF Promise!job, Promise!IsLeastCost, Promise!Open
    <3>4. Promise!IsLeastCost(Shown')
      BY <3>2, <3>3
    <3> HIDE DEF Shown
    <3> QED BY <2>1, <3>2, <3>4 DEF Promise!Fill, Shown
  <2> QED BY <2>2, <2>3, <2>4
<1> QED
  BY <1>1, <1>2, FloodTypes, FloodCosts, FloodGains, PTL
  DEF FloodSpec, FillsLeastCosts, Promise!Spec

----------------------------------------------------------------------------
Rounds == Colours /\ PushedIsPaid /\ Distinct(src) /\ Distinct(dst)

(* There are two colours.                                                    *)
LEMMA ColourIsBit == \A t \in Tiles : Colour(t) \in {0, 1}
<1>1. ASSUME NEW x \in 0 .. Width - 1, NEW y \in 0 .. Height - 1
      PROVE  (x + y) % 2 \in {0, 1}
  BY SizeAssumption
<1> QED BY <1>1 DEF Tiles, Colour

(* The entries of the pools name tiles.                                      *)
LEMMA PoolTiles ==
  ASSUME TypeOK
  PROVE  /\ \A i \in DOMAIN src : src[i] \in Entry /\ src[i].tile \in Tiles
         /\ \A i \in DOMAIN dst : dst[i] \in Entry /\ dst[i].tile \in Tiles
<1>1. src \in Seq(Entry) /\ dst \in Seq(Entry)
  BY DEF TypeOK
<1>2. (\A i \in DOMAIN src : src[i] \in Entry) /\ (\A i \in DOMAIN dst : dst[i] \in Entry)
  BY <1>1
<1> QED BY <1>2 DEF Entry

(* What a pushed entry adds to the pool being written.                      *)
LEMMA PushedRound ==
  ASSUME TypeOK, Rounds, NEW d \in Dirs, src # <<>>,
         NEW here \in Tiles, here = Head(src).tile,
         NEW n \in Tiles, n = Towards(here, d),
         NEW cost \in Nat, cost = map[here] + prices[n], cost < map[n],
         map' = [map EXCEPT ![n] = cost], prices' = prices, src' = src,
         dst' = Append(dst, [tile |-> n, connexion |-> d])
  PROVE  Rounds'
<1> DEFINE new == [tile |-> n, connexion |-> d]
<1>1. /\ map \in [Tiles -> Nat] /\ prices \in [Tiles -> Nat]
      /\ src \in Seq(Entry) /\ dst \in Seq(Entry)
  BY Ranges DEF TypeOK
<1>2. here # n /\ Towards(n, Back[d]) = here /\ Colour(n) # Colour(here)
  BY StepThere
<1>3. 1 \in DOMAIN src /\ src[1].tile = here
  BY <1>1
<1>4. map'[n] = cost /\ \A t \in Tiles \ {n} : map'[t] = map[t]
  BY <1>1
<1>5. \A i \in DOMAIN dst : Colour(dst[i].tile) = Colour(n)
  <2> SUFFICES ASSUME NEW i \in DOMAIN dst PROVE Colour(dst[i].tile) = Colour(n)
    OBVIOUS
  <2>1. Colour(src[1].tile) # Colour(dst[i].tile)
    BY <1>3 DEF Rounds, Colours
  <2>2. dst[i].tile \in Tiles
    BY PoolTiles
  <2> QED BY <1>2, <1>3, <2>1, <2>2, ColourIsBit
<1>6. /\ DOMAIN dst' = DOMAIN dst \cup {Len(dst) + 1}
      /\ dst'[Len(dst) + 1] = new
      /\ \A i \in DOMAIN dst : dst'[i] = dst[i] /\ i # Len(dst) + 1
  BY <1>1
<1>7. new.tile = n /\ new.connexion = d /\ From(new) = here
  BY <1>2 DEF From
<1> HIDE DEF new
<1>8. Colours'
  <2>1. \A i \in DOMAIN dst' : Colour(dst'[i].tile) = Colour(n)
    BY <1>5, <1>6, <1>7
  <2>2. \A i \in DOMAIN src : Colour(src[i].tile) = Colour(here)
    BY <1>3 DEF Rounds, Colours
  <2> HIDE DEF Colour
  <2>3. \A i, j \in DOMAIN src' : Colour(src'[i].tile) = Colour(src'[j].tile)
    BY <2>2
  <2>4. \A i, j \in DOMAIN dst' : Colour(dst'[i].tile) = Colour(dst'[j].tile)
    BY <2>1
  <2>5. \A i \in DOMAIN src', j \in DOMAIN dst' :
          Colour(src'[i].tile) # Colour(dst'[j].tile)
    BY <1>2, <2>1, <2>2
  <2> QED BY <2>3, <2>4, <2>5 DEF Colours, Colour
<1>9. PushedIsPaid'
  <2> SUFFICES ASSUME NEW i \in DOMAIN dst', dst'[i].connexion \in Dirs
               PROVE  /\ From(dst'[i]) \in Tiles
                      /\ map'[dst'[i].tile]
                           <= map'[From(dst'[i])] + prices[dst'[i].tile]
    BY DEF PushedIsPaid, From
  <2>1. CASE i \in DOMAIN dst
    <3> DEFINE e == dst[i]
               f == From(e)
    <3>1. dst'[i] = e /\ e.tile \in Tiles /\ e.connexion \in Dirs
      BY <1>6, <2>1, PoolTiles
    <3>2. f \in Tiles /\ map[e.tile] <= map[f] + prices[e.tile]
      BY <2>1, <3>1 DEF Rounds, PushedIsPaid
    <3>3. Back[e.connexion] \in Dirs
      BY <3>1, BackIs
    <3>4. Colour(f) # Colour(e.tile)
      BY <3>1, <3>2, <3>3, StepThere DEF From
    <3>5. f # n
      BY <1>5, <2>1, <3>4
    <3> HIDE DEF f, e
    <3>6. map'[f] = map[f]
      BY <1>4, <3>2, <3>5
    <3>7. map'[e.tile] <= map[e.tile] /\ map'[e.tile] \in Nat
      BY <1>1, <1>4, <3>1
    <3>8. map'[e.tile] <= map'[f] + prices[e.tile]
      BY <1>1, <3>1, <3>2, <3>6, <3>7
    <3> QED BY <3>1, <3>2, <3>8 DEF f
  <2>2. CASE i = Len(dst) + 1
    <3>1. map'[here] = map[here]
      BY <1>2, <1>4
    <3> QED BY <1>1, <1>4, <1>6, <1>7, <2>2, <3>1
  <2> QED BY <1>6, <2>1, <2>2
<1>10. Distinct(dst)'
  <2>1. ASSUME NEW i \in DOMAIN dst PROVE dst[i] # new
    <3> SUFFICES ASSUME dst[i] = new PROVE FALSE
      OBVIOUS
    <3>1. map[n] <= map[here] + prices[n]
      BY <1>7 DEF Rounds, PushedIsPaid
    <3> QED BY <1>1, <3>1
  <2> QED BY <1>6, <2>1 DEF Rounds, Distinct
<1> QED BY <1>8, <1>9, <1>10 DEF Rounds, Distinct

(* The pools keep their colours when src moves on and when they swap.        *)
LEMMA TurnRound ==
  ASSUME TypeOK, Rounds, NextEntry \/ Swap
  PROVE  Rounds'
<1>1. src \in Seq(Entry) /\ dst \in Seq(Entry) /\ map' = map /\ prices' = prices
  BY DEF TypeOK, NextEntry, Swap, job
<1>2. CASE NextEntry
  <2>1. src # <<>> /\ src' = Tail(src) /\ dst' = dst
    BY <1>2 DEF NextEntry
  <2>2. \A i \in DOMAIN src' : src'[i] = src[i + 1] /\ i + 1 \in DOMAIN src
    BY <1>1, <2>1
  <2>3. DOMAIN src' \subseteq Int
    BY <1>1, <2>1
  <2>4. Colours'
    <3> HIDE DEF Colour
    <3> QED BY <2>1, <2>2 DEF Rounds, Colours
  <2>5. Distinct(src)'
    BY <2>2, <2>3 DEF Rounds, Distinct
  <2>6. PushedIsPaid'
    BY <1>1, <2>1 DEF Rounds, PushedIsPaid, From
  <2> QED BY <2>1, <2>4, <2>5, <2>6 DEF Rounds, Distinct
<1>3. CASE Swap
  <2>1. src' = dst /\ dst' = <<>>
    BY <1>3 DEF Swap
  <2>2. DOMAIN dst' = {}
    BY <2>1
  <2> QED BY <2>1, <2>2 DEF Rounds, Colours, PushedIsPaid, Distinct
<1> QED BY <1>2, <1>3

(* However often a flood pushes a tile, no pool holds an entry twice: at     *)
(* most four entries per tile, and one more for the start.                   *)
THEOREM FloodPools == FloodSpec => []NoEntryTwice
<1>1. ASSUME Init, TypeOK PROVE Rounds
  <2>1. /\ DOMAIN src = {} /\ DOMAIN dst = {1}
        /\ dst[1] = [tile |-> origin, connexion |-> Start]
    BY <1>1 DEF Init
  <2>2. dst[1].connexion \notin Dirs
    BY <2>1, DirsAre
  <2> QED BY <2>1, <2>2 DEF Rounds, Colours, PushedIsPaid, Distinct
<1>2. ASSUME TypeOK, Rounds, [FloodNext]_<<job, floodVars>> PROVE Rounds'
  <2>1. ASSUME NEW d \in Dirs, Relax(d) PROVE Rounds'
    <3> DEFINE here == Head(src).tile
               n == Towards(here, d)
               cost == map[here] + prices[n]
    <3>1. /\ src # <<>> /\ here \in Tiles /\ src' = src /\ prices' = prices
          /\ \/ /\ n \in Tiles /\ cost < map[n] /\ cost \in Nat
                /\ map' = [map EXCEPT ![n] = cost]
                /\ dst' = Append(dst, [tile |-> n, connexion |-> d])
             \/ map' = map /\ dst' = dst
      BY <1>2, <2>1, RelaxStep
    <3>2. CASE map' = map /\ dst' = dst
      BY <1>2, <3>1, <3>2 DEF Rounds, Colours, PushedIsPaid, Distinct, From
    <3> QED BY <1>2, <3>1, <3>2, PushedRound
  <2>2. CASE UNCHANGED <<job, floodVars>>
    <3>1. src' = src /\ dst' = dst /\ map' = map /\ prices' = prices
      BY <2>2 DEF job, floodVars
    <3> QED BY <1>2, <3>1 DEF Rounds, Colours, PushedIsPaid, Distinct, From
  <2> QED BY <1>2, <2>1, <2>2, TurnRound DEF FloodNext
<1>3. Rounds => NoEntryTwice
  BY DEF Rounds, Distinct, NoEntryTwice
<1> QED BY <1>1, <1>2, <1>3, FloodTypes, PTL DEF FloodSpec
-----------------------------------------------------------------------------
(* Induction. *)

(* Every set of natural numbers that is not empty has a least member.       *)
LEMMA LeastNumber ==
  ASSUME NEW T \in SUBSET Nat, T # {}
  PROVE  \E x \in T : \A y \in T : x <= y
<1> DEFINE R == {ss \in Nat \X Nat : ss[1] < ss[2]}
<1>1. IsWellFoundedOn(R, Nat)
  BY NatLessThanWellFounded DEF OpToRel
<1>2. PICK x \in T : \A y \in T : ~ (<<y, x>> \in R)
  BY <1>1, WFMin
<1>3. \A y \in T : y \in Nat /\ x \in Nat /\ ~ (y < x)
  BY <1>2
<1>4. \A y \in T : x <= y
  BY <1>3
<1> QED BY <1>4

(* What holds of 0, and of the next number whenever of one, holds of all:   *)
(* induction, with the numbers it holds of as a set.                        *)
LEMMA AllNumbers ==
  ASSUME NEW C, 0 \in C, \A n \in Nat : n \in C => n + 1 \in C
  PROVE  Nat \subseteq C
<1>1. SUFFICES ASSUME Nat \ C # {} PROVE FALSE
  OBVIOUS
<1>2. PICK x \in Nat \ C : \A y \in Nat \ C : x <= y
  BY <1>1, LeastNumber
<1>3. x # 0 /\ x - 1 \in Nat
  BY <1>2
<1>4. x - 1 \in C
  BY <1>2, <1>3
<1> QED BY <1>2, <1>3, <1>4

(* The same up to a bound.                                                  *)
LEMMA UpTo ==
  ASSUME NEW k \in Nat, NEW C, 0 \in C, \A n \in 1 .. k : n - 1 \in C => n \in C
  PROVE  0 .. k \subseteq C
<1> DEFINE D == {n \in Nat : n <= k => n \in C}
<1>1. 0 \in D
  OBVIOUS
<1>2. ASSUME NEW n \in Nat, n \in D PROVE n + 1 \in D
  <2>1. n + 1 <= k => n + 1 \in 1 .. k /\ n + 1 - 1 \in C
    BY <1>2
  <2> QED BY <2>1
<1>3. Nat \subseteq D
  <2> HIDE DEF D
  <2> QED BY <1>1, <1>2, AllNumbers
<1> QED BY <1>3

(* g is defined by recursion from a, with a step for each number.           *)
Recursive(g, S, a, k, step) ==
  /\ g \in [0 .. k -> S]
  /\ g[0] = a
  /\ \A i \in 1 .. k : g[i] = step[i][g[i - 1]]

(* A function that is defined by recursion exists, and where it takes its   *)
(* values.                                                                  *)
LEMMA Recursion ==
  ASSUME NEW S, NEW a \in S, NEW k \in Nat, NEW step \in [1 .. k -> [S -> S]]
  PROVE  \E g : Recursive(g, S, a, k, step)
<1> DEFINE C == {n \in 0 .. k : \E g : Recursive(g, S, a, n, step)}
<1>1. 0 \in C
  <2> DEFINE g == [i \in 0 .. 0 |-> a]
  <2>1. g \in [0 .. 0 -> S] /\ g[0] = a
    OBVIOUS
  <2>2. 1 .. 0 = {} /\ 0 \in 0 .. k
    OBVIOUS
  <2> HIDE DEF g
  <2>3. Recursive(g, S, a, 0, step)
    BY <2>1, <2>2 DEF Recursive
  <2> QED BY <2>2, <2>3
<1>2. ASSUME NEW n \in 1 .. k, n - 1 \in C PROVE n \in C
  <2>1. PICK g : Recursive(g, S, a, n - 1, step)
    BY <1>2
  <2> DEFINE b == step[n][g[n - 1]]
             h == [i \in 0 .. n |-> IF i = n THEN b ELSE g[i]]
  <2>2. g \in [0 .. n - 1 -> S] /\ g[0] = a
        /\ \A i \in 1 .. n - 1 : g[i] = step[i][g[i - 1]]
    BY <2>1 DEF Recursive
  <2>3. n - 1 \in 0 .. n - 1 /\ g[n - 1] \in S /\ b \in S /\ n \in 0 .. k
    BY <2>2
  <2>4. h \in [0 .. n -> S]
    <3>1. \A i \in 0 .. n : i # n => g[i] \in S
      BY <2>2
    <3> HIDE DEF b
    <3> QED BY <2>3, <3>1
  <2>5. h[0] = a
    BY <2>2
  <2>6. ASSUME NEW i \in 1 .. n PROVE h[i] = step[i][h[i - 1]]
    <3>1. i - 1 \in 0 .. n - 1 /\ h[i - 1] = g[i - 1]
      OBVIOUS
    <3>2. CASE i = n
      <4>1. h[n] = b
        BY <3>2
      <4> QED BY <3>1, <3>2, <4>1
    <3>3. CASE i # n
      <4>1. i \in 1 .. n - 1 /\ h[i] = g[i]
        BY <3>3
      <4> QED BY <2>2, <3>1, <3>3, <4>1
    <3> QED BY <3>2, <3>3
  <2> HIDE DEF h, b
  <2>7. Recursive(h, S, a, n, step)
    BY <2>4, <2>5, <2>6 DEF Recursive
  <2> QED BY <2>3, <2>7
<1>3. 0 .. k \subseteq C
  <2> HIDE DEF C
  <2> QED BY <1>1, <1>2, UpTo
<1>4. k \in C
  BY <1>3
<1> QED BY <1>4

----------------------------------------------------------------------------
(* Division with remainder is what one multiplies out.                      *)
LEMMA Divided ==
  ASSUME NEW b \in Nat \ {0}, NEW q \in Nat, NEW r \in 0 .. b - 1
  PROVE  /\ b * q + r \in Nat
         /\ (b * q + r) % b = r /\ (b * q + r) \div b = q
<1> DEFINE a == b * q + r
           d == a \div b
<1>1. b * q \in Nat /\ a \in Nat
  OBVIOUS
<1>2. a % b \in 0 .. b - 1 /\ a = b * d + (a % b) /\ d \in Int
  <2> HIDE DEF a
  <2> QED BY <1>1
<1>3. d = q
  <2> DEFINE e == d - q
  <2>1. b * d - b * q = b * e /\ e \in Int
    BY <1>2
  <2>2. b * e < b /\ b * e > -b
    <3> HIDE DEF e, d
    <3> QED BY <1>1, <1>2, <2>1
  <2>3. CASE e >= 1
    <3>1. b * e >= b
      <4> HIDE DEF e
      <4> QED BY <2>1, <2>3
    <3> QED BY <2>1, <2>2, <3>1
  <2>4. CASE e <= -1
    <3>1. b * e <= -b
      <4> HIDE DEF e
      <4> QED BY <2>1, <2>4
    <3> QED BY <2>1, <2>2, <3>1
  <2>5. e = 0
    <3> HIDE DEF e
    <3> QED BY <2>1, <2>3, <2>4
  <2> QED BY <1>2, <2>5
<1>4. a % b = r
  <2> HIDE DEF d
  <2> QED BY <1>1, <1>2, <1>3
<1> QED BY <1>1, <1>3, <1>4

(* A step to a neighbour, and back.                                         *)
LEMMA NextTo ==
  ASSUME NEW t \in Tiles, NEW n \in Neighbours(t)
  PROVE  n \in Tiles /\ t \in Neighbours(n) /\ n # t
BY StepThere DEF Neighbours

(* The turns name tiles,                                                    *)
LEMMA TurnIsTile == \A i \in Nat : InTurn(i) \in Tiles
<1> SUFFICES ASSUME NEW i \in Nat PROVE InTurn(i) \in Tiles
  OBVIOUS
<1>1. Width \in Nat \ {0} /\ Height \in Nat \ {0}
  BY SizeAssumption
<1>2. i % Width \in 0 .. Width - 1 /\ i \div Width \in Nat
  BY <1>1
<1>3. (i \div Width) % Height \in 0 .. Height - 1
  BY <1>1, <1>2
<1> QED BY <1>2, <1>3 DEF InTurn, Tiles

(* and every tile has its turn in every round.                              *)
LEMMA EveryTileHasItsTurn ==
  ASSUME NEW t \in Tiles, NEW v \in Nat
  PROVE  \E i \in v * Width * Height + 1 .. (v + 1) * Width * Height :
           InTurn(i) = t
<1> DEFINE N == Width * Height
<1>1. Width \in Nat \ {0} /\ Height \in Nat \ {0}
  BY SizeAssumption
<1>2. PICK x \in 0 .. Width - 1, y \in 0 .. Height - 1 : t = <<x, y>>
  BY DEF Tiles
<1>3. ASSUME NEW r \in Nat
      PROVE  /\ InTurn(Width * (Height * r + y) + x) = t
             /\ Width * (Height * r + y) + x \in Nat
  <2>1. /\ Height * r + y \in Nat /\ (Height * r + y) % Height = y
    BY <1>1, Divided
  <2> DEFINE q == Height * r + y
  <2>2. /\ (Width * q + x) % Width = x /\ (Width * q + x) \div Width = q
        /\ Width * q + x \in Nat
    <3> HIDE DEF q
    <3>1. q \in Nat
      BY <2>1 DEF q
    <3> QED BY <1>1, <3>1, Divided
  <2> QED BY <1>2, <2>1, <2>2 DEF InTurn
<1>4. N \in Nat \ {0} /\ Width <= N
  BY <1>1
<1>5. /\ v * Width * Height = v * N
      /\ (v + 1) * Width * Height = v * N + N
  BY <1>1
<1>6. ASSUME NEW r \in Nat
      PROVE  Width * (Height * r + y) + x = r * N + (Width * y + x)
  BY <1>1
<1>7. Width * y + x \in 0 .. N - 1
  <2>1. Width * y <= Width * (Height - 1)
    BY <1>1
  <2>2. Width * (Height - 1) = N - Width
    BY <1>1
  <2>3. Width * y \in Nat
    BY <1>1
  <2> HIDE DEF N
  <2> QED BY <1>1, <1>4, <2>1, <2>2, <2>3
<1>8. CASE Width * y + x > 0
  <2> DEFINE i == Width * (Height * v + y) + x
             s == Width * y + x
  <2>1. i = v * N + s /\ s \in 1 .. N - 1
    BY <1>6, <1>7, <1>8
  <2>2. v * N \in Nat
    BY <1>4
  <2>3. i \in v * N + 1 .. v * N + N
    <3> HIDE DEF i, s, N
    <3> QED BY <1>4, <2>1, <2>2
  <2> HIDE DEF i, N
  <2>4. InTurn(i) = t
    BY <1>3 DEF i
  <2> QED BY <1>5, <2>3, <2>4
<1>9. CASE Width * y + x = 0
  <2> DEFINE i == Width * (Height * (v + 1) + y) + x
  <2>1. i = (v + 1) * N + 0
    BY <1>6, <1>9
  <2>2. v * N \in Nat /\ (v + 1) * N = v * N + N
    BY <1>4
  <2>3. i \in v * N + 1 .. v * N + N
    <3> HIDE DEF i, N
    <3> QED BY <1>4, <2>1, <2>2
  <2>4. InTurn(i) = t
    BY <1>3
  <2> HIDE DEF i, N
  <2> QED BY <1>5, <2>3, <2>4
<1> QED BY <1>7, <1>8, <1>9

----------------------------------------------------------------------------
(* What the job of the flood is known to be once it has begun.              *)
JobOK ==
  /\ prices \in [Tiles -> Price]
  /\ foes \subseteq Tiles
  /\ origin \in Tiles \ foes
  /\ movement \in 0 .. MaxMovement

CostMap == [Tiles -> 0 .. 255]

(* One tile takes its cheapest offer: nothing else changes, the tile gets no *)
(* dearer, and no offer within the allowance stays better.                  *)
LEMMA RelaxedIs ==
  ASSUME prices \in [Tiles -> Price], NEW c \in CostMap, NEW n \in Tiles,
         NEW m \in Nat
  PROVE  /\ Relaxed(c, n, m) \in CostMap
         /\ \A t \in Tiles : t # n => Relaxed(c, n, m)[t] = c[t]
         /\ Relaxed(c, n, m)[n] <= c[n]
         /\ \/ Relaxed(c, n, m) = c
            \/ /\ n \notin foes /\ Relaxed(c, n, m)[n] <= m
               /\ Relaxed(c, n, m)[n] < c[n]
               /\ \E k \in Neighbours(n) :
                    Relaxed(c, n, m)[n] = c[k] + prices[n]
         /\ n \notin foes =>
              \A k \in Neighbours(n) :
                c[k] + prices[n] <= m => Relaxed(c, n, m)[n] <= c[k] + prices[n]
<1> DEFINE offers == {c[t] + prices[n] : t \in Neighbours(n)}
           open == {x \in offers : x < c[n] /\ x <= m /\ n \notin foes}
           d == Relaxed(c, n, m)
<1>1. /\ Neighbours(n) \subseteq Tiles /\ c[n] \in 0 .. 255
      /\ prices[n] \in 1 .. 255 /\ \A k \in Tiles : c[k] \in 0 .. 255
  BY DEF CostMap, Price, Neighbours
<1>2. ASSUME NEW k \in Neighbours(n) PROVE c[k] + prices[n] \in Nat
  <2>1. k \in Tiles
    BY <1>1
  <2>2. c[k] \in Nat /\ prices[n] \in Nat
    BY <1>1, <2>1
  <2> QED BY <2>2
<1>3. open \in SUBSET Nat
  BY <1>2
<1>4. CASE open = {}
  <2>1. d = c
    BY <1>4 DEF Relaxed
  <2>2. ASSUME n \notin foes, NEW k \in Neighbours(n), c[k] + prices[n] <= m
        PROVE  c[n] <= c[k] + prices[n]
    <3>1. ~ (c[k] + prices[n] < c[n])
      BY <1>4, <2>2
    <3> QED BY <1>1, <1>2, <3>1
  <2> QED BY <1>1, <2>1, <2>2
<1>5. CASE open # {}
  <2> DEFINE x == Min(open)
  <2>1. x \in open /\ \A y \in open : x <= y
    <3>1. \E z \in open : \A y \in open : z <= y
      <4> HIDE DEF open
      <4> QED BY <1>3, <1>5, LeastNumber
    <3> QED BY <3>1 DEF Min
  <2>2. d = [c EXCEPT ![n] = x]
    BY <1>5 DEF Relaxed
  <2>3. x \in Nat /\ x < c[n] /\ x <= m /\ n \notin foes
        /\ \E k \in Neighbours(n) : x = c[k] + prices[n]
    BY <1>3, <2>1
  <2>4. d[n] = x /\ (\A t \in Tiles : t # n => d[t] = c[t]) /\ d \in CostMap
    <3> HIDE DEF x, d
    <3>1. x \in 0 .. 255
      <4>1. c[n] \in 0 .. 255 /\ x \in Nat /\ x < c[n]
        BY <1>1, <2>3
      <4> QED BY <4>1
    <3> QED BY <2>2, <3>1 DEF CostMap
  <2>5. ASSUME NEW k \in Neighbours(n), c[k] + prices[n] <= m
        PROVE  x <= c[k] + prices[n]
    <3>1. CASE c[k] + prices[n] < c[n]
      <4>1. c[k] + prices[n] \in open
        BY <2>3, <2>5, <3>1
      <4> HIDE DEF open, x
      <4> QED BY <2>1, <4>1
    <3>2. CASE ~ (c[k] + prices[n] < c[n])
      <4> HIDE DEF open, x
      <4> QED BY <1>1, <1>2, <2>3, <3>2
    <3> QED BY <3>1, <3>2
  <2> HIDE DEF x, open
  <2> QED BY <1>1, <2>3, <2>4, <2>5
<1> QED BY <1>4, <1>5

(* The part of it that every tile sees: it never gets dearer.               *)
LEMMA RelaxedLowers ==
  ASSUME prices \in [Tiles -> Price], NEW c \in CostMap, NEW n \in Tiles,
         NEW m \in Nat
  PROVE  /\ \A t \in Tiles : t # n => Relaxed(c, n, m)[t] = c[t]
         /\ Relaxed(c, n, m)[n] <= c[n]
BY RelaxedIs

(* A free tile takes the offer of every neighbour the allowance pays for.    *)
LEMMA RelaxedTakes ==
  ASSUME prices \in [Tiles -> Price], NEW c \in CostMap,
         NEW n \in Tiles, n \notin foes, NEW m \in Nat
  PROVE  \A k \in Neighbours(n) :
           c[k] + prices[n] <= m => Relaxed(c, n, m)[n] <= c[k] + prices[n]
BY RelaxedIs

(* The maps of costs that LeastCosts goes through.                          *)
Turns(o, m, g) ==
  /\ g \in [0 .. m * Width * Height -> CostMap]
  /\ g[0] = [[t \in Tiles |-> Unreached] EXCEPT ![o] = 0]
  /\ \A i \in 1 .. m * Width * Height :
       g[i] = Relaxed(g[i - 1], InTurn(i), m)

(* They end with the map that LeastCosts returns.                           *)
LEMMA LeastCostsIs ==
  ASSUME JobOK, NEW o \in Tiles, NEW m \in Nat
  PROVE  \E g : Turns(o, m, g) /\ LeastCosts(o, m) = g[m * Width * Height]
<1> DEFINE K == m * Width * Height
           start == [[t \in Tiles |-> Unreached] EXCEPT ![o] = 0]
           step == [i \in 1 .. K |-> [c \in CostMap |-> Relaxed(c, InTurn(i), m)]]
           IsCosts(g) == g = [i \in 0 .. K |-> IF i = 0 THEN start
                                ELSE Relaxed(g[i - 1], InTurn(i), m)]
<1>1. K \in Nat
  BY SizeAssumption
<1>2. start \in CostMap
  BY DEF CostMap, Unreached
<1>3. step \in [1 .. K -> [CostMap -> CostMap]]
  <2>1. ASSUME NEW i \in 1 .. K, NEW c \in CostMap
        PROVE  Relaxed(c, InTurn(i), m) \in CostMap
    <3>1. i \in Nat
      BY <1>1
    <3>2. InTurn(i) \in Tiles
      BY <3>1, TurnIsTile
    <3> QED BY <3>2, RelaxedIs DEF JobOK
  <2> HIDE DEF K
  <2> QED BY <2>1
<1>4. PICK g : Recursive(g, CostMap, start, K, step)
  <2> HIDE DEF step, start, K
  <2> QED BY <1>1, <1>2, <1>3, Recursion
<1> DEFINE Defined == /\ g \in [0 .. K -> CostMap] /\ g[0] = start
                      /\ \A i \in 1 .. K : g[i] = step[i][g[i - 1]]
<1>14. Defined
  <2> HIDE DEF step, start, K
  <2> QED BY <1>4 DEF Recursive
<1>5. \A i \in 1 .. K : g[i - 1] \in CostMap
  <2> HIDE DEF K, step, start
  <2> QED BY <1>1, <1>14
<1>6. \A i \in 1 .. K : step[i][g[i - 1]] = Relaxed(g[i - 1], InTurn(i), m)
  <2> HIDE DEF K
  <2> QED BY <1>5
<1>7. IsCosts(g)
  <2>1. ASSUME NEW i \in 0 .. K
        PROVE  g[i] = IF i = 0 THEN start
                      ELSE Relaxed(g[i - 1], InTurn(i), m)
    <3>1. i = 0 \/ i \in 1 .. K
      BY <1>1
    <3> HIDE DEF step, start, K
    <3> QED BY <1>1, <1>14, <1>6, <3>1
  <2>2. g = [i \in 0 .. K |-> g[i]]
    <3> HIDE DEF step, start, K
    <3> QED BY <1>14
  <2> HIDE DEF start, K
  <2> QED BY <2>1, <2>2
<1> DEFINE f == CHOOSE f : IsCosts(f)
<1>8. IsCosts(f)
  <2> HIDE DEF IsCosts
  <2> QED BY <1>7
<1>9. LeastCosts(o, m) = f[K]
  BY DEF LeastCosts
<1>10. \A n \in 0 .. K : f[n] \in CostMap
  <2> DEFINE C == {n \in 0 .. K : f[n] \in CostMap}
  <2>1. 0 \in C
    <3> HIDE DEF f, start, K
    <3> QED BY <1>1, <1>2, <1>8
  <2>2. ASSUME NEW n \in 1 .. K, n - 1 \in C PROVE n \in C
    <3>1. f[n] = Relaxed(f[n - 1], InTurn(n), m) /\ n \in 0 .. K /\ n \in Nat
      <4> HIDE DEF f, start, K
      <4> QED BY <1>1, <1>8
    <3>2. f[n] \in CostMap
      <4> HIDE DEF f, K
      <4> QED BY <2>2, <3>1, TurnIsTile, RelaxedIs DEF JobOK
    <3> HIDE DEF f
    <3> QED BY <3>1, <3>2
  <2>3. 0 .. K \subseteq C
    <3> HIDE DEF C
    <3> QED BY <1>1, <2>1, <2>2, UpTo
  <2> QED BY <2>3
<1>11. Turns(o, m, f)
  <2> HIDE DEF f, K
  <2>1. f \in [0 .. K -> CostMap] /\ f[0] = start
    <3> HIDE DEF start
    <3>1. DOMAIN f = 0 .. K /\ f = [i \in 0 .. K |-> f[i]]
      BY <1>8
    <3>2. f[0] = start
      BY <1>1, <1>8
    <3> QED BY <1>10, <3>1, <3>2
  <2>2. \A i \in 1 .. K : f[i] = Relaxed(f[i - 1], InTurn(i), m)
    BY <1>1, <1>8
  <2> QED BY <2>1, <2>2 DEF Turns, K
<1> QED BY <1>9, <1>11

(* A reached tile is within the allowance, is no enemy's and is paid for by  *)
(* a neighbour.                                                             *)
Paid(c, o, m) ==
  /\ c \in CostMap
  /\ c[o] = 0
  /\ \A n \in Tiles \ {o} :
       c[n] # 255 => /\ c[n] <= m /\ n \notin foes
                     /\ \E k \in Neighbours(n) :
                          c[k] # 255 /\ c[k] + prices[n] <= c[n]

(* Relaxing a tile leaves every reached tile paid for by a neighbour.       *)
LEMMA RelaxedIsPaid ==
  ASSUME JobOK, NEW o \in Tiles, NEW m \in 0 .. 124, NEW c, Paid(c, o, m),
         NEW n \in Tiles
  PROVE  Paid(Relaxed(c, n, m), o, m)
<1> DEFINE d == Relaxed(c, n, m)
<1>1. /\ c \in CostMap /\ c[o] = 0 /\ m \in Nat /\ m <= 124
      /\ prices \in [Tiles -> Price]
  BY DEF Paid, JobOK
<1>2. /\ d \in CostMap
      /\ \A t \in Tiles : t # n => d[t] = c[t]
      /\ d[n] <= c[n]
      /\ \/ d = c
         \/ /\ n \notin foes /\ d[n] <= m /\ d[n] < c[n]
            /\ \E k \in Neighbours(n) : d[n] = c[k] + prices[n]
  BY <1>1, RelaxedIs
<1>3. CASE d = c
  BY <1>3
<1>4. CASE /\ n \notin foes /\ d[n] <= m /\ d[n] < c[n]
           /\ \E k \in Neighbours(n) : d[n] = c[k] + prices[n]
  <2> HIDE DEF d
  <2>1. PICK k \in Neighbours(n) : d[n] = c[k] + prices[n]
    BY <1>4
  <2>2. k \in Tiles /\ k # n
    BY NextTo
  <2>3. /\ \A t \in Tiles : c[t] \in Nat /\ c[t] <= 255
        /\ \A t \in Tiles : d[t] \in Nat /\ d[t] <= 255
        /\ \A t \in Tiles : prices[t] \in Nat /\ prices[t] >= 1
    BY <1>1, <1>2 DEF CostMap, Price
  <2>4. n # o /\ d[o] = 0
    BY <1>1, <1>2, <1>4, <2>3
  <2>5. c[k] # 255 /\ d[k] = c[k]
    BY <1>1, <1>2, <1>4, <2>1, <2>2, <2>3
  <2>6. ASSUME NEW t \in Tiles \ {o}, d[t] # 255
        PROVE  /\ d[t] <= m /\ t \notin foes
               /\ \E l \in Neighbours(t) :
                    d[l] # 255 /\ d[l] + prices[t] <= d[t]
    <3>1. CASE t = n
      <4>1. d[k] # 255 /\ d[k] + prices[t] <= d[t]
        BY <2>1, <2>2, <2>3, <2>5, <3>1
      <4> QED BY <1>4, <3>1, <4>1
    <3>2. CASE t # n
      <4>1. d[t] = c[t]
        BY <1>2, <3>2
      <4>2. c[t] <= m /\ t \notin foes
        BY <2>6, <4>1 DEF Paid
      <4>3. PICK l \in Neighbours(t) : c[l] # 255 /\ c[l] + prices[t] <= c[t]
        BY <2>6, <4>1 DEF Paid
      <4>4. l \in Tiles
        BY NextTo
      <4>5. d[l] <= c[l]
        BY <1>2, <2>3, <4>4
      <4>6. d[l] # 255 /\ d[l] + prices[t] <= d[t]
        BY <2>3, <4>1, <4>3, <4>4, <4>5
      <4> QED BY <4>1, <4>2, <4>6
    <3> QED BY <3>1, <3>2
  <2> QED BY <1>2, <2>4, <2>6 DEF Paid, d
<1> QED BY <1>2, <1>3, <1>4

(* So is every tile LeastCosts reaches.                                     *)
LEMMA LeastCostsArePaid ==
  ASSUME JobOK, NEW o \in Tiles, NEW m \in 0 .. 124
  PROVE  Paid(LeastCosts(o, m), o, m)
<1> DEFINE K == m * Width * Height
<1>1. K \in Nat
  BY SizeAssumption
<1>2. PICK g : Turns(o, m, g) /\ LeastCosts(o, m) = g[K]
  BY LeastCostsIs
<1> DEFINE C == {i \in 0 .. K : Paid(g[i], o, m)}
<1>3. 0 \in C
  <2>1. g[0] = [[t \in Tiles |-> 255] EXCEPT ![o] = 0]
    BY <1>2 DEF Turns, Unreached
  <2>2. Paid(g[0], o, m)
    BY <2>1 DEF Paid, CostMap
  <2> QED BY <1>1, <2>2
<1>4. ASSUME NEW i \in 1 .. K, i - 1 \in C PROVE i \in C
  <2> HIDE DEF K
  <2>1. Paid(g[i - 1], o, m) /\ i \in Nat /\ i \in 0 .. K
    BY <1>1, <1>4
  <2>2. g[i] = Relaxed(g[i - 1], InTurn(i), m)
    BY <1>2 DEF Turns, K
  <2>3. InTurn(i) \in Tiles
    BY <2>1, TurnIsTile
  <2> QED BY <2>1, <2>2, <2>3, RelaxedIsPaid
<1>5. 0 .. K \subseteq C
  <2> HIDE DEF C, K
  <2> QED BY <1>1, <1>3, <1>4, UpTo
<1>6. K \in C
  <2> HIDE DEF C, K
  <2> QED BY <1>1, <1>5
<1> QED BY <1>2, <1>6

(* A tile the flood has reached for v is reached by LeastCosts for no more,  *)
(* at the latest after v rounds: by induction on v.                         *)
LEMMA LeastCostsReach ==
  ASSUME TypeOK, CostsArePaid, JobOK, NEW t \in Tiles, map[t] # 255
  PROVE  LeastCosts(origin, movement)[t] <= map[t]
<1> DEFINE N == Width * Height
           K == movement * Width * Height
<1>1. N \in Nat \ {0} /\ K = movement * N /\ K \in Nat
  BY SizeAssumption DEF JobOK
<1>2. /\ origin \in Tiles /\ movement \in Nat /\ movement <= 124
      /\ \A n \in Tiles : map[n] \in Nat /\ map[n] <= 255
      /\ \A n \in Tiles : prices[n] \in Nat /\ prices[n] >= 1
  BY Ranges
<1>3. PICK g : Turns(origin, movement, g) /\ LeastCosts(origin, movement) = g[K]
  BY <1>2, LeastCostsIs
<1>4. \A i \in 0 .. K : g[i] \in CostMap /\ \A n \in Tiles : g[i][n] \in Nat
  <2>1. ASSUME NEW c \in CostMap, NEW n \in Tiles PROVE c[n] \in Nat
    <3>1. c[n] \in 0 .. 255
      BY DEF CostMap
    <3> QED BY <3>1
  <2>2. \A i \in 0 .. K : g[i] \in CostMap
    <3>1. g \in [0 .. K -> CostMap]
      BY <1>3 DEF Turns
    <3> HIDE DEF K
    <3> QED BY <3>1
  <2> QED BY <2>1, <2>2
<1>5. ASSUME NEW i \in 1 .. K
      PROVE  /\ i \in Nat /\ InTurn(i) \in Tiles /\ g[i - 1] \in CostMap
             /\ g[i] = Relaxed(g[i - 1], InTurn(i), movement)
  <2>1. i \in Nat /\ i - 1 \in 0 .. K
    <3> HIDE DEF K
    <3> QED BY <1>1
  <2> QED BY <1>3, <1>4, <2>1, TurnIsTile DEF Turns
<1>6. ASSUME NEW i \in 1 .. K, NEW n \in Tiles PROVE g[i][n] <= g[i - 1][n]
  <2> HIDE DEF K
  <2> DEFINE e == InTurn(i)
             b == g[i - 1]
  <2>1. /\ e \in Tiles /\ b \in CostMap /\ g[i] = Relaxed(b, e, movement)
        /\ prices \in [Tiles -> Price]
    BY <1>5 DEF JobOK
  <2>2. b[n] \in Nat
    <3>1. i - 1 \in 0 .. K
      BY <1>1
    <3> QED BY <1>4, <3>1
  <2> HIDE DEF e, b
  <2>3. /\ \A l \in Tiles : l # e => g[i][l] = b[l]
        /\ g[i][e] <= b[e]
    <3>1. /\ \A l \in Tiles : l # e => Relaxed(b, e, movement)[l] = b[l]
          /\ Relaxed(b, e, movement)[e] <= b[e]
      <4>1. movement \in Nat /\ prices \in [Tiles -> Price]
        BY <1>2, <2>1
      <4> QED BY <2>1, <4>1, RelaxedLowers
    <3> QED BY <2>1, <3>1
  <2>4. g[i][n] <= b[n]
    <3>1. CASE n = e
      BY <2>3, <3>1
    <3>2. CASE n # e
      BY <2>2, <2>3, <3>2
    <3> QED BY <3>1, <3>2
  <2> USE DEF b
  <2> QED BY <2>4
<1>7. ASSUME NEW i \in 0 .. K, NEW j \in i .. K, NEW n \in Tiles
      PROVE  g[j][n] <= g[i][n]
  <2> DEFINE C == {l \in 0 .. K - i : g[i + l][n] <= g[i][n]}
  <2> HIDE DEF K
  <2>1. 0 \in C
    BY <1>1, <1>4
  <2>2. ASSUME NEW l \in 1 .. K - i, l - 1 \in C PROVE l \in C
    <3>1. i + l \in 1 .. K /\ l \in 0 .. K - i /\ i + l - 1 = i + (l - 1)
          /\ i + l \in 0 .. K /\ i + (l - 1) \in 0 .. K
      BY <1>1
    <3>2. g[i + (l - 1)][n] <= g[i][n]
      BY <2>2
    <3>3. g[i + l][n] <= g[i + (l - 1)][n]
      BY <1>6, <3>1
    <3>4. g[i + l][n] \in Nat /\ g[i + (l - 1)][n] \in Nat /\ g[i][n] \in Nat
      BY <1>4, <3>1
    <3> QED BY <3>1, <3>2, <3>3, <3>4
  <2>3. K - i \in Nat /\ j - i \in 0 .. K - i /\ i + (j - i) = j
    BY <1>1
  <2>4. 0 .. K - i \subseteq C
    <3> HIDE DEF C
    <3> QED BY <2>1, <2>2, <2>3, UpTo
  <2> QED BY <2>3, <2>4
<1> DEFINE Early(v) == \A n \in Tiles : map[n] = v => g[v * N][n] <= v
           D == {v \in Nat : v <= movement => \A u \in 0 .. v : Early(u)}
<1>8. ASSUME NEW v \in Nat, v <= movement
      PROVE  v * N \in 0 .. K
  <2>1. v * N <= movement * N /\ v * N \in Nat
    BY <1>1, <1>2, <1>8
  <2> QED BY <1>1, <2>1
<1>9. ASSUME NEW n \in Tiles, map[n] = 0 PROVE n = origin
  <2> SUFFICES ASSUME n # origin PROVE FALSE
    OBVIOUS
  <2>1. PICK k \in Neighbours(n) : map[k] + prices[n] <= map[n]
    BY <1>9 DEF CostsArePaid, Unreached
  <2> QED BY <1>2, <1>9, <2>1, NextTo
<1>10. 0 \in D
  <2>1. g[0][origin] = 0
    BY <1>2, <1>3 DEF Turns
  <2>2. 0 * N = 0
    BY <1>1
  <2>3. Early(0)
    <3> HIDE DEF N
    <3> QED BY <1>9, <2>1, <2>2
  <2> HIDE DEF Early
  <2> QED BY <2>3
<1>11. ASSUME NEW w \in Nat, w \in D PROVE w + 1 \in D
  <2> SUFFICES ASSUME w + 1 <= movement
               PROVE  Early(w + 1)
    <3>1. ASSUME NEW u \in 0 .. w + 1 PROVE u \in 0 .. w \/ u = w + 1
      OBVIOUS
    <3> HIDE DEF Early
    <3> QED BY <1>2, <1>11, <3>1
  <2> SUFFICES ASSUME NEW n \in Tiles, map[n] = w + 1
               PROVE  g[(w + 1) * N][n] <= w + 1
    OBVIOUS
  <2>1. n # origin
    BY DEF CostsArePaid
  <2>2. n \notin foes
    BY <1>2, <2>1 DEF CostsArePaid, Unreached
  <2>3. PICK k \in Neighbours(n) : map[k] + prices[n] <= w + 1
    BY <1>2, <2>1 DEF CostsArePaid, Unreached
  <2>4. k \in Tiles
    BY NextTo
  <2> DEFINE u == map[k]
  <2>5. u \in 0 .. w /\ u \in Nat /\ u + prices[n] <= w + 1
    BY <1>2, <2>3, <2>4
  <2>6. Early(u)
    <3> HIDE DEF Early, u
    <3> QED BY <1>2, <1>11, <2>5
  <2>7. g[u * N][k] <= u
    BY <2>4, <2>6
  <2>8. PICK i \in w * Width * Height + 1 .. (w + 1) * Width * Height :
          InTurn(i) = n
    BY EveryTileHasItsTurn
  <2>9. /\ w * N \in 0 .. K /\ u * N \in 0 .. K /\ (w + 1) * N \in 0 .. K
    BY <1>2, <1>8, <2>5
  <2>10. /\ w * Width * Height = w * N
         /\ (w + 1) * Width * Height = (w + 1) * N
         /\ (w + 1) * N = w * N + N
    BY SizeAssumption
  <2>11. u * N <= w * N
    <3>1. u <= w
      BY <2>5
    <3> HIDE DEF u, N
    <3> QED BY <1>1, <2>5, <3>1
  <2>12. i \in 1 .. K /\ i - 1 \in u * N .. K /\ (w + 1) * N \in i .. K
         /\ i - 1 \in 0 .. K /\ i \in 0 .. K
    <3> HIDE DEF N, K, u
    <3> QED BY <1>1, <2>8, <2>9, <2>10, <2>11
  <2>13. g[i - 1][k] <= g[u * N][k]
    <3> HIDE DEF N, K, u
    <3> QED BY <1>7, <2>4, <2>9, <2>12
  <2>14. g[i - 1][k] \in Nat /\ g[u * N][k] \in Nat /\ g[i][n] \in Nat
         /\ g[(w + 1) * N][n] \in Nat
    <3> HIDE DEF N, K, u
    <3> QED BY <1>4, <2>4, <2>9, <2>12
  <2>15. g[i - 1][k] + prices[n] <= w + 1
    <3> HIDE DEF N, K, u
    <3> QED BY <1>2, <2>5, <2>7, <2>13, <2>14
  <2>16. g[i - 1][k] + prices[n] <= movement
    <3> HIDE DEF N, K, u
    <3> QED BY <1>2, <2>14, <2>15
  <2>17. g[i][n] <= g[i - 1][k] + prices[n]
    <3> HIDE DEF N, K, u
    <3>1. /\ g[i - 1] \in CostMap /\ g[i] = Relaxed(g[i - 1], n, movement)
      BY <1>5, <2>8, <2>12
    <3>2. prices \in [Tiles -> Price] /\ movement \in Nat
      BY <1>2 DEF JobOK
    <3>3. \A l \in Neighbours(n) :
            g[i - 1][l] + prices[n] <= movement =>
              Relaxed(g[i - 1], n, movement)[n] <= g[i - 1][l] + prices[n]
      <4> HIDE DEF Early, D
      <4> QED BY <2>2, <3>1, <3>2, RelaxedTakes
    <3> QED BY <2>16, <3>1, <3>3
  <2>18. g[(w + 1) * N][n] <= g[i][n]
    <3> HIDE DEF N, K, u
    <3> QED BY <1>7, <2>9, <2>12
  <2> HIDE DEF N, K, u
  <2> QED BY <1>2, <2>14, <2>15, <2>17, <2>18
<1>12. Nat \subseteq D
  <2> HIDE DEF D
  <2> QED BY <1>10, <1>11, AllNumbers
<1>13. map[t] \in Nat /\ map[t] <= movement
  BY <1>2 DEF CostsArePaid, Unreached
<1>14. g[map[t] * N][t] <= map[t]
  <2>1. Early(map[t])
    <3> HIDE DEF Early, N
    <3>1. map[t] \in D /\ map[t] \in 0 .. map[t]
      BY <1>12, <1>13
    <3> QED BY <1>13, <3>1
  <2> QED BY <2>1
<1>15. map[t] * N \in 0 .. K /\ K \in map[t] * N .. K /\ K \in 0 .. K
  <2>1. map[t] * N \in 0 .. K
    BY <1>8, <1>13
  <2> HIDE DEF K, N
  <2> QED BY <1>1, <2>1
<1>16. g[K][t] <= g[map[t] * N][t]
  <2> HIDE DEF N, K
  <2> QED BY <1>7, <1>15
<1>17. g[K][t] \in Nat /\ g[map[t] * N][t] \in Nat
  <2> HIDE DEF N, K
  <2> QED BY <1>4, <1>15
<1> HIDE DEF N, K
<1> QED BY <1>3, <1>13, <1>14, <1>16, <1>17

----------------------------------------------------------------------------
(* What Append does, in the form the provers use best.                      *)
LEMMA Appended ==
  ASSUME NEW S, NEW s \in Seq(S), NEW x \in S
  PROVE  /\ Append(s, x) \in Seq(S) /\ Append(s, x) # <<>>
         /\ Len(s) \in Nat /\ Len(Append(s, x)) = Len(s) + 1
         /\ \A i \in 1 .. Len(s) : Append(s, x)[i] = s[i]
         /\ Append(s, x)[Len(s) + 1] = x
         /\ \A i \in 1 .. Len(Append(s, x)) : i \in 1 .. Len(s) \/ i = Len(s) + 1
         /\ Last(Append(s, x)) = x
BY AppendProperties, LenProperties DEF Last

(* s leads to n, each tile by way of a cheapest neighbour.                  *)
IsScript(c, s, n) ==
  \/ c[n] = 0 /\ s = <<>>
  \/ /\ c[n] # 0
     /\ s # <<>> /\ s[Len(s)] = n
     /\ \A i \in 1 .. Len(s) : c[s[i]] # 0
     /\ \A i \in 2 .. Len(s) : s[i - 1] \in Cheapest(c, s[i])
     /\ \E k \in Cheapest(c, s[1]) : c[k] = 0

(* A script to a cheapest neighbour, made longer by n, is a script to n.    *)
LEMMA ScriptAppend ==
  ASSUME NEW c, NEW n \in Tiles, c[n] # 0, NEW s \in Seq(Tiles),
         NEW k \in Cheapest(c, n), IsScript(c, s, k)
  PROVE  IsScript(c, Append(s, n), n)
<1> DEFINE r == Append(s, n)
<1>1. /\ r \in Seq(Tiles) /\ r # <<>>
      /\ Len(s) \in Nat /\ Len(r) = Len(s) + 1
      /\ \A i \in 1 .. Len(s) : r[i] = s[i]
      /\ r[Len(s) + 1] = n
      /\ \A i \in 1 .. Len(r) : i \in 1 .. Len(s) \/ i = Len(s) + 1
  BY Appended
<1>2. CASE c[k] = 0 /\ s = <<>>
  <2>1. Len(r) = 1 /\ r[1] = n
    BY <1>1, <1>2
  <2> HIDE DEF r
  <2> QED BY <1>1, <1>2, <2>1 DEF IsScript, r
<1>3. CASE /\ s # <<>> /\ s[Len(s)] = k
           /\ \A i \in 1 .. Len(s) : c[s[i]] # 0
           /\ \A i \in 2 .. Len(s) : s[i - 1] \in Cheapest(c, s[i])
           /\ \E l \in Cheapest(c, s[1]) : c[l] = 0
  <2> HIDE DEF r
  <2>1. Len(s) \in Nat \ {0}
    BY <1>3, EmptySeq
  <2>2. r[1] = s[1] /\ r[Len(r)] = n /\ r[Len(s)] = k
    BY <1>1, <1>3, <2>1
  <2>3. \A i \in 1 .. Len(r) : c[r[i]] # 0
    BY <1>1, <1>3
  <2>4. ASSUME NEW i \in 2 .. Len(r) PROVE r[i - 1] \in Cheapest(c, r[i])
    <3>1. CASE i \in 2 .. Len(s)
      <4>1. r[i] = s[i] /\ r[i - 1] = s[i - 1]
        BY <1>1, <3>1
      <4> QED BY <1>3, <3>1, <4>1
    <3>2. CASE i = Len(s) + 1
      <4>1. i - 1 = Len(s)
        BY <1>1, <3>2
      <4> QED BY <1>1, <2>2, <3>2, <4>1
    <3> QED BY <1>1, <3>1, <3>2
  <2>5. r # <<>> /\ \E l \in Cheapest(c, r[1]) : c[l] = 0
    BY <1>1, <1>3, <2>2
  <2>6. IsScript(c, r, n)
    BY <2>2, <2>3, <2>4, <2>5 DEF IsScript
  <2> QED BY <2>6 DEF r
<1> QED BY <1>2, <1>3 DEF IsScript

(* Without its last tile a script leads to a cheapest neighbour.            *)
LEMMA ScriptFront ==
  ASSUME NEW c, NEW n \in Tiles, c[n] # 0, NEW s \in Seq(Tiles),
         NEW e \in Tiles, IsScript(c, Append(s, e), n)
  PROVE  e = n /\ \E k \in Cheapest(c, n) : IsScript(c, s, k)
<1> DEFINE r == Append(s, e)
<1>1. /\ r \in Seq(Tiles) /\ r # <<>>
      /\ Len(s) \in Nat /\ Len(r) = Len(s) + 1
      /\ \A i \in 1 .. Len(s) : r[i] = s[i]
      /\ r[Len(s) + 1] = e
  BY Appended
<1>2. /\ r[Len(r)] = n
      /\ \A i \in 1 .. Len(r) : c[r[i]] # 0
      /\ \A i \in 2 .. Len(r) : r[i - 1] \in Cheapest(c, r[i])
      /\ \E k \in Cheapest(c, r[1]) : c[k] = 0
  BY DEF IsScript
<1> HIDE DEF r
<1>3. e = n
  BY <1>1, <1>2
<1>4. CASE s = <<>>
  <2>1. r[1] = n
    BY <1>1, <1>3, <1>4
  <2> QED BY <1>2, <1>3, <1>4, <2>1 DEF IsScript
<1>5. CASE s # <<>>
  <2>1. Len(s) \in Nat \ {0}
    BY <1>5, EmptySeq
  <2> DEFINE k == s[Len(s)]
  <2>2. r[Len(s)] = k /\ r[1] = s[1] /\ c[k] # 0
    BY <1>1, <1>2, <2>1
  <2>3. k \in Cheapest(c, n)
    <3>1. Len(r) \in 2 .. Len(r) /\ Len(r) - 1 = Len(s)
      BY <1>1, <2>1
    <3> QED BY <1>2, <2>2, <3>1
  <2>4. \A i \in 1 .. Len(s) : c[s[i]] # 0
    BY <1>1, <1>2
  <2>5. ASSUME NEW i \in 2 .. Len(s) PROVE s[i - 1] \in Cheapest(c, s[i])
    <3>1. r[i] = s[i] /\ r[i - 1] = s[i - 1] /\ i \in 2 .. Len(r)
      BY <1>1
    <3> QED BY <1>2, <3>1
  <2>6. \E l \in Cheapest(c, s[1]) : c[l] = 0
    BY <1>2, <2>2
  <2>7. IsScript(c, s, k)
    BY <1>5, <2>2, <2>4, <2>5, <2>6 DEF IsScript
  <2> QED BY <1>3, <2>3, <2>7
<1> QED BY <1>4, <1>5

(* The scripts of the cheapest neighbours, made longer by n.                *)
Longer(f, c, n) == UNION {{Append(s, n) : s \in f[k]} : k \in Cheapest(c, n)}

(* The members of Longer, in the form the provers use best.                 *)
LEMMA LongerIs ==
  ASSUME NEW f, NEW c, NEW n
  PROVE  /\ \A k \in Cheapest(c, n) : \A s \in f[k] : Append(s, n) \in Longer(f, c, n)
         /\ \A r \in Longer(f, c, n) :
              \E k \in Cheapest(c, n) : \E s \in f[k] : r = Append(s, n)
<1>1. ASSUME NEW k \in Cheapest(c, n), NEW s \in f[k]
      PROVE  Append(s, n) \in Longer(f, c, n)
  <2>1. Append(s, n) \in {Append(q, n) : q \in f[k]}
    OBVIOUS
  <2> QED BY <2>1 DEF Longer
<1>2. ASSUME NEW r \in Longer(f, c, n)
      PROVE  \E k \in Cheapest(c, n) : \E s \in f[k] : r = Append(s, n)
  <2>1. PICK x \in {{Append(s, n) : s \in f[k]} : k \in Cheapest(c, n)} : r \in x
    BY DEF Longer
  <2>2. PICK k \in Cheapest(c, n) : x = {Append(s, n) : s \in f[k]}
    BY <2>1
  <2> QED BY <2>1, <2>2
<1> QED BY <1>1, <1>2

(* The scripts satisfy the equation they are defined by.                    *)
AllScripts(f, c) ==
  \A n \in Tiles : f[n] = IF c[n] = 0 THEN {<<>>} ELSE Longer(f, c, n)

(* The recursion of BestScripts has that solution.                          *)
LEMMA ScriptsAre ==
  ASSUME NEW c, NEW t \in Tiles, c[t] # 255
  PROVE  \E f : AllScripts(f, c) /\ BestScripts(c, t) = f[t]
<1> DEFINE Eq(f) == f = [n \in Tiles |-> IF c[n] = 0 THEN {<<>>}
                                          ELSE Longer(f, c, n)]
           G == [n \in Tiles |-> {s \in Seq(Tiles) : IsScript(c, s, n)}]
<1>1. \A n \in Tiles : Cheapest(c, n) \subseteq Tiles
  BY DEF Cheapest, Neighbours
<1>2. ASSUME NEW n \in Tiles, c[n] = 0 PROVE G[n] = {<<>>}
  <2>1. <<>> \in Seq(Tiles)
    BY EmptySeq
  <2> QED BY <1>2, <2>1 DEF IsScript
<1>3. ASSUME NEW n \in Tiles, c[n] # 0
      PROVE  G[n] = Longer(G, c, n)
  <2>1. ASSUME NEW k \in Cheapest(c, n), NEW s \in G[k]
        PROVE  Append(s, n) \in G[n]
    <3>1. k \in Tiles /\ s \in Seq(Tiles) /\ IsScript(c, s, k)
      BY <1>1, <2>1
    <3>2. IsScript(c, Append(s, n), n) /\ Append(s, n) \in Seq(Tiles)
      BY <1>3, <3>1, ScriptAppend, Appended
    <3> QED BY <3>2
  <2>2. ASSUME NEW r \in G[n]
        PROVE  \E k \in Cheapest(c, n) : \E s \in G[k] : r = Append(s, n)
    <3>1. r \in Seq(Tiles) /\ IsScript(c, r, n) /\ r # <<>>
      BY <1>3 DEF IsScript
    <3>2. PICK s \in Seq(Tiles), e \in Tiles : r = Append(s, e)
      BY <3>1, SequenceEmptyOrAppend
    <3>3. e = n
      BY <1>3, <3>1, <3>2, ScriptFront
    <3>4. PICK k \in Cheapest(c, n) : IsScript(c, s, k)
      BY <1>3, <3>1, <3>2, ScriptFront
    <3>5. s \in G[k]
      BY <1>1, <3>4
    <3> QED BY <3>2, <3>3, <3>5
  <2> HIDE DEF G
  <2>3. ASSUME NEW r \in Longer(G, c, n) PROVE r \in G[n]
    <3>1. PICK k \in Cheapest(c, n) : \E s \in G[k] : r = Append(s, n)
      BY LongerIs
    <3> QED BY <2>1, <3>1
  <2>4. \A r : r \in G[n] => r \in Longer(G, c, n)
    BY <2>2, LongerIs
  <2> QED BY <2>3, <2>4
<1>4. Eq(G)
  <2>1. DOMAIN G = Tiles /\ G = [n \in Tiles |-> G[n]]
    OBVIOUS
  <2> HIDE DEF G
  <2> QED BY <1>2, <1>3, <2>1
<1> DEFINE f == CHOOSE f : Eq(f)
<1>5. Eq(f)
  <2> HIDE DEF Eq
  <2> QED BY <1>4
<1>6. BestScripts(c, t) = f[t]
  BY DEF BestScripts, Unreached, Longer
<1>7. AllScripts(f, c)
  <2> HIDE DEF f
  <2> QED BY <1>5 DEF AllScripts
<1> HIDE DEF f
<1> QED BY <1>6, <1>7

(* A script is a walk from o that pays for every tile, to dearer and dearer  *)
(* tiles.                                                                   *)
Before(o, s, i) == IF i = 1 THEN o ELSE s[i - 1]

PaysFor(c, o, s) ==
  /\ s \in Seq(Tiles)
  /\ \A i \in 1 .. Len(s) :
       /\ s[i] \in Neighbours(Before(o, s, i)) \ foes
       /\ c[Before(o, s, i)] + prices[s[i]] <= c[s[i]] /\ c[s[i]] # 255

Pays(c, o, s, t) == PaysFor(c, o, s) /\ t = Before(o, s, Len(s) + 1)

(* Every tile in reach has such a script.                                   *)
LEMMA BestScriptsPay ==
  ASSUME JobOK, NEW o \in Tiles, NEW m \in 0 .. 124, NEW c, Paid(c, o, m),
         NEW t \in Tiles, c[t] # 255
  PROVE  /\ BestScripts(c, t) # {}
         /\ \A s \in BestScripts(c, t) : Pays(c, o, s, t)
<1>1. PICK f : AllScripts(f, c) /\ BestScripts(c, t) = f[t]
  BY ScriptsAre
<1>2. /\ \A n \in Tiles : c[n] \in Nat /\ c[n] <= 255
      /\ \A n \in Tiles : prices[n] \in Nat /\ prices[n] >= 1
      /\ c[o] = 0
  <2>1. ASSUME NEW n \in Tiles PROVE c[n] \in 0 .. 255 /\ prices[n] \in 1 .. 255
    BY DEF JobOK, Price, Paid, CostMap
  <2> QED BY <2>1 DEF Paid
<1> DEFINE Good(n) == /\ f[n] # {}
                      /\ \A s \in f[n] : /\ PaysFor(c, o, s)
                                         /\ n = Before(o, s, Len(s) + 1)
           Reached(v) == \A n \in Tiles : c[n] <= v /\ c[n] # 255 => Good(n)
           D == {v \in Nat : Reached(v)}
<1>3. ASSUME NEW n \in Tiles, c[n] # 255, c[n] # 0,
             \A k \in Tiles : c[k] < c[n] => Good(k)
      PROVE  Good(n)
  <2>1. n # o
    BY <1>2, <1>3
  <2>2. PICK p \in Neighbours(n) : c[p] # 255 /\ c[p] + prices[n] <= c[n]
    BY <1>3, <2>1 DEF Paid
  <2>3. n \notin foes /\ p \in Tiles /\ Neighbours(n) \subseteq Tiles
    BY <1>3, <2>1 DEF Paid, Neighbours
  <2>4. \E k \in Neighbours(n) : \A l \in Neighbours(n) : c[k] <= c[l]
    <3> DEFINE T == {c[k] : k \in Neighbours(n)}
    <3>1. T \in SUBSET Nat /\ T # {}
      BY <1>2, <2>3
    <3>2. PICK x \in T : \A y \in T : x <= y
      <4> HIDE DEF T
      <4> QED BY <3>1, LeastNumber
    <3> QED BY <3>2
  <2>5. Cheapest(c, n) # {}
    BY <2>4 DEF Cheapest
  <2>6. ASSUME NEW k \in Cheapest(c, n)
        PROVE  /\ k \in Neighbours(n) /\ k \in Tiles /\ n \in Neighbours(k)
               /\ c[k] + prices[n] <= c[n]
    <3>1. k \in Neighbours(n) /\ c[k] <= c[p]
      BY DEF Cheapest
    <3>2. k \in Tiles /\ n \in Neighbours(k)
      BY <3>1, NextTo
    <3>3. c[k] \in Nat /\ c[p] \in Nat /\ c[n] \in Nat /\ prices[n] \in Nat
      BY <1>2, <2>3, <3>2
    <3> QED BY <2>2, <3>1, <3>2, <3>3
  <2>7. ASSUME NEW k \in Cheapest(c, n) PROVE Good(k)
    <3>1. k \in Tiles /\ c[k] < c[n]
      BY <1>2, <2>6
    <3> HIDE DEF Good
    <3> QED BY <1>3, <3>1
  <2>8. f[n] = Longer(f, c, n)
    BY <1>1, <1>3 DEF AllScripts
  <2>9. f[n] # {}
    <3>1. PICK k \in Cheapest(c, n) : TRUE
      BY <2>5
    <3>2. PICK s \in f[k] : TRUE
      BY <2>7
    <3> QED BY <2>8, <3>2, LongerIs
  <2>10. ASSUME NEW k \in Cheapest(c, n), NEW s \in f[k]
         PROVE  /\ PaysFor(c, o, Append(s, n))
                /\ n = Before(o, Append(s, n), Len(Append(s, n)) + 1)
    <3>1. PaysFor(c, o, s) /\ k = Before(o, s, Len(s) + 1)
      BY <2>7
    <3>2. s \in Seq(Tiles)
      BY <3>1 DEF PaysFor
    <3> DEFINE r == Append(s, n)
    <3>3. /\ r \in Seq(Tiles) /\ r # <<>>
          /\ Len(s) \in Nat /\ Len(r) = Len(s) + 1
          /\ \A i \in 1 .. Len(s) : r[i] = s[i]
          /\ r[Len(s) + 1] = n
          /\ \A i \in 1 .. Len(r) : i \in 1 .. Len(s) \/ i = Len(s) + 1
      BY <3>2, Appended
    <3> HIDE DEF r
    <3>4. \A i \in 1 .. Len(r) : Before(o, r, i) = Before(o, s, i)
      BY <3>3 DEF Before
    <3>5. ASSUME NEW i \in 1 .. Len(r)
          PROVE  /\ r[i] \in Neighbours(Before(o, r, i)) \ foes
                 /\ c[Before(o, r, i)] + prices[r[i]] <= c[r[i]] /\ c[r[i]] # 255
      <4>1. CASE i \in 1 .. Len(s)
        BY <3>1, <3>3, <3>4, <4>1 DEF PaysFor
      <4>2. CASE i = Len(s) + 1
        BY <1>3, <2>3, <2>6, <3>1, <3>3, <3>4, <4>2
      <4> QED BY <3>3, <4>1, <4>2
    <3>6. n = Before(o, r, Len(r) + 1)
      BY <3>3 DEF Before
    <3> QED BY <3>3, <3>5, <3>6 DEF PaysFor, r
  <2>11. \A s \in f[n] : PaysFor(c, o, s) /\ n = Before(o, s, Len(s) + 1)
    <3> SUFFICES ASSUME NEW r \in Longer(f, c, n)
                 PROVE  PaysFor(c, o, r) /\ n = Before(o, r, Len(r) + 1)
      BY <2>8
    <3>1. PICK k \in Cheapest(c, n) : \E s \in f[k] : r = Append(s, n)
      BY LongerIs
    <3>2. PICK s \in f[k] : r = Append(s, n)
      BY <3>1
    <3> QED BY <2>10, <3>2
  <2> QED BY <2>9, <2>11
<1>4. ASSUME NEW n \in Tiles, c[n] = 0 PROVE Good(n)
  <2>1. n = o
    <3> SUFFICES ASSUME n # o PROVE FALSE
      OBVIOUS
    <3>1. PICK p \in Neighbours(n) : c[p] + prices[n] <= c[n]
      BY <1>4 DEF Paid
    <3>2. p \in Tiles
      BY NextTo
    <3> QED BY <1>2, <1>4, <3>1, <3>2
  <2>2. f[n] = {<<>>}
    BY <1>1, <1>4 DEF AllScripts
  <2>3. <<>> \in Seq(Tiles) /\ Len(<<>>) = 0
    BY EmptySeq
  <2> QED BY <2>1, <2>2, <2>3 DEF PaysFor, Before
<1>5. 0 \in D
  <2> HIDE DEF Good
  <2> QED BY <1>2, <1>4
<1>6. ASSUME NEW v \in Nat, v \in D PROVE v + 1 \in D
  <2>1. ASSUME NEW n \in Tiles, c[n] <= v + 1, c[n] # 255 PROVE Good(n)
    <3> HIDE DEF Good
    <3>1. CASE c[n] = 0
      BY <1>4, <3>1
    <3>2. CASE c[n] # 0
      <4>1. ASSUME NEW k \in Tiles, c[k] < c[n] PROVE Good(k)
        <5>1. c[k] <= v /\ c[k] # 255
          BY <1>2, <2>1, <4>1
        <5> QED BY <1>6, <5>1
      <4> QED BY <1>3, <2>1, <3>2, <4>1
    <3> QED BY <3>1, <3>2
  <2> HIDE DEF Good
  <2> QED BY <2>1
<1>7. Nat \subseteq D
  <2> HIDE DEF D
  <2> QED BY <1>5, <1>6, AllNumbers
<1>8. Good(t)
  <2> HIDE DEF Good
  <2>1. c[t] \in D
    BY <1>2, <1>7
  <2> QED BY <1>2, <2>1
<1>9. \A s \in BestScripts(c, t) : Pays(c, o, s, t)
  BY <1>1, <1>8 DEF Pays
<1> QED BY <1>1, <1>8, <1>9

----------------------------------------------------------------------------
(* Points of the arrow before it is known that nothing is left below 0.     *)
PointSet == [tile : Tiles, left : Int]

(* What prices and points are.                                              *)
LEMMA PriceIs ==
  ASSUME prices \in [Tiles -> Price], NEW t \in Tiles
  PROVE  prices[t] \in Nat /\ prices[t] >= 1
<1>1. prices[t] \in 1 .. 255
  BY DEF Price
<1> QED BY <1>1

(* The fields of a point of the path.                                       *)
LEMMA PointIs ==
  ASSUME NEW x \in PointSet
  PROVE  x.tile \in Tiles /\ x.left \in Int
BY DEF PointSet

(* A walk from the unit that is paid for.                                   *)
Walk(p) ==
  /\ p \in Seq(PointSet) /\ p # <<>>
  /\ p[1] = [tile |-> origin, left |-> movement]
  /\ \A i \in 2 .. Len(p) :
       /\ p[i].tile \in Neighbours(p[i - 1].tile) \ foes
       /\ p[i].left = p[i - 1].left - prices[p[i].tile]
       /\ p[i].left >= 0

(* w is p and the first l tiles of s behind it.                             *)
Extension(w, p, s, l) ==
  /\ w \in Seq(PointSet)
  /\ Len(w) = Len(p) + l
  /\ \A j \in 1 .. Len(p) : w[j] = p[j]
  /\ \A i \in 1 .. l :
       w[Len(p) + i] = [tile |-> s[i],
                        left |-> w[Len(p) + i - 1].left - prices[s[i]]]

(* AddPointToPathArrowProc extends the path by one more tile of the script. *)
LEMMA AddPointExtends ==
  ASSUME prices \in [Tiles -> Price], NEW p \in Seq(PointSet), p # <<>>,
         NEW s \in Seq(Tiles), NEW l \in 1 .. Len(s),
         NEW w, Extension(w, p, s, l - 1)
  PROVE  Extension(AddPoint(w, s[l]), p, s, l)
<1> DEFINE x == [tile |-> s[l], left |-> Last(w).left - prices[s[l]]]
           r == Append(w, x)
<1>1. /\ Len(p) \in Nat \ {0} /\ Len(s) \in Nat /\ l \in Nat
      /\ w \in Seq(PointSet) /\ Len(w) = Len(p) + (l - 1) /\ Len(w) \in Nat \ {0}
  <2>1. Len(p) \in Nat \ {0} /\ Len(s) \in Nat
    BY EmptySeq, LenProperties
  <2> QED BY <2>1 DEF Extension
<1>2. s[l] \in Tiles /\ w[Len(w)] \in PointSet
  BY <1>1, ElementOfSeq
<1>3. x \in PointSet
  <2>1. prices[s[l]] \in Int /\ Last(w).left \in Int
    BY <1>2, PriceIs, PointIs DEF Last
  <2> QED BY <1>2, <2>1 DEF PointSet
<1>4. /\ r \in Seq(PointSet) /\ Len(r) = Len(w) + 1
      /\ \A i \in 1 .. Len(w) : r[i] = w[i]
      /\ r[Len(w) + 1] = x
  <2> HIDE DEF x
  <2> QED BY <1>1, <1>3, Appended
<1> HIDE DEF r
<1>5. \A j \in 1 .. Len(p) : r[j] = p[j]
  <2>1. \A j \in 1 .. Len(p) : j \in 1 .. Len(w) /\ w[j] = p[j]
    BY <1>1 DEF Extension
  <2> QED BY <1>4, <2>1
<1>6. ASSUME NEW i \in 1 .. l
      PROVE  r[Len(p) + i] = [tile |-> s[i],
                              left |-> r[Len(p) + i - 1].left - prices[s[i]]]
  <2>1. CASE i = l
    <3>1. Len(p) + i = Len(w) + 1 /\ Len(p) + i - 1 = Len(w)
          /\ Len(w) \in 1 .. Len(w)
      BY <1>1, <2>1
    <3> QED BY <1>4, <2>1, <3>1 DEF Last
  <2>2. CASE i # l
    <3>1. /\ i \in 1 .. l - 1
          /\ Len(p) + i \in 1 .. Len(w) /\ Len(p) + i - 1 \in 1 .. Len(w)
      BY <1>1, <2>2
    <3>2. w[Len(p) + i] = [tile |-> s[i],
                           left |-> w[Len(p) + i - 1].left - prices[s[i]]]
      BY <3>1 DEF Extension
    <3> QED BY <1>4, <3>1, <3>2
  <2> QED BY <2>1, <2>2
<1>7. Len(r) = Len(p) + l
  BY <1>1, <1>4
<1> QED BY <1>4, <1>5, <1>6, <1>7 DEF Extension, AddPoint, r

(* Walked adds a point for every tile of the script.                        *)
LEMMA WalkedIs ==
  ASSUME prices \in [Tiles -> Price], NEW p \in Seq(PointSet), p # <<>>,
         NEW s \in Seq(Tiles)
  PROVE  Extension(Walked(p, s), p, s, Len(s))
<1> DEFINE S == Seq(PointSet) \ {<<>>}
           K == Len(s)
           step == [i \in 1 .. K |-> [q \in S |-> AddPoint(q, s[i])]]
           Eq(g) == g = [i \in 0 .. K |-> IF i = 0 THEN p
                                          ELSE AddPoint(g[i - 1], s[i])]
<1>1. K \in Nat /\ p \in S
  BY LenProperties
<1>2. step \in [1 .. K -> [S -> S]]
  <2>1. ASSUME NEW i \in 1 .. K, NEW q \in S PROVE AddPoint(q, s[i]) \in S
    <3> DEFINE x == [tile |-> s[i], left |-> Last(q).left - prices[s[i]]]
    <3>1. q \in Seq(PointSet) /\ Len(q) \in Nat \ {0}
      BY EmptySeq
    <3>2. s[i] \in Tiles /\ q[Len(q)] \in PointSet
      BY <3>1, ElementOfSeq
    <3>3. prices[s[i]] \in Int /\ Last(q).left \in Int
      BY <3>2, PriceIs, PointIs DEF Last
    <3>4. x \in PointSet
      BY <3>2, <3>3 DEF PointSet
    <3> HIDE DEF x
    <3>5. Append(q, x) \in Seq(PointSet) /\ Append(q, x) # <<>>
      BY <3>1, <3>4, Appended
    <3> QED BY <3>5 DEF AddPoint, x
  <2> HIDE DEF K, S
  <2> QED BY <2>1
<1>3. PICK g : Recursive(g, S, p, K, step)
  <2> HIDE DEF step, S, K
  <2> QED BY <1>1, <1>2, Recursion
<1>4. g \in [0 .. K -> S] /\ g[0] = p
      /\ \A i \in 1 .. K : g[i] = step[i][g[i - 1]]
  <2> HIDE DEF step, S, K
  <2> QED BY <1>3 DEF Recursive
<1>5. \A i \in 1 .. K : g[i - 1] \in S
  <2> HIDE DEF K, step, S
  <2> QED BY <1>1, <1>4
<1>6. \A i \in 1 .. K : step[i][g[i - 1]] = AddPoint(g[i - 1], s[i])
  <2> HIDE DEF K, S
  <2> QED BY <1>5
<1>7. Eq(g)
  <2>1. ASSUME NEW i \in 0 .. K
        PROVE  g[i] = IF i = 0 THEN p ELSE AddPoint(g[i - 1], s[i])
    <3> HIDE DEF step, S, K
    <3>1. i = 0 \/ i \in 1 .. K
      BY <1>1
    <3> QED BY <1>1, <1>4, <1>6, <3>1
  <2>2. g = [i \in 0 .. K |-> g[i]]
    <3> HIDE DEF step, S, K
    <3> QED BY <1>4
  <2> HIDE DEF K
  <2> QED BY <2>1, <2>2
<1> DEFINE f == CHOOSE f : Eq(f)
<1>8. Eq(f)
  <2> HIDE DEF Eq
  <2> QED BY <1>7
<1>9. Walked(p, s) = f[K]
  BY DEF Walked
<1> HIDE DEF f
<1> DEFINE C == {l \in 0 .. K : Extension(f[l], p, s, l)}
<1>10. 0 \in C
  <2>1. f[0] = p
    <3> HIDE DEF K
    <3> QED BY <1>1, <1>8
  <2>2. Extension(p, p, s, 0)
    BY LenProperties DEF Extension
  <2> QED BY <1>1, <2>1, <2>2
<1>11. ASSUME NEW l \in 1 .. K, l - 1 \in C PROVE l \in C
  <2>1. f[l] = AddPoint(f[l - 1], s[l]) /\ l \in 0 .. K
    <3> HIDE DEF K
    <3> QED BY <1>1, <1>8
  <2>2. Extension(f[l - 1], p, s, l - 1)
    BY <1>11
  <2> QED BY <2>1, <2>2, AddPointExtends
<1>12. 0 .. K \subseteq C
  <2> HIDE DEF C, K
  <2> QED BY <1>1, <1>10, <1>11, UpTo
<1>13. K \in C
  <2> HIDE DEF C
  <2> QED BY <1>1, <1>12
<1> QED BY <1>9, <1>13

(* What gets larger from number to number is never the same twice.          *)
LEMMA Larger ==
  ASSUME NEW n \in Nat, NEW f, \A i \in 1 .. n : f[i] \in Int,
         \A i \in 2 .. n : f[i - 1] < f[i]
  PROVE  \A i, j \in 1 .. n : f[i] = f[j] => i = j
<1> DEFINE C == {j \in 0 .. n : \A i \in 1 .. n : i < j => f[i] < f[j]}
<1>1. 0 \in C
  OBVIOUS
<1>2. ASSUME NEW j \in 1 .. n, j - 1 \in C PROVE j \in C
  <2>1. ASSUME NEW i \in 1 .. n, i < j PROVE f[i] < f[j]
    <3>1. j \in 2 .. n /\ j - 1 \in 1 .. n
      BY <2>1
    <3>2. f[j - 1] < f[j] /\ f[j] \in Int /\ f[j - 1] \in Int /\ f[i] \in Int
      BY <3>1
    <3>3. CASE i = j - 1
      BY <3>2, <3>3
    <3>4. CASE i # j - 1
      <4>1. i < j - 1
        BY <2>1, <3>4
      <4>2. f[i] < f[j - 1]
        BY <1>2, <4>1
      <4> QED BY <3>2, <4>2
    <3> QED BY <3>3, <3>4
  <2> QED BY <2>1
<1>3. 0 .. n \subseteq C
  <2> HIDE DEF C
  <2> QED BY <1>1, <1>2, UpTo
<1>4. ASSUME NEW i \in 1 .. n, NEW j \in 1 .. n, i < j PROVE f[i] # f[j]
  <2>1. j \in C
    <3> HIDE DEF C
    <3> QED BY <1>3
  <2>2. f[i] < f[j]
    BY <1>4, <2>1
  <2> QED BY <2>2
<1> QED BY <1>4

(* What a walk is made of.                                                  *)
LEMMA WalkIs ==
  ASSUME JobOK, NEW p, Walk(p)
  PROVE  /\ p \in Seq(PointSet) /\ Len(p) \in Nat \ {0}
         /\ DOMAIN p = 1 .. Len(p)
         /\ \A i \in 1 .. Len(p) :
              /\ p[i] \in PointSet /\ p[i].tile \in Tiles /\ p[i].left \in Nat
              /\ p[i].left <= movement /\ p[i].tile \notin foes
         /\ Last(p).tile \in Tiles /\ Last(p).left \in 0 .. 124
         /\ p[1] = [tile |-> origin, left |-> movement]
<1>1. /\ p \in Seq(PointSet) /\ Len(p) \in Nat \ {0} /\ DOMAIN p = 1 .. Len(p)
      /\ p[1] = [tile |-> origin, left |-> movement]
  BY EmptySeq, LenProperties DEF Walk
<1>2. movement \in Nat /\ movement <= 124
  BY DEF JobOK, MaxMovement
<1>3. \A i \in 1 .. Len(p) :
        p[i] \in PointSet /\ p[i].tile \in Tiles /\ p[i].left \in Int
  BY <1>1, ElementOfSeq, PointIs
<1>4. ASSUME NEW i \in 1 .. Len(p)
      PROVE  p[i].left >= 0 /\ p[i].tile \notin foes
  <2>1. CASE i = 1
    BY <1>1, <1>2, <2>1 DEF JobOK
  <2>2. CASE i # 1
    <3>1. i \in 2 .. Len(p)
      BY <2>2
    <3> QED BY <3>1 DEF Walk
  <2> QED BY <2>1, <2>2
<1> DEFINE C == {i \in 0 .. Len(p) : i # 0 => p[i].left <= movement}
<1>5. 0 \in C
  BY <1>1
<1>6. ASSUME NEW i \in 1 .. Len(p), i - 1 \in C PROVE i \in C
  <2>1. CASE i = 1
    BY <1>1, <1>2, <2>1
  <2>2. CASE i # 1
    <3>1. i \in 2 .. Len(p) /\ i - 1 \in 1 .. Len(p) /\ i - 1 # 0
      BY <2>2
    <3>2. p[i].left = p[i - 1].left - prices[p[i].tile]
      BY <3>1 DEF Walk
    <3>3. prices[p[i].tile] \in Nat /\ p[i - 1].left <= movement
          /\ p[i - 1].left \in Int
      BY <1>3, <1>6, <3>1, PriceIs DEF JobOK
    <3>4. p[i].left <= movement
      BY <1>2, <3>2, <3>3
    <3> QED BY <3>4
  <2> QED BY <2>1, <2>2
<1>7. 0 .. Len(p) \subseteq C
  <2> HIDE DEF C
  <2> QED BY <1>1, <1>5, <1>6, UpTo
<1>8. \A i \in 1 .. Len(p) : p[i].left <= movement
  BY <1>7
<1>9. Last(p).tile \in Tiles /\ Last(p).left \in 0 .. 124
  <2>1. Len(p) \in 1 .. Len(p)
    BY <1>1
  <2>2. /\ p[Len(p)].tile \in Tiles /\ p[Len(p)].left \in Int
        /\ p[Len(p)].left >= 0 /\ p[Len(p)].left <= movement
    BY <1>3, <1>4, <1>8, <2>1
  <2>3. Last(p) = p[Len(p)]
    BY DEF Last
  <2> DEFINE x == p[Len(p)].left
  <2>4. x \in Int /\ x >= 0 /\ x <= movement
    BY <2>2
  <2>5. x \in 0 .. 124
    <3> HIDE DEF x
    <3> QED BY <1>2, <2>4
  <2> QED BY <2>2, <2>3, <2>5
<1>10. \A i \in 1 .. Len(p) : p[i].left \in Nat
  BY <1>3, <1>4
<1> QED BY <1>1, <1>3, <1>4, <1>8, <1>9, <1>10

LeadsOn(w, t) == Walk(w) /\ Last(w).tile = t

(* A walk that is continued by a script that pays, from a map of costs within*)
(* what is left, is a walk again.  If it was at its first point it also      *)
(* crosses no tile twice.                                                   *)
LEMMA WalkOn ==
  ASSUME JobOK, NEW p, Walk(p), NEW o, o = Last(p).tile,
         NEW m, m = Last(p).left, NEW c, Paid(c, o, m),
         NEW t, NEW s, Pays(c, o, s, t)
  PROVE  /\ LeadsOn(Walked(p, s), t)
         /\ Len(p) = 1 => PathContainsNoCycle(Walked(p, s))
<1> DEFINE w == Walked(p, s)
           L == Len(p)
           K == Len(s)
<1>1. /\ p \in Seq(PointSet) /\ p # <<>> /\ L \in Nat \ {0} /\ L \in 1 .. L
      /\ o \in Tiles /\ m \in Nat /\ m <= 124
  <2>1. /\ p \in Seq(PointSet) /\ L \in Nat \ {0} /\ o \in Tiles
        /\ m \in 0 .. 124
    BY WalkIs
  <2>2. L \in 1 .. L
    <3> HIDE DEF L
    <3> QED BY <2>1
  <2>3. m \in Nat /\ m <= 124
    <3>1. m \in 0 .. 124
      BY <2>1
    <3>2. \A x \in 0 .. 124 : x \in Nat /\ x <= 124
      OBVIOUS
    <3> QED BY <3>1, <3>2, Zenon
  <2>4. p # <<>>
    BY DEF Walk
  <2> QED BY <2>1, <2>2, <2>3, <2>4
<1>2. s \in Seq(Tiles) /\ K \in Nat /\ PaysFor(c, o, s)
  <2>1. s \in Seq(Tiles) /\ PaysFor(c, o, s)
    BY DEF Pays, PaysFor
  <2> QED BY <2>1, LenProperties
<1>3. Extension(w, p, s, K)
  BY <1>1, <1>2, WalkedIs DEF JobOK
<1>4. /\ w \in Seq(PointSet) /\ Len(w) = L + K /\ DOMAIN w = 1 .. L + K
      /\ \A j \in 1 .. L : w[j] = p[j]
      /\ \A i \in 1 .. K :
           w[L + i] = [tile |-> s[i],
                       left |-> w[L + i - 1].left - prices[s[i]]]
  BY <1>3, LenProperties DEF Extension
<1>5. w[L].tile = o /\ w[L].left = m
  BY <1>1, <1>4 DEF Last
<1>6. \A i \in 1 .. K : s[i] \in Tiles
  BY <1>2, ElementOfSeq
<1>18. ASSUME NEW i \in 1 .. K
       PROVE  /\ w[L + i].tile = s[i]
              /\ w[L + i].left = w[L + i - 1].left - prices[s[i]]
  <2>1. w[L + i] = [tile |-> s[i], left |-> w[L + i - 1].left - prices[s[i]]]
    BY <1>4
  <2> QED BY <2>1
<1> HIDE DEF L, K, w
<1>7. ASSUME NEW i \in 0 .. K PROVE w[L + i].tile = Before(o, s, i + 1)
  <2>1. CASE i = 0
    BY <1>1, <1>5, <2>1 DEF Before
  <2>2. CASE i # 0
    <3>1. i \in 1 .. K /\ i + 1 # 1 /\ i + 1 - 1 = i
      BY <1>2, <2>2
    <3> QED BY <1>18, <3>1 DEF Before
  <2> QED BY <2>1, <2>2
<1>8. /\ \A n \in Tiles : c[n] \in Nat
      /\ \A n \in Tiles : prices[n] \in Nat /\ prices[n] >= 1
      /\ c[o] = 0
  <2>1. ASSUME NEW n \in Tiles PROVE c[n] \in 0 .. 255
    BY DEF Paid, CostMap
  <2> QED BY <2>1, PriceIs DEF Paid, JobOK
<1>9. \A i \in 0 .. K : w[L + i] \in PointSet /\ w[L + i].left \in Int
                        /\ w[L + i].tile \in Tiles
  <2>1. ASSUME NEW i \in 0 .. K PROVE L + i \in 1 .. Len(w)
    BY <1>1, <1>2, <1>4
  <2> QED BY <1>4, <2>1, ElementOfSeq, PointIs
(* One step of the script.                                                  *)
<1>10. ASSUME NEW i \in 1 .. K
       PROVE  /\ i - 1 \in 0 .. K /\ i \in 0 .. K /\ L + i - 1 = L + (i - 1)
              /\ w[L + i].tile = s[i]
              /\ w[L + i].left = w[L + (i - 1)].left - prices[s[i]]
              /\ s[i] \in Neighbours(w[L + (i - 1)].tile) \ foes
              /\ c[w[L + (i - 1)].tile] + prices[s[i]] <= c[s[i]]
              /\ c[s[i]] <= m
  <2>1. i - 1 \in 0 .. K /\ i \in 0 .. K /\ L + i - 1 = L + (i - 1)
        /\ i - 1 + 1 = i
    BY <1>1, <1>2
  <2>2. w[L + (i - 1)].tile = Before(o, s, i)
    BY <1>7, <2>1
  <2>3. /\ s[i] \in Neighbours(Before(o, s, i)) \ foes
        /\ c[Before(o, s, i)] + prices[s[i]] <= c[s[i]] /\ c[s[i]] # 255
    BY <1>2 DEF PaysFor, K
  <2>4. w[L + (i - 1)].tile \in Tiles /\ s[i] \in Tiles
    BY <1>6, <1>9, <2>1
  <2>5. c[Before(o, s, i)] \in Nat /\ c[s[i]] \in Nat /\ prices[s[i]] \in Nat
        /\ prices[s[i]] >= 1
    BY <1>8, <2>2, <2>4
  <2>6. s[i] # o
    BY <1>8, <2>3, <2>5
  <2>7. c[s[i]] <= m
    BY <2>3, <2>4, <2>6 DEF Paid
  <2>8. /\ w[L + i].tile = s[i]
        /\ w[L + i].left = w[L + (i - 1)].left - prices[s[i]]
    BY <1>18, <2>1
  <2> QED BY <2>1, <2>2, <2>3, <2>7, <2>8
<1> DEFINE C == {i \in 0 .. K : w[L + i].left >= m - c[w[L + i].tile]}
<1>11. 0 \in C
  BY <1>1, <1>2, <1>5, <1>8
<1>12. ASSUME NEW i \in 1 .. K, i - 1 \in C PROVE i \in C
  <2>1. w[L + (i - 1)].left >= m - c[w[L + (i - 1)].tile]
    BY <1>12
  <2> DEFINE a == w[L + (i - 1)].left
             b == c[w[L + (i - 1)].tile]
             d == c[s[i]]
             e == prices[s[i]]
             x == w[L + i].left
  <2>2. a \in Int /\ b \in Int /\ d \in Int /\ e \in Int /\ m \in Int
    BY <1>1, <1>6, <1>8, <1>9, <1>10
  <2>3. a >= m - b /\ b + e <= d /\ x = a - e
    BY <1>10, <2>1
  <2>4. x >= m - d
    <3> HIDE DEF a, b, d, e, x
    <3> QED BY <2>2, <2>3
  <2>5. w[L + i].left >= m - c[w[L + i].tile]
    BY <1>10, <2>4
  <2> QED BY <1>10, <2>5
<1>13. 0 .. K \subseteq C
  <2> HIDE DEF C
  <2> QED BY <1>2, <1>11, <1>12, UpTo
<1>14. ASSUME NEW i \in 1 .. K PROVE w[L + i].left >= 0
  <2>1. i \in C
    BY <1>10, <1>13
  <2>2. /\ c[s[i]] \in Nat /\ c[s[i]] <= m /\ w[L + i].left \in Int
        /\ w[L + i].left >= m - c[s[i]]
    BY <1>6, <1>8, <1>9, <1>10, <2>1
  <2> QED BY <1>1, <2>2
<1>15. Walk(w)
  <2>1. ASSUME NEW j \in 2 .. Len(w)
        PROVE  /\ w[j].tile \in Neighbours(w[j - 1].tile) \ foes
               /\ w[j].left = w[j - 1].left - prices[w[j].tile]
               /\ w[j].left >= 0
    <3>1. CASE j \in 2 .. L
      <4>1. w[j] = p[j] /\ w[j - 1] = p[j - 1]
        BY <1>1, <1>4, <3>1
      <4> QED BY <3>1, <4>1 DEF Walk, L
    <3>2. CASE j > L
      <4>1. j - L \in 1 .. K /\ j = L + (j - L) /\ j - 1 = L + ((j - L) - 1)
        BY <1>1, <1>2, <1>4, <3>2
      <4> DEFINE i == j - L
      <4>2. i \in 1 .. K /\ j = L + i /\ j - 1 = L + (i - 1)
        BY <4>1
      <4> HIDE DEF i
      <4> QED BY <1>10, <1>14, <4>2
    <3> QED BY <1>1, <1>4, <3>1, <3>2
  <2>2. w # <<>> /\ w[1] = p[1]
    <3>1. 1 \in 1 .. L /\ Len(w) > 0
      BY <1>1, <1>2, <1>4
    <3> QED BY <1>4, <3>1, EmptySeq
  <2>3. w[1] = [tile |-> origin, left |-> movement]
    BY <2>2 DEF Walk
  <2> QED BY <1>4, <2>1, <2>2, <2>3 DEF Walk
<1>16. Last(w).tile = Before(o, s, K + 1)
  <2>1. K \in 0 .. K
    BY <1>2
  <2> QED BY <1>4, <1>7, <2>1 DEF Last
<1>17. ASSUME L = 1 PROVE PathContainsNoCycle(w)
  <2> DEFINE f == [j \in 1 .. K + 1 |-> c[w[j].tile]]
  <2>1. ASSUME NEW j \in 1 .. K + 1
        PROVE  w[j].tile \in Tiles /\ f[j] \in Int
    <3>1. j - 1 \in 0 .. K /\ L + (j - 1) = j
      BY <1>2, <1>17
    <3>2. w[j].tile \in Tiles
      BY <1>9, <3>1
    <3> QED BY <1>8, <3>2
  <2>2. ASSUME NEW j \in 2 .. K + 1 PROVE f[j - 1] < f[j]
    <3>1. /\ j - 1 \in 1 .. K /\ L + (j - 1) = j /\ L + (j - 1 - 1) = j - 1
          /\ j - 1 \in 1 .. K + 1 /\ j \in 1 .. K + 1
      BY <1>2, <1>17
    <3>2. /\ w[j].tile = s[j - 1]
          /\ c[w[j - 1].tile] + prices[s[j - 1]] <= c[s[j - 1]]
      BY <1>10, <3>1
    <3>3. prices[s[j - 1]] \in Nat /\ prices[s[j - 1]] >= 1
      BY <1>6, <1>8, <3>1
    <3>4. f[j] = c[s[j - 1]] /\ f[j - 1] = c[w[j - 1].tile]
          /\ f[j] \in Int /\ f[j - 1] \in Int
      BY <2>1, <3>1, <3>2
    <3> QED BY <3>2, <3>3, <3>4
  <2>3. K + 1 \in Nat
    BY <1>2
  <2>4. \A i, j \in 1 .. K + 1 : f[i] = f[j] => i = j
    <3> HIDE DEF f
    <3> QED BY <2>1, <2>2, <2>3, Larger
  <2>5. DOMAIN w = 1 .. K + 1
    BY <1>2, <1>4, <1>17
  <2> QED BY <2>4, <2>5 DEF PathContainsNoCycle
<1>19. Last(w).tile = t
  BY <1>16 DEF Pays, K
<1> QED BY <1>15, <1>17, <1>19 DEF LeadsOn, L, w

----------------------------------------------------------------------------
(* CutOffPathLength leaves the first points as they were, with what is left  *)
(* at each counted again.                                                   *)
LEMMA CutOffIs ==
  ASSUME JobOK, NEW p, Walk(p), NEW n \in 1 .. Len(p), NEW q, q = CutOff(p, n)
  PROVE  /\ Walk(q) /\ Len(q) = n
         /\ \A i \in 1 .. n : q[i] = p[i]
<1>1. /\ p \in Seq(PointSet) /\ Len(p) \in Nat \ {0} /\ DOMAIN p = 1 .. Len(p)
      /\ \A i \in 1 .. Len(p) : p[i] \in PointSet /\ p[i].tile \in Tiles
  BY WalkIs
<1>2. n \in Nat /\ n >= 1 /\ n <= Len(p)
  BY <1>1
<1>3. CASE Len(p) = n
  <2>1. ~ (Len(p) > n)
    BY <1>2, <1>3
  <2>2. q = p
    BY <2>1 DEF CutOff
  <2> QED BY <1>3, <2>2
<1>4. CASE Len(p) > n
  <2> DEFINE ts == TilesOf(p)
             u == SubSeq(ts, 1, n)
             s == Tail(u)
             p1 == <<p[1]>>
  <2>1. q = Walked(p1, s)
    BY <1>4 DEF CutOff
  <2>2. \A i \in 1 .. n : ts[i] = p[i].tile /\ ts[i] \in Tiles
    BY <1>1, <1>2 DEF TilesOf
  <2>3. /\ u \in Seq(Tiles) /\ Len(u) = n
        /\ \A i \in 1 .. n : u[i] = p[i].tile
    <3> HIDE DEF ts
    <3>1. 1 \in Int /\ n \in Int /\ n - 1 + 1 = n /\ 1 <= n
      BY <1>2
    <3>2. /\ u \in Seq(Tiles) /\ Len(u) = n - 1 + 1
          /\ \A i \in 1 .. n - 1 + 1 : u[i] = ts[1 + i - 1]
      BY <2>2, <3>1, SubSeqProperties
    <3>3. \A i \in 1 .. n : 1 + i - 1 = i
      BY <1>2
    <3> QED BY <2>2, <3>1, <3>2, <3>3
  <2>4. /\ s \in Seq(Tiles) /\ Len(s) = n - 1
        /\ \A i \in 1 .. n - 1 : s[i] = p[i + 1].tile
    <3> HIDE DEF u
    <3>1. u # <<>>
      BY <1>2, <2>3, EmptySeq
    <3>2. /\ s \in Seq(Tiles) /\ Len(s) = n - 1
          /\ \A i \in 1 .. n - 1 : s[i] = u[i + 1]
      BY <2>3, <3>1, HeadTailProperties
    <3>3. \A i \in 1 .. n - 1 : i + 1 \in 1 .. n
      BY <1>2
    <3> QED BY <2>3, <3>2, <3>3
  <2>5. /\ p1 \in Seq(PointSet) /\ p1 # <<>> /\ Len(p1) = 1 /\ p1[1] = p[1]
    <3>1. p[1] \in PointSet
      BY <1>1
    <3> QED BY <3>1
  <2> HIDE DEF s, p1
  <2>6. Extension(q, p1, s, n - 1)
    BY <2>1, <2>4, <2>5, WalkedIs DEF JobOK
  <2>7. /\ q \in Seq(PointSet) /\ Len(q) = n /\ q[1] = p[1]
        /\ \A i \in 1 .. n - 1 :
             q[1 + i] = [tile |-> s[i],
                         left |-> q[1 + i - 1].left - prices[s[i]]]
    BY <1>2, <2>5, <2>6 DEF Extension
  <2> DEFINE C == {i \in 0 .. n - 1 : q[i + 1] = p[i + 1]}
  <2>8. 0 \in C
    BY <1>2, <2>7
  <2>9. ASSUME NEW i \in 1 .. n - 1, i - 1 \in C PROVE i \in C
    <3>1. /\ i + 1 \in 2 .. Len(p) /\ i + 1 \in 1 .. Len(p) /\ i + 1 - 1 = i
          /\ i \in 0 .. n - 1 /\ 1 + i = i + 1 /\ 1 + i - 1 = i
          /\ i - 1 + 1 = i
      BY <1>2
    <3>2. q[i] = p[i]
      BY <2>9, <3>1
    <3>3. q[i + 1] = [tile |-> p[i + 1].tile,
                      left |-> q[i].left - prices[p[i + 1].tile]]
      BY <2>4, <2>7, <3>1
    <3>4. p[i + 1].left = p[i].left - prices[p[i + 1].tile]
      BY <3>1 DEF Walk
    <3>5. p[i + 1] = [tile |-> p[i + 1].tile, left |-> p[i + 1].left]
      <4>1. p[i + 1] \in PointSet
        BY <1>1, <3>1
      <4> QED BY <4>1 DEF PointSet
    <3> QED BY <3>1, <3>2, <3>3, <3>4, <3>5
  <2>10. 0 .. n - 1 \subseteq C
    <3> HIDE DEF C
    <3>1. n - 1 \in Nat
      BY <1>2
    <3> QED BY <2>8, <2>9, <3>1, UpTo
  <2>11. ASSUME NEW i \in 1 .. n PROVE q[i] = p[i]
    <3>1. i - 1 \in 0 .. n - 1 /\ i - 1 + 1 = i
      BY <1>2
    <3>2. i - 1 \in C
      <4> HIDE DEF C
      <4> QED BY <2>10, <3>1
    <3> QED BY <3>1, <3>2
  <2>12. Walk(q)
    <3>1. ASSUME NEW i \in 2 .. n
          PROVE  /\ q[i].tile \in Neighbours(q[i - 1].tile) \ foes
                 /\ q[i].left = q[i - 1].left - prices[q[i].tile]
                 /\ q[i].left >= 0
      <4>1. q[i] = p[i] /\ q[i - 1] = p[i - 1] /\ i \in 2 .. Len(p)
        BY <1>2, <2>11
      <4> QED BY <4>1 DEF Walk
    <3>2. q # <<>>
      BY <1>2, <2>7, EmptySeq
    <3>3. q[1] = [tile |-> origin, left |-> movement]
      BY <2>7 DEF Walk
    <3> QED BY <2>7, <3>1, <3>2, <3>3 DEF Walk
  <2> QED BY <2>7, <2>11, <2>12
<1> QED BY <1>2, <1>3, <1>4

(* The first points of a walk that crosses no tile twice cross none twice.  *)
LEMMA CutOffIsSimple ==
  ASSUME JobOK, NEW p, Walk(p), PathContainsNoCycle(p),
         NEW n \in 1 .. Len(p), NEW q, q = CutOff(p, n)
  PROVE  PathContainsNoCycle(q)
<1>1. /\ Walk(q) /\ Len(q) = n /\ \A i \in 1 .. n : q[i] = p[i]
  BY CutOffIs
<1>2. DOMAIN q = 1 .. n /\ DOMAIN p = 1 .. Len(p) /\ Len(p) \in Nat
  BY <1>1, WalkIs
<1>3. \A i \in 1 .. n : i \in 1 .. Len(p)
  BY <1>2
<1> QED BY <1>1, <1>2, <1>3 DEF PathContainsNoCycle

(* A neighbouring tile that can be paid for makes a walk longer.            *)
LEMMA AddPointWalks ==
  ASSUME JobOK, NEW p, Walk(p), PathContainsNoCycle(p),
         NEW t \in Neighbours(Last(p).tile) \ foes, Last(p).left >= prices[t],
         \A i \in DOMAIN p : p[i].tile # t
  PROVE  /\ Walk(AddPoint(p, t)) /\ PathContainsNoCycle(AddPoint(p, t))
         /\ Last(AddPoint(p, t)).tile = t
<1> DEFINE x == [tile |-> t, left |-> Last(p).left - prices[t]]
           q == Append(p, x)
<1>1. /\ p \in Seq(PointSet) /\ Len(p) \in Nat \ {0} /\ DOMAIN p = 1 .. Len(p)
      /\ Last(p).tile \in Tiles /\ Last(p).left \in 0 .. 124
  BY WalkIs
<1>2. t \in Tiles /\ prices[t] \in Nat
  BY <1>1, NextTo, PriceIs DEF JobOK
<1>3. x \in PointSet /\ x.left >= 0 /\ x.tile = t
      /\ x.left = Last(p).left - prices[t]
  <2>1. Last(p).left \in Int
    <3>1. \A y \in 0 .. 124 : y \in Int
      OBVIOUS
    <3> QED BY <1>1, <3>1, Zenon
  <2> QED BY <1>2, <2>1 DEF PointSet
<1> HIDE DEF x
<1>4. /\ q \in Seq(PointSet) /\ q # <<>> /\ Len(q) = Len(p) + 1
      /\ \A i \in 1 .. Len(p) : q[i] = p[i]
      /\ q[Len(p) + 1] = x /\ Last(q) = x
      /\ \A i \in 1 .. Len(q) : i \in 1 .. Len(p) \/ i = Len(p) + 1
  BY <1>1, <1>3, Appended
<1>5. DOMAIN q = 1 .. Len(q)
  BY <1>4, LenProperties
<1> HIDE DEF q
<1>6. ASSUME NEW i \in 2 .. Len(q)
      PROVE  /\ q[i].tile \in Neighbours(q[i - 1].tile) \ foes
             /\ q[i].left = q[i - 1].left - prices[q[i].tile]
             /\ q[i].left >= 0
  <2>1. CASE i \in 1 .. Len(p)
    <3>1. i \in 2 .. Len(p) /\ q[i] = p[i] /\ q[i - 1] = p[i - 1]
      BY <1>1, <1>4, <2>1
    <3> QED BY <3>1 DEF Walk
  <2>2. CASE i = Len(p) + 1
    <3>1. q[i] = x /\ q[i - 1] = Last(p)
      <4>1. i - 1 = Len(p) /\ Len(p) \in 1 .. Len(p)
        BY <1>1, <2>2
      <4> QED BY <1>4, <2>2, <4>1 DEF Last
    <3> QED BY <1>3, <3>1
  <2>3. i \in 1 .. Len(q)
    OBVIOUS
  <2> QED BY <1>4, <2>1, <2>2, <2>3
<1>7. q[1] = [tile |-> origin, left |-> movement]
  <2>1. 1 \in 1 .. Len(p)
    BY <1>1
  <2> QED BY <1>4, <2>1 DEF Walk
<1>8. Walk(q)
  BY <1>4, <1>6, <1>7 DEF Walk
<1>9. PathContainsNoCycle(q)
  <2> SUFFICES ASSUME NEW i \in 1 .. Len(q), NEW j \in 1 .. Len(q),
                      q[i].tile = q[j].tile
               PROVE  i = j
    BY <1>5 DEF PathContainsNoCycle
  <2>1. CASE i \in 1 .. Len(p) /\ j \in 1 .. Len(p)
    BY <1>1, <1>4, <2>1 DEF PathContainsNoCycle
  <2>2. CASE i \in 1 .. Len(p) /\ j = Len(p) + 1
    BY <1>1, <1>3, <1>4, <2>2
  <2>3. CASE j \in 1 .. Len(p) /\ i = Len(p) + 1
    BY <1>1, <1>3, <1>4, <2>3
  <2> QED BY <1>4, <2>1, <2>2, <2>3
<1>10. Last(q).tile = t
  BY <1>3, <1>4
<1> QED BY <1>8, <1>9, <1>10 DEF AddPoint, q, x

----------------------------------------------------------------------------
(* What the arrow is to be when it is updated for c.                        *)
LeadsTo(w, c) == Walk(w) /\ PathContainsNoCycle(w) /\ Last(w).tile = c

(* Scripts over the map LeastCosts leaves around the end of the arrow.      *)
LEMMA ScriptedWalks ==
  ASSUME JobOK, NEW p, Walk(p), NEW t \in Tiles,
         NEW c, c = LeastCosts(Last(p).tile, Last(p).left), c[t] # 255
  PROVE  /\ BestScripts(c, t) # {}
         /\ \A s \in BestScripts(c, t) :
              /\ LeadsOn(Walked(p, s), t)
              /\ Len(p) = 1 => PathContainsNoCycle(Walked(p, s))
<1> DEFINE o == Last(p).tile
           m == Last(p).left
<1>1. o \in Tiles /\ m \in 0 .. 124
  BY WalkIs
<1>5. c = LeastCosts(o, m)
  OBVIOUS
<1>6. o = Last(p).tile /\ m = Last(p).left
  OBVIOUS
<1> HIDE DEF o, m
<1>2. Paid(c, o, m)
  BY <1>1, <1>5, LeastCostsArePaid
<1>3. /\ BestScripts(c, t) # {}
      /\ \A s \in BestScripts(c, t) : Pays(c, o, s, t)
  BY <1>1, <1>2, BestScriptsPay, Zenon
<1>4. ASSUME NEW s \in BestScripts(c, t)
      PROVE  /\ LeadsOn(Walked(p, s), t)
             /\ Len(p) = 1 => PathContainsNoCycle(Walked(p, s))
  <2>1. Pays(c, o, s, t)
    BY <1>3
  <2> QED BY <1>2, <1>6, <2>1, WalkOn, Zenon
<1> QED BY <1>3, <1>4

(* ResetPathArrow draws a new arrow to every tile the flood has reached.    *)
LEMMA ResetLeads ==
  ASSUME TypeOK, CostsArePaid, JobOK, NEW p, Walk(p), NEW t \in Tiles,
         map[t] # 255
  PROVE  /\ ResetPathArrow(p, t) # {}
         /\ \A w \in ResetPathArrow(p, t) : LeadsTo(w, t)
<1> DEFINE q == CutOff(p, 1)
           c == LeastCosts(Last(q).tile, Last(q).left)
<1>1. 1 \in 1 .. Len(p)
  BY WalkIs
<1>2. Walk(q) /\ Len(q) = 1 /\ q[1] = p[1]
  <2>1. PICK n \in 1 .. Len(p) : n = 1
    BY <1>1
  <2>2. q = CutOff(p, n)
    BY <2>1
  <2> HIDE DEF q
  <2>3. Walk(q) /\ Len(q) = n /\ \A i \in 1 .. n : q[i] = p[i]
    BY <2>2, CutOffIs
  <2> QED BY <2>1, <2>3
<1>3. Last(q).tile = origin /\ Last(q).left = movement
  <2>1. Last(q) = [tile |-> origin, left |-> movement]
    BY <1>2 DEF Last, Walk
  <2> QED BY <2>1
<1>4. c[t] # 255
  <2>1. LeastCosts(origin, movement)[t] <= map[t]
    BY LeastCostsReach
  <2>2. LeastCosts(origin, movement)[t] \in 0 .. 255
    <3>1. Paid(LeastCosts(origin, movement), origin, movement)
      BY LeastCostsArePaid DEF JobOK, MaxMovement
    <3> QED BY <3>1 DEF Paid, CostMap
  <2>3. map[t] \in Nat /\ map[t] <= 255
    BY Ranges
  <2>4. LeastCosts(origin, movement)[t] # 255
    BY <2>1, <2>2, <2>3
  <2> QED BY <1>3, <2>4
<1>5. ResetPathArrow(p, t) = {Walked(q, s) : s \in BestScripts(c, t)}
  BY DEF ResetPathArrow
<1> HIDE DEF q, c
<1>6. /\ BestScripts(c, t) # {}
      /\ \A s \in BestScripts(c, t) :
           /\ LeadsOn(Walked(q, s), t)
           /\ PathContainsNoCycle(Walked(q, s))
  BY <1>2, <1>4, ScriptedWalks DEF c
<1> QED BY <1>5, <1>6 DEF LeadsTo, LeadsOn

(* Lengthened makes the arrow longer or draws it anew.                      *)
LEMMA LengthenedLeads ==
  ASSUME TypeOK, CostsArePaid, JobOK, NEW p, Walk(p), NEW t \in Tiles,
         map[t] # 255
  PROVE  /\ Lengthened(p, t) # {}
         /\ \A w \in Lengthened(p, t) : LeadsTo(w, t)
<1> DEFINE q == IF Last(p).left = 0 THEN CutOff(p, 1) ELSE p
           around == LeastCosts(Last(q).tile, Last(q).left)
           longer == {Walked(q, s) : s \in BestScripts(around, t)}
           chosen(w) == IF PathContainsNoCycle(w) THEN {w} ELSE ResetPathArrow(w, t)
<1>1. Walk(q)
  <2>1. 1 \in 1 .. Len(p)
    BY WalkIs
  <2>2. Walk(CutOff(p, 1))
    BY <2>1, CutOffIs
  <2> QED BY <2>2
<1>2. Lengthened(p, t) = IF around[t] = 255 THEN ResetPathArrow(q, t)
                         ELSE UNION {chosen(w) : w \in longer}
  BY DEF Lengthened, Unreached
<1> HIDE DEF q
<1>3. CASE around[t] = 255
  <2> HIDE DEF around, longer, chosen
  <2> QED BY <1>1, <1>2, <1>3, ResetLeads
<1>4. CASE around[t] # 255
  <2>1. /\ BestScripts(around, t) # {}
        /\ \A s \in BestScripts(around, t) :
             LeadsOn(Walked(q, s), t)
    BY <1>1, <1>4, ScriptedWalks
  <2>2. longer # {} /\ \A w \in longer : Walk(w) /\ Last(w).tile = t
    <3> HIDE DEF around
    <3> QED BY <2>1 DEF LeadsOn
  <2> HIDE DEF longer
  <2>3. ASSUME NEW w \in longer
        PROVE  chosen(w) # {} /\ \A v \in chosen(w) : LeadsTo(v, t)
    <3>1. CASE PathContainsNoCycle(w)
      BY <2>2, <3>1 DEF LeadsTo
    <3>2. CASE ~PathContainsNoCycle(w)
      <4>1. chosen(w) = ResetPathArrow(w, t)
        BY <3>2
      <4> HIDE DEF chosen
      <4> QED BY <2>2, <4>1, ResetLeads
    <3> QED BY <3>1, <3>2
  <2> HIDE DEF chosen
  <2>4. UNION {chosen(w) : w \in longer} # {}
    BY <2>2, <2>3
  <2>5. \A v \in UNION {chosen(w) : w \in longer} : LeadsTo(v, t)
    BY <2>3
  <2>6. Lengthened(p, t) = UNION {chosen(w) : w \in longer}
    BY <1>2, <1>4
  <2> QED BY <2>4, <2>5, <2>6
<1> QED BY <1>3, <1>4

(* UpdatePathArrowWithCursor always has an arrow to draw, and it leads to    *)
(* the cursor when the cursor is in reach.                                  *)
LEMMA UpdatedLeads ==
  ASSUME TypeOK, CostsArePaid, JobOK, NEW p, Walk(p), PathContainsNoCycle(p),
         NEW t \in Tiles
  PROVE  /\ Updated(p, t) # {}
         /\ \A w \in Updated(p, t) :
              /\ Walk(w) /\ PathContainsNoCycle(w)
              /\ map[t] # 255 => LeadsTo(w, t)
<1>1. CASE map[t] = 255
  BY <1>1 DEF Updated, Unreached
<1>2. ASSUME map[t] # 255, NEW i \in DOMAIN p, p[i].tile = t
      PROVE  Updated(p, t) # {} /\ \A w \in Updated(p, t) : LeadsTo(w, t)
  <2> DEFINE T == {j \in DOMAIN p : p[j].tile = t}
             IsFirst(k) == /\ p[k].tile = t
                           /\ \A j \in DOMAIN p : p[j].tile = t => k <= j
             n == CHOOSE k \in DOMAIN p : IsFirst(k)
  <2>1. DOMAIN p = 1 .. Len(p) /\ Len(p) \in Nat
    BY WalkIs
  <2>2. T \in SUBSET Nat /\ T # {}
    BY <1>2, <2>1
  <2>3. PICK k \in T : \A j \in T : k <= j
    <3> HIDE DEF T
    <3> QED BY <2>2, LeastNumber
  <2>4. k \in DOMAIN p /\ IsFirst(k)
    BY <2>3
  <2>5. n \in DOMAIN p /\ IsFirst(n)
    <3> HIDE DEF IsFirst
    <3> QED BY <2>4
  <2>6. Updated(p, t) = {CutOff(p, n)}
    BY <1>2 DEF Updated, Unreached
  <2> HIDE DEF n
  <2> DEFINE q == CutOff(p, n)
  <2>7. /\ Walk(q) /\ Len(q) = n /\ q[n] = p[n] /\ PathContainsNoCycle(q)
    BY <2>1, <2>5, CutOffIs, CutOffIsSimple
  <2>8. LeadsTo(q, t)
    BY <2>5, <2>7 DEF LeadsTo, Last
  <2> HIDE DEF q
  <2>9. Updated(p, t) = {q}
    BY <2>6 DEF q
  <2> QED BY <2>8, <2>9
<1>3. ASSUME map[t] # 255, ~ \E i \in DOMAIN p : p[i].tile = t,
             Last(p).left >= prices[t] /\ t \in Neighbours(Last(p).tile)
      PROVE  Updated(p, t) # {} /\ \A w \in Updated(p, t) : LeadsTo(w, t)
  <2>1. Updated(p, t) = {AddPoint(p, t)}
    BY <1>3 DEF Updated, Unreached
  <2>2. t # origin
    <3>1. 1 \in DOMAIN p /\ p[1].tile = origin
      BY WalkIs
    <3> QED BY <1>3, <3>1
  <2>3. t \notin foes
    BY <1>3, <2>2 DEF CostsArePaid, Unreached
  <2>4. LeadsTo(AddPoint(p, t), t)
    BY <1>3, <2>3, AddPointWalks DEF LeadsTo
  <2> QED BY <2>1, <2>4
<1>4. ASSUME map[t] # 255, ~ \E i \in DOMAIN p : p[i].tile = t,
             ~ (Last(p).left >= prices[t] /\ t \in Neighbours(Last(p).tile))
      PROVE  Updated(p, t) # {} /\ \A w \in Updated(p, t) : LeadsTo(w, t)
  <2>1. Updated(p, t) = Lengthened(p, t)
    BY <1>4 DEF Updated, Unreached
  <2> QED BY <1>4, <2>1, LengthenedLeads
<1>5. CASE map[t] # 255
  <2>1. Updated(p, t) # {} /\ \A w \in Updated(p, t) : LeadsTo(w, t)
    BY <1>2, <1>3, <1>4, <1>5
  <2> QED BY <2>1 DEF LeadsTo
<1> QED BY <1>1, <1>5

----------------------------------------------------------------------------
(* While the player chooses, the flood is over and the map stays as it is.  *)
LEMMA DoneStays ==
  ASSUME TypeOK, Done
  PROVE  ~FloodNext
<1>1. src = <<>> /\ dst = <<>> /\ todo = {}
  BY DEF TypeOK, Done
<1>2. ~ \E d \in Dirs : Relax(d)
  BY <1>1 DEF Relax, IsNext
<1> QED BY <1>1, <1>2 DEF FloodNext, NextEntry, Swap

(* Choosing a tile takes no step of the flood: what is shown of the flood    *)
(* holds here.                                                              *)
LEMMA SpecFloods == Spec => FloodSpec
<1>1. PathInit => Init
  BY DEF PathInit
<1>2. [Next]_vars => [FloodNext]_<<job, floodVars>>
  BY DEF Next, Flood, InitUnitMovementSelect, MoveCursor, Confirm, Stopped, vars
<1> QED BY <1>1, <1>2, PTL DEF Spec, FloodSpec

(* The facts about the arrow that every step keeps.                         *)
SceneOK ==
  /\ scene.hidden \cap ({origin} \cup foes) = {}
  /\ scene.allies \cap ({origin} \cup foes) = {}
  /\ scene.mines \cap foes = {}

ArrowOK ==
  /\ Walk(path) /\ PathContainsNoCycle(path)
  /\ ~lost
  /\ cursor \in Tiles
  /\ drawn \in Tiles \cup {Nowhere}
  /\ phase = "flood" => drawn = Nowhere
  /\ phase # "flood" => Done
  /\ drawn \in Tiles /\ map[drawn] # 255 => Last(path).tile = drawn

PathInv == JobOK /\ SceneOK /\ ArrowOK /\ StopsInTime

(* Nowhere is off the map.                                                  *)
LEMMA NowhereIsNoTile == Nowhere \notin Tiles
BY DEF Nowhere, Tiles

(* The arrow at its start is a walk.                                        *)
LEMMA FirstPointWalks ==
  ASSUME JobOK
  PROVE  Walk(FirstPoint) /\ PathContainsNoCycle(FirstPoint)
<1> DEFINE x == [tile |-> origin, left |-> movement]
<1>1. x \in PointSet
  BY DEF JobOK, PointSet, MaxMovement
<1>2. FirstPoint = <<x>>
  BY DEF FirstPoint
<1>3. /\ <<x>> \in Seq(PointSet) /\ Len(<<x>>) = 1 /\ <<x>>[1] = x
      /\ DOMAIN <<x>> = {1} /\ <<x>> # <<>>
  BY <1>1
<1>4. Walk(FirstPoint)
  <2>1. \A i \in 2 .. 1 : FALSE
    OBVIOUS
  <2> QED BY <1>2, <1>3, <2>1 DEF Walk
<1>5. PathContainsNoCycle(FirstPoint)
  BY <1>2, <1>3 DEF PathContainsNoCycle
<1> QED BY <1>4, <1>5

(* The initial states.                                                      *)
LEMMA InitPath == PathInit /\ TypeOK => PathInv
<1> SUFFICES ASSUME PathInit, TypeOK PROVE PathInv
  OBVIOUS
<1>1. JobOK
  <2>1. prices \in [Tiles -> Price] /\ foes \subseteq Tiles /\ origin \in Tiles
        /\ movement \in 0 .. MaxMovement
    BY FloodAssumption DEF TypeOK
  <2> QED BY <2>1 DEF JobOK, PathInit
<1>2. SceneOK
  BY DEF PathInit, SceneOK
<1>3. /\ phase = "flood" /\ cursor = origin /\ drawn = Nowhere
      /\ path = FirstPoint /\ lost = FALSE
  BY DEF PathInit
<1>4. ArrowOK
  BY <1>1, <1>3, FirstPointWalks, NowhereIsNoTile DEF ArrowOK, JobOK
<1>5. StopsInTime
  BY <1>3 DEF StopsInTime
<1> QED BY <1>1, <1>2, <1>4, <1>5 DEF PathInv

(* Drawing the arrow.                                                       *)
LEMMA DrawKeeps ==
  ASSUME TypeOK, CostsArePaid, JobOK, NEW p, Walk(p), PathContainsNoCycle(p),
         ~lost, NEW last \in Tiles \cup {Nowhere}, NEW c \in Tiles,
         last \in Tiles /\ map[last] # 255 => Last(p).tile = last,
         DrawUpdatedPathArrow(p, last, c)
  PROVE  /\ Walk(path') /\ PathContainsNoCycle(path') /\ ~lost'
         /\ drawn' = c
         /\ map[c] # 255 => Last(path').tile = c
<1>1. CASE last = c
  BY <1>1 DEF DrawUpdatedPathArrow
<1>2. CASE last # c
  <2>1. /\ Updated(p, c) # {}
        /\ \A w \in Updated(p, c) :
             /\ Walk(w) /\ PathContainsNoCycle(w)
             /\ map[c] # 255 => LeadsTo(w, c)
    BY UpdatedLeads
  <2>2. drawn' = c /\ lost' = lost /\ path' \in Updated(p, c)
    BY <1>2, <2>1 DEF DrawUpdatedPathArrow
  <2> QED BY <2>1, <2>2 DEF LeadsTo
<1> QED BY <1>1, <1>2

(* What a step that leaves the job alone does not change.                   *)
LEMMA SameWalks ==
  ASSUME prices' = prices, foes' = foes, origin' = origin, movement' = movement
  PROVE  (JobOK' <=> JobOK) /\ \A p : Walk(p)' <=> Walk(p)
BY DEF JobOK, Walk

(* A step of the flood.                                                     *)
LEMMA FloodKeeps == PathInv /\ TypeOK /\ Flood => PathInv'
<1> SUFFICES ASSUME PathInv, TypeOK, Flood PROVE PathInv'
  OBVIOUS
<1>1. phase = "flood"
  BY DoneStays DEF PathInv, ArrowOK, Flood
<1>2. /\ prices' = prices /\ foes' = foes /\ origin' = origin
      /\ movement' = movement /\ scene' = scene /\ phase' = phase
      /\ cursor' = cursor /\ drawn' = drawn /\ path' = path /\ lost' = lost
      /\ stop' = stop
  BY DEF Flood, FloodNext, Relax, NextEntry, Swap, job, pathVars
<1>3. JobOK' /\ SceneOK'
  BY <1>2, SameWalks DEF PathInv, SceneOK
<1>4. Walk(path)' /\ PathContainsNoCycle(path)'
  BY <1>2, SameWalks DEF PathInv, ArrowOK, PathContainsNoCycle, Walk
<1>5. ArrowOK'
  BY <1>1, <1>2, <1>4, NowhereIsNoTile DEF PathInv, ArrowOK, Tiles, Nowhere
<1>6. StopsInTime'
  BY <1>1, <1>2 DEF StopsInTime
<1> QED BY <1>3, <1>5, <1>6 DEF PathInv

(* The flood's variables stay as they are.                                  *)
SameFlood == UNCHANGED <<job, floodVars, scene>>

(* A step of the arrow that leaves a walk behind keeps the invariant.       *)
LEMMA SelectKeeps ==
  ASSUME PathInv, TypeOK, CostsArePaid, SameFlood, Done, phase' = "select",
         Walk(path'), PathContainsNoCycle(path'), ~lost', cursor' \in Tiles,
         drawn' \in Tiles \cup {Nowhere},
         drawn' \in Tiles /\ map[drawn'] # 255 => Last(path').tile = drawn'
  PROVE  PathInv'
<1>1. /\ prices' = prices /\ foes' = foes /\ origin' = origin
      /\ movement' = movement /\ scene' = scene /\ map' = map /\ Done'
  BY DEF SameFlood, job, floodVars, Done
<1>2. JobOK' /\ SceneOK' /\ Walk(path)'
  BY <1>1, SameWalks DEF PathInv, SceneOK, Walk
<1>3. PathContainsNoCycle(path)'
  BY DEF PathContainsNoCycle
<1>4. ArrowOK'
  BY <1>1, <1>2, <1>3 DEF ArrowOK
<1>5. StopsInTime'
  BY DEF StopsInTime
<1> QED BY <1>2, <1>4, <1>5 DEF PathInv

(* The choice begins, or begins again.                                      *)
LEMMA InitSelectKeeps ==
  PathInv /\ TypeOK /\ CostsArePaid /\ InitUnitMovementSelect => PathInv'
<1> SUFFICES ASSUME PathInv, TypeOK, CostsArePaid, InitUnitMovementSelect
             PROVE  PathInv'
  OBVIOUS
<1>1. SameFlood /\ Done /\ phase' = "select" /\ cursor' = cursor
  BY DEF InitUnitMovementSelect, SameFlood, PathInv, ArrowOK
<1>2. CASE cursor = origin
  <2>1. DrawUpdatedPathArrow(FirstPoint, Nowhere, cursor)
    BY <1>2 DEF InitUnitMovementSelect
  <2>2. /\ Walk(path') /\ PathContainsNoCycle(path') /\ ~lost' /\ drawn' = cursor
        /\ map[cursor] # 255 => Last(path').tile = cursor
    BY <2>1, DrawKeeps, FirstPointWalks, NowhereIsNoTile DEF PathInv, ArrowOK
  <2> QED BY <1>1, <2>2, SelectKeeps DEF PathInv, ArrowOK
<1>3. CASE cursor # origin
  <2>1. path' = path /\ lost' = lost /\ drawn' = drawn
    BY <1>3 DEF InitUnitMovementSelect
  <2> QED BY <1>1, <2>1, SelectKeeps DEF PathInv, ArrowOK
<1> QED BY <1>2, <1>3

(* A frame in which the cursor moves.                                       *)
LEMMA MoveCursorKeeps ==
  ASSUME PathInv, TypeOK, CostsArePaid, NEW c \in Tiles, MoveCursor(c)
  PROVE  PathInv'
<1>1. /\ SameFlood /\ Done /\ phase' = "select" /\ cursor' = c
      /\ DrawUpdatedPathArrow(path, drawn, c)
  BY DEF MoveCursor, SameFlood, PathInv, ArrowOK
<1>2. /\ Walk(path') /\ PathContainsNoCycle(path') /\ ~lost' /\ drawn' = c
      /\ map[c] # 255 => Last(path').tile = c
  BY <1>1, DrawKeeps DEF PathInv, ArrowOK
<1> QED BY <1>1, <1>2, SelectKeeps

(* Where a halt is found and where the unit then stops.                     *)
LEMMA ConfirmStops ==
  ASSUME PathInv, TypeOK, NEW c \in Tiles, Confirm(c)
  PROVE  StopsInTime'
<1> DEFINE halts == {i \in Stepped(path) : Mined(i) \/ Bumped(i)}
           n == Len(path)
<1>1. /\ n \in Nat \ {0} /\ DOMAIN path = 1 .. n
      /\ path[1].tile = origin
      /\ \A i \in 1 .. n : path[i].tile \notin foes
  BY WalkIs DEF PathInv, ArrowOK
<1>2. /\ Stepped(path) \subseteq 1 .. n
      /\ \A i \in 2 .. n : i \in Stepped(path)
      /\ n \in Stepped(path)
      /\ \A i \in Stepped(path) : i = 1 => n = 1
  BY <1>1 DEF Stepped
<1>3. origin \notin scene.hidden
  BY DEF PathInv, SceneOK
<1>4. /\ foes' = foes /\ scene' = scene /\ path' = path /\ drawn' = drawn
      /\ cursor' = c /\ CanMoveActiveUnitTo(c) /\ map' = map
      /\ \A i : (Mined(i)' <=> Mined(i)) /\ (Bumped(i)' <=> Bumped(i))
  BY DEF Confirm, job, floodVars, Mined, Bumped
<1>5. ASSUME NEW i \in 1 .. n, ~Bumped(i), path[i].tile \in scene.hidden
      PROVE  Mined(i)
  BY <1>5 DEF Bumped
<1> DEFINE Stops(k) ==
             /\ path[k].tile = stop'
             /\ stop' \notin foes
             /\ stop' \in scene.hidden => Mined(k)
             /\ \A i \in 2 .. k - 1 : ~Mined(i) /\ ~Bumped(i)
             /\ phase' = "stopped" => Mined(k) \/ (k < n /\ Bumped(k + 1))
             /\ phase' = "moved" /\ drawn = c =>
                  stop' = c /\ stop' \notin scene.allies
<1>6. ASSUME NEW k \in 1 .. n, Stops(k) PROVE StopsInTime'
  <2> SUFFICES ASSUME phase' \in {"moved", "stopped"}
               PROVE  (\E j \in DOMAIN path :
                        /\ path[j].tile = stop
                        /\ stop \notin foes
                        /\ stop \in scene.hidden => Mined(j)
                        /\ \A i \in 2 .. j - 1 : ~Mined(i) /\ ~Bumped(i)
                        /\ phase = "stopped" =>
                             Mined(j) \/ (j < Len(path) /\ Bumped(j + 1))
                        /\ phase = "moved" /\ drawn = cursor =>
                             stop = cursor /\ stop \notin scene.allies)'
    BY DEF StopsInTime
  <2>1. k \in DOMAIN path'
    BY <1>1, <1>4
  <2>2. /\ path'[k].tile = stop'
        /\ stop' \notin foes'
        /\ stop' \in scene'.hidden => Mined(k)'
        /\ \A i \in 2 .. k - 1 : ~Mined(i)' /\ ~Bumped(i)'
        /\ phase' = "stopped" =>
             Mined(k)' \/ (k < Len(path') /\ Bumped(k + 1)')
        /\ phase' = "moved" /\ drawn' = cursor' =>
             stop' = cursor' /\ stop' \notin scene'.allies
    BY <1>4, <1>6
  <2> QED BY <2>1, <2>2
<1>7. CASE halts = {}
  <2>1. phase' = "moved" /\ stop' = Last(path).tile
    BY <1>7 DEF Confirm
  <2>2. \A i \in Stepped(path) : ~Mined(i) /\ ~Bumped(i)
    BY <1>7
  <2>3. n \in 1 .. n /\ path[n].tile = stop'
    BY <1>1, <2>1 DEF Last
  <2>4. \A i \in 2 .. n - 1 : i \in Stepped(path)
    BY <1>1, <1>2
  <2>5. drawn = c => stop' = c /\ stop' \notin scene.allies
    <3>1. c \notin scene.allies /\ map[c] # 255
      BY <1>4 DEF CanMoveActiveUnitTo
    <3> QED BY <2>1, <3>1 DEF PathInv, ArrowOK
  <2>6. stop' \in scene.hidden => Mined(n)
    BY <1>2, <1>5, <2>2, <2>3
  <2>7. stop' \notin foes
    BY <1>1, <2>3
  <2>8. Stops(n)
    BY <2>1, <2>2, <2>3, <2>4, <2>5, <2>6, <2>7
  <2> HIDE DEF Stops
  <2> QED BY <1>6, <2>3, <2>8
<1>8. CASE halts # {}
  <2> DEFINE first == Min(halts)
  <2>1. halts \in SUBSET Nat
    BY <1>1, <1>2
  <2>2. first \in halts /\ \A j \in halts : first <= j
    <3>1. \E x \in halts : \A y \in halts : x <= y
      <4> HIDE DEF halts
      <4> QED BY <1>8, <2>1, LeastNumber
    <3> HIDE DEF halts
    <3> QED BY <3>1 DEF Min
  <2>3. /\ phase' = "stopped"
        /\ stop' = path[IF Mined(first) THEN first ELSE first - 1].tile
    BY <1>8 DEF Confirm
  <2> HIDE DEF first
  <2>4. /\ first \in Stepped(path) /\ first \in 1 .. n
        /\ Mined(first) \/ Bumped(first)
    BY <1>2, <2>2
  <2>5. ASSUME NEW i \in 2 .. n, i < first PROVE ~Mined(i) /\ ~Bumped(i)
    <3>1. i \notin halts
      <4> HIDE DEF halts
      <4> QED BY <2>2, <2>4, <2>5
    <3> QED BY <1>2, <3>1
  <2>6. CASE Mined(first)
    <3>1. stop' = path[first].tile
      BY <2>3, <2>6
    <3>2. \A i \in 2 .. first - 1 : ~Mined(i) /\ ~Bumped(i)
      BY <1>1, <2>4, <2>5
    <3>3. Stops(first)
      BY <1>1, <2>3, <2>4, <2>6, <3>1, <3>2
    <3> HIDE DEF Stops
    <3> QED BY <1>6, <2>4, <3>3
  <2>7. CASE ~Mined(first)
    <3> DEFINE k == first - 1
    <3>1. stop' = path[k].tile /\ Bumped(first)
      BY <2>3, <2>4, <2>7
    <3>2. first # 1
      BY <1>1, <1>3, <3>1 DEF Bumped
    <3>3. k \in 1 .. n /\ k < n /\ k + 1 = first
      BY <1>1, <2>4, <3>2
    <3> HIDE DEF k
    <3>4. \A i \in 2 .. k - 1 : ~Mined(i) /\ ~Bumped(i)
      BY <1>1, <2>4, <2>5, <3>3
    <3>5. stop' \in scene.hidden => Mined(k)
      <4>1. CASE k = 1
        BY <1>1, <1>3, <3>1, <4>1
      <4>2. CASE k # 1
        <5>1. k \in 2 .. n /\ k < first
          BY <1>1, <2>4, <3>3, <4>2
        <5> QED BY <1>5, <2>5, <3>1, <3>3, <5>1
      <4> QED BY <4>1, <4>2
    <3>6. stop' \notin foes
      BY <1>1, <3>1, <3>3
    <3>7. Stops(k)
      BY <2>3, <3>1, <3>3, <3>4, <3>5, <3>6
    <3> HIDE DEF Stops
    <3> QED BY <1>6, <3>3, <3>7
  <2> QED BY <2>6, <2>7
<1> QED BY <1>7, <1>8

(* A frame in which the player confirms.                                    *)
LEMMA ConfirmKeeps ==
  ASSUME PathInv, TypeOK, NEW c \in Tiles, Confirm(c)
  PROVE  PathInv'
<1>1. /\ prices' = prices /\ foes' = foes /\ origin' = origin
      /\ movement' = movement /\ scene' = scene /\ map' = map
      /\ src' = src /\ dst' = dst /\ path' = path /\ lost' = lost
      /\ drawn' = drawn /\ cursor' = c /\ phase = "select"
      /\ phase' # "flood"
  BY DEF Confirm, job, floodVars
<1>2. JobOK' /\ SceneOK' /\ Walk(path)'
  BY <1>1, SameWalks DEF PathInv, SceneOK, ArrowOK, Walk
<1>3. PathContainsNoCycle(path)'
  BY <1>1 DEF PathInv, ArrowOK, PathContainsNoCycle
<1>4. ArrowOK'
  BY <1>1, <1>2, <1>3 DEF PathInv, ArrowOK, Done
<1>5. StopsInTime'
  BY ConfirmStops
<1> QED BY <1>2, <1>4, <1>5 DEF PathInv

(* Nothing changes.                                                         *)
LEMMA StutterKeeps == PathInv /\ UNCHANGED vars => PathInv'
<1> SUFFICES ASSUME PathInv, UNCHANGED vars PROVE PathInv'
  OBVIOUS
<1>1. /\ prices' = prices /\ foes' = foes /\ origin' = origin
      /\ movement' = movement /\ scene' = scene /\ map' = map
      /\ src' = src /\ dst' = dst /\ path' = path /\ lost' = lost
      /\ drawn' = drawn /\ cursor' = cursor /\ phase' = phase /\ stop' = stop
  BY DEF vars, job, floodVars, pathVars
<1>2. JobOK' /\ SceneOK' /\ Walk(path)'
  BY <1>1, SameWalks DEF PathInv, SceneOK, ArrowOK, Walk
<1>3. PathContainsNoCycle(path)'
  BY <1>1 DEF PathInv, ArrowOK, PathContainsNoCycle
<1>4. ArrowOK'
  BY <1>1, <1>2, <1>3 DEF PathInv, ArrowOK, Done
<1>5. StopsInTime'
  BY <1>1 DEF PathInv, StopsInTime, Mined, Bumped
<1> QED BY <1>2, <1>4, <1>5 DEF PathInv

(* The invariant of the choice, for every map, price table, scene and way    *)
(* the player takes the cursor.                                             *)
THEOREM PathInvariant == Spec => []PathInv
<1>1. ASSUME PathInv, TypeOK, CostsArePaid, [Next]_vars PROVE PathInv'
  <2>1. CASE Flood
    BY <1>1, <2>1, FloodKeeps
  <2>2. CASE InitUnitMovementSelect
    BY <1>1, <2>2, InitSelectKeeps
  <2>3. ASSUME NEW c \in Tiles, MoveCursor(c) PROVE PathInv'
    BY <1>1, <2>3, MoveCursorKeeps
  <2>4. ASSUME NEW c \in Tiles, Confirm(c) PROVE PathInv'
    BY <1>1, <2>4, ConfirmKeeps
  <2>5. CASE Stopped \/ UNCHANGED vars
    BY <1>1, <2>5, StutterKeeps DEF Stopped
  <2> QED BY <1>1, <2>1, <2>2, <2>3, <2>4, <2>5 DEF Next
<1> QED BY <1>1, InitPath, SpecFloods, FloodTypes, FloodCosts, PTL DEF Spec

----------------------------------------------------------------------------
(* The arrow is a walk from the unit that is paid for and crosses no tile    *)
(* twice, whatever detours the player takes (UpdatePathArrowWithCursor).     *)
THEOREM ArrowsWalk == Spec => []PathIsWalkable
<1>1. PathInv => PathIsWalkable
  <2> SUFFICES ASSUME PathInv PROVE PathIsWalkable
    OBVIOUS
  <2>1. Walk(path) /\ PathContainsNoCycle(path)
    BY DEF PathInv, ArrowOK
  <2>2. path[1] = FirstPoint[1]
    BY <2>1 DEF Walk, FirstPoint
  <2> QED BY <2>1, <2>2 DEF PathIsWalkable, Walk, PathContainsNoCycle
<1> QED BY <1>1, PathInvariant, PTL

(* The arrow drawn for a tile in reach leads to it                           *)
(* (DrawUpdatedPathArrow).                                                   *)
THEOREM ArrowsReach == Spec => []ArrowReachesCursor
<1>1. PathInv => ArrowReachesCursor
  BY DEF PathInv, ArrowOK, ArrowReachesCursor, Unreached
<1> QED BY <1>1, PathInvariant, PTL

(* GenerateBestMovementScript is never sent to a tile it cannot come back    *)
(* from.                                                                    *)
THEOREM ScriptsAlwaysEnd == Spec => []ScriptsEnd
<1>1. PathInv => ScriptsEnd
  BY DEF PathInv, ArrowOK, ScriptsEnd
<1> QED BY <1>1, PathInvariant, PTL

(* The unit stops at the first mine or hidden enemy of its walk, and where   *)
(* the player sent it when there is none                                     *)
(* (UnitApplyWorkingMovementScript).                                         *)
THEOREM UnitStopsInTime == Spec => []StopsInTime
<1>1. PathInv => StopsInTime
  BY DEF PathInv
<1> QED BY <1>1, PathInvariant, PTL

----------------------------------------------------------------------------
(* The flood reaches what LeastCosts reaches, for no more: by induction on   *)
(* the cost LeastCosts has found.                                           *)
LEMMA FloodReaches ==
  ASSUME TypeOK, CostsArePaid, GainsArePending, Done, JobOK, NEW t \in Tiles,
         LeastCosts(origin, movement)[t] # 255
  PROVE  map[t] <= LeastCosts(origin, movement)[t]
<1> DEFINE c == LeastCosts(origin, movement)
<1>1. Paid(c, origin, movement)
  BY LeastCostsArePaid DEF JobOK, MaxMovement
<1> HIDE DEF c
<1>2. /\ origin \in Tiles /\ movement \in Nat /\ movement <= 124
      /\ \A n \in Tiles : map[n] \in Nat /\ map[n] <= 255
      /\ \A n \in Tiles : prices[n] \in Nat /\ prices[n] >= 1
  BY Ranges
<1>3. /\ \A n \in Tiles : c[n] \in Nat
      /\ c[origin] = 0 /\ map[origin] = 0
  <2>1. ASSUME NEW n \in Tiles PROVE c[n] \in 0 .. 255
    BY <1>1 DEF Paid, CostMap
  <2> QED BY <1>1, <2>1 DEF Paid, CostsArePaid
<1> DEFINE D == {v \in Nat : \A n \in Tiles :
                   c[n] <= v /\ c[n] # 255 => map[n] <= c[n]}
<1>4. ASSUME NEW n \in Tiles, n # origin, c[n] # 255,
             \A k \in Tiles : c[k] < c[n] /\ c[k] # 255 => map[k] <= c[k]
      PROVE  map[n] <= c[n]
  <2>1. PICK k \in Neighbours(n) : c[k] # 255 /\ c[k] + prices[n] <= c[n]
    BY <1>1, <1>4 DEF Paid
  <2>2. k \in Tiles /\ n \in Neighbours(k)
    BY NextTo
  <2>3. c[n] <= movement /\ n \notin foes
    BY <1>1, <1>4 DEF Paid
  <2>4. /\ c[k] \in Nat /\ c[n] \in Nat /\ map[k] \in Nat /\ map[n] \in Nat
        /\ prices[n] \in Nat /\ prices[n] >= 1
    BY <1>2, <1>3, <2>2
  <2>5. map[k] <= c[k]
    BY <1>4, <2>1, <2>2, <2>4
  <2>6. map[k] # 255 /\ map[k] + prices[n] <= movement
    BY <1>2, <2>1, <2>3, <2>4, <2>5
  <2>7. PICK d \in Dirs : n = Towards(k, d)
    BY <2>2 DEF Neighbours
  <2>8. ~Pending(k, d)
    BY DEF Done, Pending, PendingIn
  <2>9. Settled(k, n)
    BY <2>2, <2>6, <2>7, <2>8 DEF GainsArePending, Unreached
  <2>10. map[n] <= map[k] + prices[n]
    BY <1>2, <2>3, <2>4, <2>6, <2>9 DEF Settled
  <2> QED BY <2>1, <2>4, <2>5, <2>10
<1>5. 0 \in D
  <2>1. ASSUME NEW n \in Tiles, c[n] <= 0, c[n] # 255 PROVE map[n] <= c[n]
    <3>1. CASE n = origin
      BY <1>3, <3>1
    <3>2. CASE n # origin
      <4>1. \A k \in Tiles : ~ (c[k] < c[n])
        BY <1>3, <2>1
      <4> QED BY <1>4, <2>1, <3>2, <4>1
    <3> QED BY <3>1, <3>2
  <2> QED BY <2>1
<1>6. ASSUME NEW v \in Nat, v \in D PROVE v + 1 \in D
  <2>1. ASSUME NEW n \in Tiles, c[n] <= v + 1, c[n] # 255 PROVE map[n] <= c[n]
    <3>1. CASE n = origin
      BY <1>3, <3>1
    <3>2. CASE n # origin
      <4>1. ASSUME NEW k \in Tiles, c[k] < c[n], c[k] # 255
            PROVE  map[k] <= c[k]
        <5>1. c[k] <= v
          BY <1>3, <2>1, <4>1
        <5> QED BY <1>6, <4>1, <5>1
      <4> QED BY <1>4, <2>1, <3>2, <4>1
    <3> QED BY <3>1, <3>2
  <2> QED BY <2>1
<1>7. Nat \subseteq D
  <2> HIDE DEF D
  <2> QED BY <1>5, <1>6, AllNumbers
<1>8. map[t] <= c[t]
  <2>1. c[t] \in D /\ c[t] <= c[t]
    <3> HIDE DEF D
    <3> QED BY <1>3, <1>7
  <2>2. c[t] # 255
    BY DEF c
  <2> QED BY <2>1, <2>2
<1> QED BY <1>8 DEF c

(* Whatever order the pools of the asm were worked off in, the map is the    *)
(* one that the relaxation of all tiles in turn computes: what               *)
(* GenerateMovementMap leaves is what the arrow asks for again later.        *)
FloodIsLeast == Done => map = LeastCosts(origin, movement)

(* The finished map of GenerateMovementMap is LeastCosts of the unit's tile. *)
THEOREM FloodComputes == Spec => []FloodIsLeast
<1>1. ASSUME TypeOK, CostsArePaid, GainsArePending, JobOK, Done
      PROVE  map = LeastCosts(origin, movement)
  <2> DEFINE c == LeastCosts(origin, movement)
  <2>1. Paid(c, origin, movement)
    BY <1>1, LeastCostsArePaid DEF JobOK, MaxMovement
  <2>2. c \in CostMap
    BY <2>1 DEF Paid
  <2>3. ASSUME NEW t \in Tiles, map[t] # 255 PROVE c[t] <= map[t]
    BY <1>1, <2>3, LeastCostsReach
  <2>4. ASSUME NEW t \in Tiles, c[t] # 255 PROVE map[t] <= c[t]
    BY <1>1, <2>4, FloodReaches
  <2> HIDE DEF c
  <2>5. map \in [Tiles -> 0 .. 255] /\ c \in [Tiles -> 0 .. 255]
    BY <1>1, <2>2 DEF TypeOK, CostMap
  <2>6. ASSUME NEW t \in Tiles PROVE map[t] = c[t]
    <3> DEFINE x == map[t]
               y == c[t]
    <3>1. x \in 0 .. 255 /\ y \in 0 .. 255
      BY <2>5
    <3>2. (x # 255 => y <= x) /\ (y # 255 => x <= y)
      BY <2>3, <2>4
    <3> HIDE DEF x, y
    <3>3. x = y
      BY <3>1, <3>2
    <3> QED BY <3>3 DEF x, y
  <2>7. map = c
    BY <2>5, <2>6
  <2> QED BY <2>7 DEF c
<1>2. TypeOK /\ CostsArePaid /\ GainsArePending /\ PathInv => FloodIsLeast
  BY <1>1 DEF PathInv, FloodIsLeast
<1> QED BY <1>2, SpecFloods, FloodTypes, FloodCosts, FloodGains, PathInvariant, PTL
====
