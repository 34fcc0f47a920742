---- MODULE UnitPath ----
(***************************************************************************)
(* Choosing where a unit goes (playerphase.c) on the movement map the flood *)
(* has filled: the cursor, the path arrow that follows it                  *)
(* (bmpatharrowdisp.c), the script the arrow becomes when the player       *)
(* confirms, and what stops the unit on the way                            *)
(* (UnitApplyWorkingMovementScript, bmidoten.c).                           *)
(*                                                                         *)
(* The floods the arrow asks for while the cursor moves are taken in one   *)
(* step as LeastCosts; the first flood, the one of MovementMap, is taken   *)
(* step by step and checked to end in the same map.                        *)
(***************************************************************************)
EXTENDS MovementMap, SequencesExt

CONSTANT Scenes  \* what else is on the map: allies, hidden enemies, mines

VARIABLES scene,   \* [allies, hidden, mines, sure]: rigid; sure is the mask
                   \* of flyers, thieves and assassins, whom no mine stops
          phase,   \* "flood", "select", "moved" or "stopped"
          cursor, drawn,   \* gBmSt.playerCursor and lastX, lastY
          path,    \* pathX, pathY and pathCosts up to pathLen
          lost,    \* GenerateBestMovementScript was sent to an unreached tile
          stop     \* gActionData.xMove, yMove

pathVars == <<phase, cursor, drawn, path, lost, stop>>
vars == <<job, floodVars, scene, pathVars>>

(* A tile takes its cheapest offer within the allowance m.                   *)
Relaxed(costs, n, m) ==
  LET offers == {costs[t] + prices[n] : t \in Neighbours(n)}
      open == {c \in offers : c < costs[n] /\ c <= m /\ n \notin foes}
  IN IF open = {} THEN costs ELSE [costs EXCEPT ![n] = Min(open)]

(* The tiles in turn, row by row, over and over.                             *)
InTurn(i) == <<i % Width, (i \div Width) % Height>>

(* What a flood from o with allowance m leaves in the working map: m turns,  *)
(* as no walk within the allowance has more steps than that.                 *)
LeastCosts(o, m) ==
  LET start == [[t \in Tiles |-> Unreached] EXCEPT ![o] = 0]
      costs[i \in 0 .. m * Width * Height] ==
        IF i = 0 THEN start ELSE Relaxed(costs[i - 1], InTurn(i), m)
  IN costs[m * Width * Height]

Cheapest(costs, t) ==
  {n \in Neighbours(t) : \A k \in Neighbours(t) : costs[n] <= costs[k]}

(* GenerateBestMovementScript: from t back to the tile of cost 0, always by  *)
(* a cheapest neighbour, at random among equals; then turned round.          *)
BestScripts(costs, t) ==
  LET scripts[n \in Tiles] ==
        IF costs[n] = 0 THEN {<<>>}
        ELSE UNION {{Append(s, n) : s \in scripts[k]} : k \in Cheapest(costs, n)}
  IN IF costs[t] = Unreached THEN {} ELSE scripts[t]

AddPoint(p, t) ==
  Append(p, [tile |-> t, left |-> Last(p).left - prices[t]])

Walked(p, script) ==
  LET walked[i \in 0 .. Len(script)] ==
        IF i = 0 THEN p ELSE AddPoint(walked[i - 1], script[i])
  IN walked[Len(script)]

FirstPoint == <<[tile |-> origin, left |-> movement]>>

TilesOf(p) == [i \in DOMAIN p |-> p[i].tile]

(* CutOffPathLength: the first n points stay, what is left is counted again. *)
CutOff(p, n) ==
  IF Len(p) > n THEN Walked(<<p[1]>>, Tail(SubSeq(TilesOf(p), 1, n))) ELSE p

PathContainsNoCycleEver(p) == TRUE   \* mutant: detours may cross themselves

PathContainsNoCycle(p) ==
  \A i, j \in DOMAIN p : p[i].tile = p[j].tile => i = j

ResetPathArrowNotRebuilt(p, c) == {CutOff(p, 1)}   \* mutant: no new script

ResetPathArrowFromEnd(p, c) ==   \* mutant: floods from where the arrow ended
  {Walked(CutOff(p, 1), s) :
     s \in BestScripts(LeastCosts(Last(p).tile, Last(p).left), c)}

ResetPathArrow(p, c) ==
  LET q == CutOff(p, 1)
  IN {Walked(q, s) : s \in BestScripts(LeastCosts(Last(q).tile, Last(q).left), c)}

Lengthened(p, c) ==
  LET q == IF Last(p).left = 0 THEN CutOff(p, 1) ELSE p
      around == LeastCosts(Last(q).tile, Last(q).left)
      longer == {Walked(q, s) : s \in BestScripts(around, c)}
  IN IF around[c] = Unreached THEN ResetPathArrow(q, c)
     ELSE UNION {IF PathContainsNoCycle(w) THEN {w} ELSE ResetPathArrow(w, c) :
                 w \in longer}

(* UpdatePathArrowWithCursor: the paths the arrow p may become.              *)
Updated(p, c) ==
  IF map[c] = Unreached THEN {p}
  ELSE IF \E i \in DOMAIN p : p[i].tile = c
  THEN {CutOff(p, CHOOSE i \in DOMAIN p :
                    p[i].tile = c /\ \A j \in DOMAIN p : p[j].tile = c => i <= j)}
  ELSE IF Last(p).left >= prices[c] /\ c \in Neighbours(Last(p).tile)
  THEN {AddPoint(p, c)}
  ELSE Lengthened(p, c)

DrawUpdatedPathArrow(p, last, c) ==
  IF last = c
  THEN path' = p /\ lost' = lost /\ drawn' = last
  ELSE /\ drawn' = c
       /\ IF Updated(p, c) = {} THEN lost' = TRUE /\ path' = p
          ELSE lost' = lost /\ path' \in Updated(p, c)

Nowhere == <<-1, -1>>

PathInit ==
  /\ Init
  /\ origin \notin foes
  /\ scene \in {s \in Scenes :
                  /\ s.allies \cap ({origin} \cup foes) = {}
                  /\ s.hidden \cap ({origin} \cup foes \cup s.allies) = {}
                  /\ s.mines \cap (foes \cup s.allies) = {}}
  /\ phase = "flood"
  /\ cursor = origin
  /\ drawn = Nowhere
  /\ path = FirstPoint
  /\ lost = FALSE
  /\ stop = origin

Flood == FloodNext /\ UNCHANGED <<scene, pathVars>>

(* PlayerPhase_InitUnitMovementSelect: with the cursor on the unit the arrow *)
(* starts anew; when the player comes back from a cancelled move or from the *)
(* screen of another unit with the cursor elsewhere, the old arrow stays.    *)
InitUnitMovementSelect ==
  /\ \/ phase = "flood" /\ Done
     \/ phase = "moved"
     \/ phase = "select" /\ cursor \in {origin} \cup foes \cup scene.allies
  /\ phase' = "select"
  /\ stop' = origin
  /\ IF cursor = origin
     THEN DrawUpdatedPathArrow(FirstPoint, Nowhere, cursor)
     ELSE UNCHANGED <<path, lost, drawn>>
  /\ UNCHANGED <<job, floodVars, scene, cursor>>

(* sDirKeysToOffsetLut also holds the diagonals.                             *)
StepsOf(c) == {t \in Tiles : t[1] - c[1] \in -1 .. 1 /\ t[2] - c[2] \in -1 .. 1}

(* A frame in which the cursor stays, steps or is put back on the unit (L),  *)
(* and the arrow is drawn.                                                   *)
MoveCursor(c) ==
  /\ phase = "select"
  /\ c \in StepsOf(cursor) \cup {origin}
  /\ cursor' = c
  /\ DrawUpdatedPathArrow(path, drawn, c)
  /\ UNCHANGED <<job, floodVars, scene, phase, stop>>

CanMoveActiveUnitToAny(t) == map[t] < 120   \* mutant: no look at the unit map

CanMoveActiveUnitTo(t) == t \notin foes \cup scene.allies /\ map[t] < 120

(* The points of the script the unit steps on, the last one being looked at  *)
(* again when the script halts.                                              *)
Stepped(p) == IF Len(p) = 1 THEN {1} ELSE 2 .. Len(p)

Mined(i) == ~scene.sure /\ path[i].tile \in scene.mines
Bumped(i) == ~Mined(i) /\ path[i].tile \in scene.hidden

(* A frame in which the player confirms.  HandlePlayerCursorMovement masks   *)
(* the button while the cursor on the screen is between two tiles, and that  *)
(* one trails or turns back: the cursor may have taken a step in the same    *)
(* frame, and the script is the one of the arrow last drawn.                 *)
Confirm(c) ==
  /\ phase = "select"
  /\ c \in StepsOf(cursor)
  /\ CanMoveActiveUnitTo(c)
  /\ cursor' = c
  /\ LET halts == {i \in Stepped(path) : Mined(i) \/ Bumped(i)}
         first == Min(halts)
     IN IF halts = {}
        THEN phase' = "moved" /\ stop' = Last(path).tile
        ELSE /\ phase' = "stopped"
             /\ stop' = path[IF Mined(first) THEN first ELSE first - 1].tile
  /\ UNCHANGED <<job, floodVars, scene, drawn, path, lost>>

(* The unit was trapped: its action is over.                                 *)
Stopped == phase = "stopped" /\ UNCHANGED vars

Next ==
  \/ Flood
  \/ InitUnitMovementSelect
  \/ \E c \in Tiles : MoveCursor(c) \/ Confirm(c)
  \/ Stopped

Spec == PathInit /\ [][Next]_vars

(* The flood is a loop of one call: nothing interrupts it for good.          *)
FairSpec == Spec /\ WF_vars(Flood)

----------------------------------------------------------------------------
(* GenerateMovementMap returns: tiles are pushed again when their cost falls, *)
(* and it cannot fall for ever.  Whatever order the pools were worked off in,*)
(* the map is then the one that the relaxation of all tiles in turn computes. *)
FloodEnds ==
  <>(phase = "flood" /\ Done /\ map = LeastCosts(origin, movement))

(* The arrow is a walk the unit can take: it starts at the unit, goes from   *)
(* tile to neighbour, crosses no enemy and no tile twice, and what is left   *)
(* at each point is the allowance less the prices so far, never below 0:     *)
(* every detour the player draws is paid for, and the arrays of 20 points    *)
(* are long enough.                                                          *)
PathIsWalkable ==
  /\ path[1] = FirstPoint[1]
  /\ \A i, j \in DOMAIN path : path[i].tile = path[j].tile => i = j
  /\ \A i \in 2 .. Len(path) :
       /\ path[i].tile \in Neighbours(path[i - 1].tile) \ foes
       /\ path[i].left = path[i - 1].left - prices[path[i].tile]
       /\ path[i].left >= 0

(* The arrow last drawn for a tile in reach leads to that tile, whichever    *)
(* way the cursor took there, even over tiles out of reach.                  *)
ArrowReachesCursor ==
  phase = "select" /\ drawn = cursor /\ map[cursor] # Unreached =>
    Last(path).tile = cursor

(* GenerateBestMovementScript is never sent to a tile the working map does   *)
(* not reach: it would follow the map for ever.                              *)
ScriptsEnd == ~lost

(* Where the unit stops: on the arrow; not on an enemy, seen or hidden,      *)
(* unless a mine lies under the hidden one; past no mine and no hidden       *)
(* enemy; and at the confirmed tile, which is free, when the arrow was drawn *)
(* for it and nothing stopped the unit.                                      *)
StopsInTime ==
  phase \in {"moved", "stopped"} =>
    \E k \in DOMAIN path :
      /\ path[k].tile = stop
      /\ stop \notin foes
      /\ stop \in scene.hidden => Mined(k)
      /\ \A i \in 2 .. k - 1 : ~Mined(i) /\ ~Bumped(i)
      /\ phase = "stopped" =>
           Mined(k) \/ (k < Len(path) /\ Bumped(k + 1))
      /\ phase = "moved" /\ drawn = cursor =>
           stop = cursor /\ stop \notin scene.allies
====
