---- MODULE MapGrid ----
(***************************************************************************)
(* The tiles of the battle map and the four directions a unit walks in.    *)
(* The rows and columns of tiles that bmmap.c keeps around the map as a    *)
(* safety margin hold terrain 0, whose price is 255 for every class, so no *)
(* flood ever enters them: the grid leaves them out.                       *)
(***************************************************************************)
EXTENDS Integers

CONSTANTS Width, Height

ASSUME SizeAssumption == Width \in Nat \ {0} /\ Height \in Nat \ {0}

Tiles == (0 .. Width - 1) \X (0 .. Height - 1)

(* The values of enum MOVE_CMD that are also the connexion of an entry.    *)
Left == 0
Right == 1
Down == 2
Up == 3
Dirs == {Left, Right, Down, Up}

Towards(t, d) ==
  CASE d = Left  -> <<t[1] - 1, t[2]>>
    [] d = Right -> <<t[1] + 1, t[2]>>
    [] d = Down  -> <<t[1], t[2] + 1>>
    [] d = Up    -> <<t[1], t[2] - 1>>

Neighbours(t) == Tiles \cap {Towards(t, d) : d \in Dirs}

Back == [d \in Dirs |-> CASE d = Left -> Right [] d = Right -> Left
                          [] d = Down -> Up    [] d = Up -> Down]

(* BmMapFill(map, -1): a tile the flood has not reached.                    *)
Unreached == 255
Price == 1 .. 255

(* MAP_MOVEMENT_EXTENDED, the largest allowance any caller passes.          *)
MaxMovement == 124
====
