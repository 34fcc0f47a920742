---- MODULE MCUnitRescue ----
EXTENDS UnitRescue, TLC

CONSTANTS b1, b2, b3, g1, r1, r2, knight, flier, child, raider

(* A corridor with one tile of water, which only the flier crosses.          *)
MCWidth == 4
MCHeight == 1
Water == <<1, 0>>

MCCanCarry == {knight, flier} \X {child}
MCCanStand == [p \in {knight, flier, child, raider} |->
                 IF p = flier THEN Tiles ELSE Tiles \ {Water}]

(* The child is of the player's army, with two who can carry it; or of the  *)
(* green one, with the flier alone.                                          *)
Field(first, b, g) ==
  [who |-> b1 :> first @@ b2 :> flier @@ b3 :> b @@ g1 :> g
           @@ r1 :> raider @@ r2 :> NoOne,
   pos |-> b1 :> <<0, 0>> @@ b2 :> <<1, 0>> @@ b3 :> <<2, 0>>
           @@ g1 :> <<2, 0>> @@ r1 :> <<3, 0>> @@ r2 :> <<0, 0>>]

MCDeployments == {Field(knight, child, NoOne), Field(NoOne, NoOne, child)}
====
