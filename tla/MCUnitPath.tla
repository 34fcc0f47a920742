---- MODULE MCUnitPath ----
EXTENDS UnitPath, TLC

MCWidth == 3
MCHeight == 3

(* Flat ground with a forest anywhere, and walls that make the unit walk     *)
(* round: the four corners keep the price of a plain.                        *)
Corner == {<<0, 0>>, <<2, 0>>, <<0, 2>>, <<2, 2>>}
MCPriceTables ==
  {p \in [Tiles -> {1, 2, 255}] : \A t \in Corner : p[t] = 1}

MCFoeSets == {{}, {<<1, 1>>}}
MCOrigins == {<<0, 0>>}
MCMovements == {4}

Scene(a, h, m, s) == [allies |-> a, hidden |-> h, mines |-> m, sure |-> s]
MCScenes ==
  {Scene({}, {}, {}, FALSE),
   Scene({<<1, 0>>}, {<<2, 0>>}, {}, TRUE),
   Scene({}, {<<1, 2>>}, {<<1, 2>>, <<2, 1>>}, FALSE)}
====
