SPECIFICATION Spec
CONSTANTS
  b1 = b1
  b2 = b2
  b3 = b3
  g1 = g1
  r1 = r1
  r2 = r2
  knight = knight
  flier = flier
  child = child
  raider = raider
  None = None
  NoOne = NoOne
  Width <- MCWidth
  Height <- MCHeight
  BlueSlots = {b1, b2, b3}
  GreenSlots = {g1}
  RedSlots = {r1, r2}
  Person = {knight, flier, child, raider}
  CanCarry <- MCCanCarry
  CanStand <- MCCanStand
  CantoPersons = {flier}
  TurnCoats = {flier}
  MaxStrays = 1
  Deployments <- MCDeployments
INVARIANTS LinksAgree CarriedWithCarrier OneUnitPerTile NobodyVanishes
  UnitMapIsCurrent
PROPERTIES StaysAfterTransfer
