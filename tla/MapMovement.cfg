SPECIFICATION FairSpec
CONSTANTS
  Width <- MCWidth
  Height <- MCHeight
  PriceTables <- MCPriceTables
  FoeSets <- MCFoeSets
  Origins <- MCOrigins
  Movements <- MCMovements
  Scenes <- MCScenes
INVARIANTS GainsArePending CostsArePaid NoEntryTwice
  PathIsWalkable ArrowReachesCursor ScriptsEnd StopsInTime
PROPERTIES FillsLeastCosts FloodEnds
