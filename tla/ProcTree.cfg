SPECIFICATION Spec
CONSTANTS
  r1 = r1
  s1 = s1
  s2 = s2
  m1 = m1
  NProc = 3
  Root <- OneRoot
  Script <- OneScript
  Mark <- NoMark
  Careful = TRUE
  MaxStarts = 4
  MaxDepth = 4
INVARIANTS
  TypeOK
  FreeListExact
  LocksCountBlockers
  WellLinked
  EveryProcVisited
