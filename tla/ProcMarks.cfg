SPECIFICATION Spec
CONSTANTS
  r1 = r1
  s1 = s1
  s2 = s2
  m1 = m1
  NProc = 2
  Root <- OneRoot
  Script <- TwoScripts
  Mark <- OneMark
  Careful = TRUE
  MaxStarts = 4
  MaxDepth = 5
INVARIANTS
  LocksCountBlockers
  WellLinked
