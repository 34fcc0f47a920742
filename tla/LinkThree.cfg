SPECIFICATION FairSpec
CONSTANTS
  a = a
  b = b
  c = c
  Console <- Three
  SeqMod = 3
  Readers <- Two
  SendSlots = 2
  RecvSlots = 1
  MaxResend = 1
  MayRefuse = FALSE
  MayStop <- OnlyA
  MaxData <- OneEach
  NetCap = 1
INVARIANTS
  AckedIsKept
PROPERTIES
  Settles
CHECK_DEADLOCK FALSE
