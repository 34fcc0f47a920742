SPECIFICATION Spec
CONSTANTS
  a = a
  b = b
  c = c
  Console <- Two
  SeqMod = 3
  Readers <- Two
  SendSlots = 2
  RecvSlots = 2
  MaxResend = 4
  MayRefuse = TRUE
  MayStop <- OnlyA
  MaxData <- FourFromA
  NetCap = 4
INVARIANTS
  TypeOK
  OneAhead
PROPERTIES
  InOrderOnce
CHECK_DEADLOCK FALSE
