SPECIFICATION FairSpec
CONSTANTS
  RingSize = 12
  MaxBody = 2
  WordMod = 65536
  Mail <- TwoPackets
  Again <- Longer
  MaxFaults = 1
INVARIANTS
  TypeOK
  Genuine
  InOrder
PROPERTIES
  Recovers
