SPECIFICATION FairSpec
CONSTANTS
  None = None
  Writers = {w1, w2}
  Inodes = {i1, i2, i3}
  MaxEvents = 1
  Parts = 3
  StreamOn = TRUE
  Faults <- AllFaults
INVARIANTS
  TypeOK
  NoInterleaving
  FragmentsExplained
  AtMostOnce
  ArchiveComplete
  StreamFirst
PROPERTY EventFinishes
