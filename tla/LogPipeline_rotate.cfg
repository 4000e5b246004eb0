SPECIFICATION FairPipelineSpec
CONSTANTS
  None = None
  Writers = {w1, w2}
  Inodes = {i1, i2}
  MaxEvents = 1
  Parts = 3
  StreamOn = FALSE
  Faults = {"short"}
  MaxRestarts = 1
  Multibyte = TRUE
INVARIANTS
  PipelineTypeOK
  HandledOnceInOrder
PROPERTIES
  FollowsPath
  NothingPassedOver
  ImplementsAtomicLog
