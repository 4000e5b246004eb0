SPECIFICATION FairSpec
CONSTANTS
  Intervals = {0, 60}
  MaxSignals = 3
  MaxFailures = 2
INVARIANTS
  TypeOK
  NoLostWakeup
PROPERTIES
  ReloadIsProcessed
  HeartbeatsGoOn
