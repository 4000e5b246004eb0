SPECIFICATION FairSpec
CONSTANTS
  Configurations <- AllConfigurations
  Rows = 2
  Columns = 2
  MaxRequests = 2
INVARIANTS
  TypeOK
  CallerUndisturbed
  DeliveredIsRecorded
  AtMostOneRow
PROPERTY ReaderIsTerminated
