SPECIFICATION Spec
CONSTANTS
  Configurations <- ParallelConfigurations
  Rows = 2
  Columns = 2
  MaxRequests = 0
INVARIANT NoErrorSurfaces
