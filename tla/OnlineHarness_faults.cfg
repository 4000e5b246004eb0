SPECIFICATION FairSpec
CONSTANTS
  Runs = {r1, r2}
  MaxStarts = 3
  MaxFaults = 2
  Faults = {"error", "kill", "hidden", "classify", "expire"}
INVARIANTS
  TypeOK
  FileOutlivesResources
  ErrorsOnlyFromFaults
  OneRunAtATime
  InstalledWhenProved
PROPERTY EverythingIsRemoved
