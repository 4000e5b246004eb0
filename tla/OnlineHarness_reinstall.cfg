SPECIFICATION Spec
CONSTANTS
  Runs = {r1}
  MaxStarts = 2
  MaxFaults = 1
  Faults = {"kill", "error"}
INVARIANT ReinstallCompletes
