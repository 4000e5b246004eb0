SPECIFICATION FairSpec
CONSTANTS
  None = None
  Roles = {"app", "backup", "monitor"}
  Sessions = {"a", "m", "b1", "b2"}
  RoleOf <- MCRoleOf
  AddrOf <- MCAddrOf
  Benign = {"b1"}
  Rules <- MCRules
  MonitorRole = "monitor"
  Settings <- MCSettings
  Faults = {"error", "hang", "crash"}
  MaxReads = 2
  MaxFaults = 1
  MaxReinstates = 1
CHECK_DEADLOCK FALSE
INVARIANTS
  TypeOK
  AnsweredRolesAreOut
  LoginsTakenAreOwed
PROPERTY ReadersAreCutOff
