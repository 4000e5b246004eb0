SPECIFICATION FairSpec
CONSTANTS
  Sessions = {s1}
  Kinds = {"alert", "heartbeat"}
  Levels = {"off", "log", "junk"}
  MaxReads = 2
  MaxChanges = 1
  MaxAttempts = 2
  Environments <- AllEnvironments
  Faults = {"invoke", "cancel", "start", "publish", "timeout"}
INVARIANTS
  TypeOK
  EachSinkAsConfigured
PROPERTY AcceptedIsLogged
