SPECIFICATION Spec
CONSTANTS
  None = None
  bgworker = bgworker
  poker = poker
  Sources <- MCSources
  Interval = 1
  MaxAge = 1
  MaxTime = 5
  MaxAlerts = 1
  MaxStarts = 2
  MaxRotations = 1
SYMMETRY Symmetry
INVARIANTS
  TypeOK
  SilenceIsNoticed
PROPERTIES
  AlarmIsTrue
  OneAlarmPerSilence
CHECK_DEADLOCK FALSE
