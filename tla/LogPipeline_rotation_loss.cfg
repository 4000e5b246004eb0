SPECIFICATION FairPipelineSpec
CONSTANTS
  None = None
  Writers = {w1, w2}
  Inodes = {i1, i2}
  MaxEvents = 1
  Parts = 2
  StreamOn = FALSE
  Faults = {}
  MaxRestarts = 0
  Multibyte = FALSE
PROPERTY NewLinesAreHandled
