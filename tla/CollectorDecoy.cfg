SPECIFICATION Spec
CONSTANTS
  LastEvent = 2
  FailLimit = 3
  NoDataLimit = 2
  StreakCap = 4
PROPERTY ReinsertedMpuRuns
