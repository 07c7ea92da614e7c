SPECIFICATION Spec
CONSTANTS
  WindowSize = 2
  Accels = {"accel_x"}
  MaxRounds = 3
  MaxMeasures = 3
INVARIANTS
  TypeOK
  PairStaysClose
  PercentilesAreRecent
PROPERTIES
  RepliesMoveOn
