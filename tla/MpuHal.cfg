SPECIFICATION Spec
CONSTANTS
  K = 3
  KernelRoom = 6
  LibRoom = 6
  RoundSamples = 2
  ChangeSets = {{1, 2, 3}, {2}}
  MaxSamples = 8
  Dropped = Dropped
INVARIANTS
  TypeOK
  NothingSkipped
  SamplesStayTogether
  ActiveDeviceIsHeard
