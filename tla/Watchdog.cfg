SPECIFICATION Spec
CONSTANTS
  DeadThreshold = 5
  RecvTimeout = 5
  WarmUp = 2
  RestartSec = 3
  HwTimeout = 16
  SilenceCap = 7
INVARIANTS
  TypeOK
  SilenceIsNoticed
PROPERTIES
  BlamedWasSilent
  ResetNeedsCause
  StuckIsNotForever
  GivingUpIsFatal
