SPECIFICATION Spec
CONSTANTS
  BATCH_SIZE = 3
  RoundRows = {0, 1, 4}
  MaxRows = 5
  NoLog = NoLog
  Garbled = Garbled
INVARIANTS
  TypeOK
  NothingLostWithoutTrouble
  OldRowsLeave
PROPERTIES
  ImplementsLog
