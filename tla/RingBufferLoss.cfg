SPECIFICATION Spec
CONSTANTS
  Capacity = 4
  Modulus = 8
  TestCount = 20
  MaxLead = 7
  Lost = Lost
  None = None
INVARIANT ZeroDataLoss
CHECK_DEADLOCK FALSE
