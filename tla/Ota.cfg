SPECIFICATION Spec
CONSTANTS
  RollbackTimeout = 3
  MaxUpgrades = 3
INVARIANTS
  TypeOK
  FreshFlagIsV2s
  PowerSafeFromV1
  RollbackIsToV1
PROPERTIES
  ScriptEnds
