SPECIFICATION Spec
CONSTANTS
  RollbackTimeout = 3
  MaxUpgrades = 3
INVARIANT FlagMeansV2Started
