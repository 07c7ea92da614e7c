SPECIFICATION Spec
CONSTANTS
  Clients = {c1, c2, c3}
  NoClient = NoClient
  BLACKLIST_MAX = 2
  BLACKLIST_THRESHOLD = 2
  BLACKLIST_BAN_SEC = 2
  Backlog = 2
  MaxIllegal = 5
INVARIANTS
  TypeOK
  OneEntryPerClient
  CountIsThisConnections
PROPERTIES
  BannedForCause
  BannedNotServed
