CONSTANTS
  s1 = s1 s2 = s2 p1 = p1 p2 = p2 p3 = p3
  a = a b = b f = f g = g v1 = v1 v2 = v2
  Ids = {a}
  PresenceIds = {}
  Fields = {f, g}
  Vals = {v1, v2}
  BadRecords = {}
  Absent = Absent
  NoPresence = NoPresence
  NoUpdate = NoUpdate
  SessionIds = {s1, s2}
  PushDiffs = {}
  PresenceOps = {}
  StoreTargets = {}
  InitialDocs <- OnlyFull
  ClientClocks = {}
  ConnectRequestIds = {}
  ProtocolVersions = {}
  MAX_TOMBSTONES = 3
  TOMBSTONE_PRUNE_BUFFER_SIZE = 0
  MaxClock = 4
  MaxWire = 3
  Scenarios <- Editors
SPECIFICATION SyncSpec
CHECK_DEADLOCK FALSE
INVARIANTS AllStoresTheSame
