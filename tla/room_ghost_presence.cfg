CONSTANTS
  s1 = s1 s2 = s2 p1 = p1 p2 = p2 p3 = p3
  a = a b = b f = f v1 = v1 v2 = v2
  Ids = {a}
  PresenceIds = {p1, p2, p3}
  Fields = {f}
  Vals = {v1, v2}
  BadRecords <- RecordsWithV2
  Absent = Absent
  NoPresence = NoPresence
  NoUpdate = NoUpdate
  SessionIds = {s1, s2}
  PushDiffs = {}
  PresenceOps <- Moves
  StoreTargets = {}
  InitialDocs <- OnlyEmpty
  ClientClocks = {1}
  ConnectRequestIds = {1}
  ProtocolVersions = {7}
  MAX_TOMBSTONES = 5
  TOMBSTONE_PRUNE_BUFFER_SIZE = 0
  MaxClock = 2
  MaxWire = 1
SPECIFICATION Spec
SYMMETRY Symmetry
INVARIANT PresenceOwned
