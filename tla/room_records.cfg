CONSTANTS
  s1 = s1 s2 = s2 p1 = p1 p2 = p2 p3 = p3
  a = a b = b f = f v1 = v1 v2 = v2
  Ids = {a, b}
  PresenceIds = {}
  Fields = {f}
  Vals = {v1, v2}
  BadRecords <- RecordsWithV2
  Absent = Absent
  NoPresence = NoPresence
  NoUpdate = NoUpdate
  SessionIds = {s1}
  PushDiffs <- ChangeRemoveAndFail
  PresenceOps = {}
  StoreTargets <- ValidTargets
  InitialDocs <- OnlyFull
  ClientClocks = {1}
  ConnectRequestIds = {1}
  ProtocolVersions = {5, 7, 8}
  MAX_TOMBSTONES = 1
  TOMBSTONE_PRUNE_BUFFER_SIZE = 0
  MaxClock = 3
  MaxWire = 1
SPECIFICATION Spec
INVARIANTS TypeOK ClocksInOrder DocsInSync HistorySound ReconnectSound TombstonesAreDead TombstonesBounded
PROPERTIES DocumentClockTracksDocuments NoStaleWriteBack
