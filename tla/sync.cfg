CONSTANTS
  s1 = s1 s2 = s2 p1 = p1 p2 = p2 p3 = p3
  a = a b = b f = f g = g v1 = v1 v2 = v2
  Ids = {a, b}
  PresenceIds = {p1, p2}
  Fields = {f, g}
  Vals = {v1, v2}
  BadRecords <- BothChanged
  Absent = Absent
  NoPresence = NoPresence
  NoUpdate = NoUpdate
  SessionIds = {s1, s2}
  PushDiffs = {}
  PresenceOps = {}
  StoreTargets = {}
  InitialDocs <- SyncInitialDocs
  ClientClocks = {}
  ConnectRequestIds = {}
  ProtocolVersions = {}
  MAX_TOMBSTONES = 3
  TOMBSTONE_PRUNE_BUFFER_SIZE = 0
  MaxClock = 4
  MaxWire = 3
  Scenarios <- AllScenarios
SPECIFICATION SyncSpec
CHECK_DEADLOCK FALSE
SYMMETRY PresenceSymmetry
INVARIANTS SyncTypeOK ConfirmedIsRoomUnlessAstray AnswersInOrder NothingUnpushed Converged
PROPERTIES ImplementsSharedDocument
