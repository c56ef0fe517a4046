CONSTANTS
  s1 = s1
  s2 = s2
  SessionIds = {s1, s2}
  MaxEdits = 2
  MaxRooms = 2
  MaxClock = 2
  MaxTasks = 1
  MaxLives = 2
SYMMETRY SessionSymmetry
SPECIFICATION ObjectSpec
INVARIANTS ObjectTypeOK OneRoom SavedWhenClosed SaveIsPlanned
PROPERTY SavesAddUp
CHECK_DEADLOCK FALSE
