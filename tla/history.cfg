CONSTANTS
  a = a b = b v1 = v1 v2 = v2 m1 = m1 m2 = m2
  Absent = Absent
  NoMark = NoMark
  Ids = {a, b}
  Vals = {v1, v2}
  MarkIds = {m1, m2}
  InitialStores <- OneOfTwo
  MaxChanges <- TwoAndOne
  MaxDepth = 1
SPECIFICATION HistorySpec
SYMMETRY Symmetry
INVARIANTS HistoryTypeOK UndoReachesMark RedoReachesMark
PROPERTIES UndoThenRedo
