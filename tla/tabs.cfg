CONSTANTS
  a = a v1 = v1 v2 = v2 t1 = t1 t2 = t2
  Absent = Absent
  Gone = Gone
  Tabs = {t1, t2}
  Ids = {a}
  Vals = {v1, v2}
  InitialRecords <- OneRecord
  MaxEdits = 2
  MaxOpens = 3
  MaxFailures = 1
SPECIFICATION FairTabsSpec
CHECK_DEADLOCK FALSE
INVARIANTS WrittenOrQueued TabsAgree
PROPERTIES EventuallySaved
