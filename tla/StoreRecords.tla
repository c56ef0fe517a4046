----------------------------- MODULE StoreRecords -----------------------------
(***************************************************************************)
(* The records of a store, packages/store/src/lib/Store.ts, as those who   *)
(* listen to it see them: undo and redo, and the tabs of one browser.      *)
(***************************************************************************)
EXTENDS RecordsDiff

CONSTANTS Ids, Vals  \* records and their values

ASSUME RecordsAssumption == Absent \notin Vals

Records == [Ids -> Vals \cup {Absent}]
=============================================================================
