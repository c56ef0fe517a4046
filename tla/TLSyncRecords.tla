---------------------------- MODULE TLSyncRecords ----------------------------
(***************************************************************************)
(* Records and the diffs exchanged about them: the record-level operators  *)
(* of packages/sync-core/src/lib/diff.ts, shared by the room and by the    *)
(* client.                                                                 *)
(*                                                                         *)
(* A record is a function from Fields to Vals: the protocol tells records  *)
(* apart by which of their top-level properties differ, so every record    *)
(* has the same properties and a property's value is atomic.  A set of     *)
(* records is a function from record ids to records, Absent where there is *)
(* no record with that id: the stores that RecordsDiff is about.           *)
(***************************************************************************)
EXTENDS RecordsDiff

CONSTANTS
    Ids,          \* ids of document-scoped records
    PresenceIds,  \* ids of presence records
    Fields,       \* top-level properties of a record
    Vals,         \* values of a property
    BadRecords    \* records that validators reject

ASSUME IdsAssumption == Ids \cap PresenceIds = {}

RecordIds == Ids \cup PresenceIds

Record == [Fields -> Vals]

ASSUME AbsentAssumption == Absent \notin Record

MaybeRecord == Record \cup {Absent}

\* What recordType.validate accepts.
IsValid(r) == r \notin BadRecords

(***************************************************************************)
(* Object diffs: the properties to overwrite, with their new values.       *)
(***************************************************************************)
ObjectDiff == UNION {[S -> Vals] : S \in SUBSET Fields}

\* diffRecord: the properties in which next differs from prev.
DiffRecord(prev, next) ==
    [f \in {g \in Fields : prev[g] # next[g]} |-> next[f]]

ApplyObjectDiff(r, diff) ==
    [f \in Fields |-> IF f \in DOMAIN diff THEN diff[f] ELSE r[f]]

(***************************************************************************)
(* Record operations, and network diffs: one operation per record.         *)
(***************************************************************************)
PutOp(r)   == [type |-> "put", record |-> r]
PatchOp(d) == [type |-> "patch", diff |-> d]
RemoveOp   == [type |-> "remove"]

RecordOp ==
    [type : {"put"}, record : Record]
        \cup [type : {"patch"}, diff : ObjectDiff]
        \cup {RemoveOp}

NetworkDiff == UNION {[S -> RecordOp] : S \in SUBSET RecordIds}

\* A push without an operation on the presence record.
NoOp == [type |-> "none"]

\* The diff without operations: both sides use null for it.
EmptyDiff == [id \in {} |-> RemoveOp]

\* What an operation makes of the record it names: a patch or a removal of a
\* record that is gone does nothing.
ApplyOp(cur, op) ==
    CASE op.type = "put"    -> op.record
      [] op.type = "patch"  -> IF cur = Absent THEN Absent
                               ELSE ApplyObjectDiff(cur, op.diff)
      [] op.type = "remove" -> Absent

ApplyNetworkDiff(records, diff) ==
    [id \in DOMAIN records |->
        IF id \in DOMAIN diff THEN ApplyOp(records[id], diff[id])
                              ELSE records[id]]

\* The smallest operation that turns cur into next, two different values.
OpBetween(cur, next) ==
    IF next = Absent THEN RemoveOp
    ELSE IF cur = Absent THEN PutOp(next)
    ELSE PatchOp(DiffRecord(cur, next))
=============================================================================
