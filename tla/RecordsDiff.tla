----------------------------- MODULE RecordsDiff -----------------------------
(***************************************************************************)
(* Diffs of a store, as packages/store records, squashes, reverses and     *)
(* applies them: packages/store/src/lib/RecordsDiff.ts and Store.applyDiff.*)
(*                                                                         *)
(* A store is a function from record ids to values, Absent where there is  *)
(* no record.  The three parts of a diff are partial functions on ids.     *)
(* Two values are the same when they are equal: the code compares the      *)
(* identities of frozen records, and its validators return the old record  *)
(* when the new one does not differ from it.                               *)
(***************************************************************************)
CONSTANT Absent  \* no record

NoRecords == [id \in {} |-> Absent]

NoChanges == [added |-> NoRecords, updated |-> NoRecords, removed |-> NoRecords]

Update(old, new) == [from |-> old, to |-> new]

\* The values of f, but those of g where g has one.
Overlay(f, g) ==
    [id \in DOMAIN f \cup DOMAIN g |-> IF id \in DOMAIN g THEN g[id] ELSE f[id]]

Without(f, ids) == [id \in DOMAIN f \ ids |-> f[id]]

\* The ids that a diff says something about.
Touched(diff) ==
    DOMAIN diff.added \cup DOMAIN diff.updated \cup DOMAIN diff.removed

ReverseRecordsDiff(diff) ==
    [added |-> diff.removed,
     updated |-> [id \in DOMAIN diff.updated |->
                    Update(diff.updated[id].to, diff.updated[id].from)],
     removed |-> diff.added]

-----------------------------------------------------------------------------
(***************************************************************************)
(* squashRecordDiffsMutable goes through the additions of the diff, then   *)
(* through its updates, then through its removals.                         *)
(***************************************************************************)
\* A removal followed by an addition is an update, unless nothing changed.
SquashAdded(target, added) ==
    LET revived == DOMAIN added \cap DOMAIN target.removed
        changed == {id \in revived : target.removed[id] # added[id]}
    IN  [added   |-> Overlay(target.added, Without(added, revived)),
         updated |-> Overlay(target.updated,
                             [id \in changed |->
                                Update(target.removed[id], added[id])]),
         removed |-> Without(target.removed, revived)]

\* The updated value of a record that was added is its added value; the update
\* of a record that was updated starts where the first update did.
SquashUpdated(target, updated) ==
    LET fresh == DOMAIN updated \cap DOMAIN target.added
        first(id) == IF id \in DOMAIN target.updated
                       THEN target.updated[id].from ELSE updated[id].from
    IN  [added   |-> Overlay(target.added,
                             [id \in fresh |-> updated[id].to]),
         updated |-> Overlay(Without(target.updated, fresh),
                             [id \in DOMAIN updated \ fresh |->
                                Update(first(id), updated[id].to)]),
         removed |-> Without(target.removed, DOMAIN updated)]

\* A record that was added is dropped; one that was updated is removed with the
\* value it had first.
SquashRemoved(target, removed) ==
    LET fresh == DOMAIN removed \cap DOMAIN target.added
        gone == DOMAIN removed \ fresh
    IN  [added   |-> Without(target.added, fresh),
         updated |-> Without(target.updated, gone),
         removed |-> Overlay(target.removed,
                             [id \in gone |->
                                IF id \in DOMAIN target.updated
                                  THEN target.updated[id].from
                                  ELSE removed[id]])]

Squash(target, diff) ==
    SquashRemoved(
        SquashUpdated(SquashAdded(target, diff.added), diff.updated),
        diff.removed)

-----------------------------------------------------------------------------
\* Store.applyDiff: put what was added or updated, then remove what was removed.
ApplyChanges(store, diff) ==
    [id \in DOMAIN store |->
        IF id \in DOMAIN diff.removed THEN Absent
        ELSE IF id \in DOMAIN diff.updated THEN diff.updated[id].to
        ELSE IF id \in DOMAIN diff.added THEN diff.added[id]
        ELSE store[id]]

\* What a touched record was before the changes.
BeforeChange(diff, id) ==
    CASE id \in DOMAIN diff.added   -> Absent
      [] id \in DOMAIN diff.updated -> diff.updated[id].from
      [] id \in DOMAIN diff.removed -> diff.removed[id]

\* A mutant: the entry of a removal has the record after it.
BetweenForgetful(before, after) ==
    LET changed == {id \in DOMAIN before : before[id] # after[id]}
        kept == {id \in changed : after[id] # Absent}
    IN  [added   |-> [id \in {i \in kept : before[i] = Absent} |-> after[id]],
         updated |-> [id \in {i \in kept : before[i] # Absent} |->
                        Update(before[id], after[id])],
         removed |-> [id \in changed \ kept |-> after[id]]]

\* The history entry of the puts and removals that turn one store into another.
Between(before, after) ==
    LET changed == {id \in DOMAIN before : before[id] # after[id]}
    IN  [added   |-> [id \in {i \in changed : before[i] = Absent} |-> after[id]],
         updated |-> [id \in {i \in changed : /\ before[i] # Absent
                                              /\ after[i] # Absent} |->
                        Update(before[id], after[id])],
         removed |-> [id \in {i \in changed : after[i] = Absent} |-> before[id]]]

\* The diff describes changes that can be made to the store.
Applicable(store, diff) ==
    /\ Touched(diff) \subseteq DOMAIN store
    /\ DOMAIN diff.updated \cap DOMAIN diff.removed = {}
    /\ \A id \in DOMAIN diff.added :
         store[id] = Absent /\ diff.added[id] # Absent
    /\ \A id \in DOMAIN diff.updated :
         /\ store[id] = diff.updated[id].from
         /\ diff.updated[id] = Update(diff.updated[id].from, diff.updated[id].to)
         /\ Absent \notin {diff.updated[id].from, diff.updated[id].to}
    /\ \A id \in DOMAIN diff.removed :
         store[id] = diff.removed[id] /\ store[id] # Absent
=============================================================================
