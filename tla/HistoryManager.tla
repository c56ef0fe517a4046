---------------------------- MODULE HistoryManager ----------------------------
(***************************************************************************)
(* Undo and redo: HistoryManager in                                        *)
(* packages/editor/src/lib/editor/managers/HistoryManager/                 *)
(* HistoryManager.ts, over the store whose changes it records.  The first  *)
(* element of a stack is its head.                                         *)
(***************************************************************************)
EXTENDS Integers, Sequences, SequencesExt, StoreRecords

CONSTANTS
    MarkIds,        \* the marks; markHistoryStoppingPoint makes unique ids
    NoMark,         \* toMark is undefined
    InitialStores,
    MaxChanges,     \* bound: the changes that are made to each record
    MaxDepth        \* bound: the batches that are nested

ASSUME HistoryAssumption ==
    /\ NoMark \notin MarkIds
    /\ InitialStores \subseteq Records
    /\ MaxChanges \in [Ids -> Nat] /\ MaxDepth \in Nat

VARIABLES
    store,    \* the records of store
    pending,  \* pendingDiff
    undos, redos,
    state,    \* "recording", "recordingPreserveRedoStack" or "paused"
    batches,  \* previousState of the calls of batch that have not returned
    changes,  \* how many changes have been made to each record
    seen,     \* ghost: the store when a mark was made, and when history began
    inexact   \* ghost: the records whose changes the stacks do not have, or
              \* that a redo does not change as it should

historyVars == <<store, pending, undos, redos, state, batches, changes, seen,
                inexact>>
stackVars == <<pending, undos, redos>>

Diff(diff) == [type |-> "diff", diff |-> diff]
Stop(id) == [type |-> "stop", id |-> id]

IsStop(entry) == entry.type = "stop"
IsDiff(entry) == entry.type = "diff"

HistoryInit ==
    /\ store \in InitialStores
    /\ pending = NoChanges /\ undos = <<>> /\ redos = <<>>
    /\ state = "recording" /\ batches = <<>>
    /\ changes = [id \in Ids |-> 0]
    /\ seen = [m \in {NoMark} |-> store] /\ inexact = {}

-----------------------------------------------------------------------------
(***************************************************************************)
(* Stacks.                                                                 *)
(***************************************************************************)
\* How many stops are on top of a stack.
LeadingStops(stack) ==
    LET notStop == {i \in 1..Len(stack) : ~IsStop(stack[i])}
    IN  IF notStop = {} THEN Len(stack) ELSE Min(notStop) - 1

\* How many entries are popped when k have been and the next stop ends it.
PoppedToStop(stack, k) ==
    LET stops == {i \in k + 1..Len(stack) : IsStop(stack[i])}
    IN  IF stops = {} THEN Len(stack) ELSE Min(stops)

HasMark(stack, id) == \E i \in 1..Len(stack) : stack[i] = Stop(id)

PoppedToMark(stack, id) == Min({i \in 1..Len(stack) : stack[i] = Stop(id)})

Top(stack, n) == SubSeq(stack, 1, n)
Rest(stack, n) == SubSeq(stack, n + 1, Len(stack))

\* The diffs of a sequence of entries.
AddDiff(diffs, entry) ==
    IF IsDiff(entry) THEN Append(diffs, entry.diff) ELSE diffs

DiffsOf(entries) == FoldLeft(AddDiff, <<>>, entries)

\* A mutant: the parts of the diffs are put side by side.
SquashSideBySide(target, diffs) ==
    LET beside(d, e) == [added |-> Overlay(d.added, e.added),
                         updated |-> Overlay(d.updated, e.updated),
                         removed |-> Overlay(d.removed, e.removed)]
    IN  FoldLeft(beside, target, diffs)

\* squashRecordDiffsMutable(target, diffs).
SquashAll(target, diffs) == FoldLeft(Squash, target, diffs)

Reversed(diffs) == [i \in 1..Len(diffs) |-> ReverseRecordsDiff(diffs[i])]

\* The undo stack after flushPendingDiff.
Flushed == IF Touched(pending) = {} THEN undos ELSE <<Diff(pending)>> \o undos

-----------------------------------------------------------------------------
(***************************************************************************)
(* Changes of the store.                                                   *)
(***************************************************************************)
\* A mutant: redos outlive the changes that they do not fit.
RecordKeepingRedos(diff) ==
    CASE state = "recording" ->
           pending' = Squash(pending, diff) /\ UNCHANGED redos
      [] state = "recordingPreserveRedoStack" ->
           pending' = Squash(pending, diff) /\ UNCHANGED redos
      [] state = "paused" -> UNCHANGED <<pending, redos>>

\* The interceptor of the store's history, for a change of the user.
Record(diff) ==
    CASE state = "recording" ->
           pending' = Squash(pending, diff) /\ redos' = <<>>
      [] state = "recordingPreserveRedoStack" ->
           pending' = Squash(pending, diff) /\ UNCHANGED redos
      [] state = "paused" -> UNCHANGED <<pending, redos>>

Put(id, value) ==
    /\ changes[id] < MaxChanges[id] /\ store[id] # value
    /\ changes' = [changes EXCEPT ![id] = @ + 1]
    /\ store' = [store EXCEPT ![id] = value]

\* The user creates, updates or deletes a record.  Where redos are kept they may
\* not fit it any more.
Change(id, value) ==
    /\ Put(id, value)
    /\ Record(Between(store, store'))
    /\ inexact' = IF \/ state = "paused"
                     \/ state = "recordingPreserveRedoStack" /\ redos # <<>>
                    THEN inexact \cup {id} ELSE inexact
    /\ UNCHANGED <<undos, state, batches, seen>>

\* Somebody else changes a record, which no call of ours is in the midst of.
ChangeByOther(id, value) ==
    /\ batches = <<>>
    /\ Put(id, value)
    /\ inexact' = inexact \cup {id}
    /\ UNCHANGED <<stackVars, state, batches, seen>>

\* batch and its return.  Without opts.history it leaves the state as it is.  No
\* batch starts when the bound leaves it no changes.
BatchStarts(history) ==
    /\ Len(batches) < MaxDepth
    /\ \E id \in Ids : changes[id] < MaxChanges[id]
    /\ batches' = <<state>> \o batches
    /\ state' = IF state = "paused" THEN state ELSE history
    /\ UNCHANGED <<store, stackVars, changes, seen, inexact>>

BatchEnds ==
    /\ batches # <<>>
    /\ state' = Head(batches) /\ batches' = Tail(batches)
    /\ UNCHANGED <<store, stackVars, changes, seen, inexact>>

-----------------------------------------------------------------------------
(***************************************************************************)
(* The operations.                                                         *)
(***************************************************************************)
\* _mark.
Mark(id) ==
    /\ id \notin DOMAIN seen
    /\ undos' = <<Stop(id)>> \o Flushed /\ pending' = NoChanges
    /\ seen' = Overlay(seen, [m \in {id} |-> store])
    /\ UNCHANGED <<store, redos, state, batches, changes, inexact>>

\* How many entries _undo pops: when nothing is pending the marks on top count
\* as none.
Popped(toMark) ==
    IF toMark # NoMark THEN PoppedToMark(undos, toMark)
    ELSE PoppedToStop(undos, IF Touched(pending) = {} THEN LeadingStops(undos)
                             ELSE 0)

\* A mutant: the entries are undone from the oldest to the newest.
DiffToUndoOldestFirst(n) ==
    SquashAll(ReverseRecordsDiff(pending),
              Reverse(Reversed(DiffsOf(Top(undos, n)))))

DiffToUndo(n) ==
    SquashAll(ReverseRecordsDiff(pending), Reversed(DiffsOf(Top(undos, n))))

\* What was pending, as it is on the redos in the end: its added and removed are
\* those of the diff to undo, removed and added, which squashing writes into.
PendingOnRedos(n) ==
    [added |-> DiffToUndo(n).removed, updated |-> pending.updated,
     removed |-> DiffToUndo(n).added]

\* A mutant: what was pending cannot be redone.
RedosAfterUndoUnlessPending(n) == Reverse(Top(undos, n)) \o redos

RedosAfterUndo(n) ==
    Reverse(Top(undos, n))
      \o (IF Touched(pending) = {} THEN <<>> ELSE <<Diff(PendingOnRedos(n))>>)
      \o redos

SameAt(id, f, g) ==
    id \in DOMAIN f \cup DOMAIN g =>
        id \in DOMAIN f \cap DOMAIN g /\ f[id] = g[id]

\* The records whose changes are not on the redos as they were pending.
Overwritten(n) ==
    IF Touched(pending) = {} THEN {}
    ELSE {id \in Ids : \/ ~SameAt(id, PendingOnRedos(n).added, pending.added)
                       \/ ~SameAt(id, PendingOnRedos(n).removed, pending.removed)}

\* _undo where it finds the mark or is not given one.
UndoTo(toMark) ==
    LET n == Popped(toMark)
    IN  /\ store' = ApplyChanges(store, DiffToUndo(n))
        /\ undos' = Rest(undos, n) /\ pending' = NoChanges
        /\ UNCHANGED <<state, batches, changes, seen>>

Undo ==
    /\ UndoTo(NoMark)
    /\ redos' = RedosAfterUndo(Popped(NoMark))
    /\ inexact' = inexact \cup Overwritten(Popped(NoMark))

\* bail and bailToMark leave the redos alone, be there any.
BailTo(toMark) ==
    /\ UndoTo(toMark)
    /\ UNCHANGED redos
    /\ inexact' = IF redos = <<>> THEN inexact
                  ELSE inexact \cup Touched(DiffToUndo(Popped(toMark)))

Bail == BailTo(NoMark)

BailToMark(id) == HasMark(undos, id) /\ BailTo(id)

\* "whoops, we didn't find the mark we were looking for": but what was pending
\* has been taken.
BailToUnknownMark(id) ==
    /\ ~HasMark(undos, id)
    /\ pending' = NoChanges
    /\ inexact' = inexact \cup Touched(pending)
    /\ UNCHANGED <<store, undos, redos, state, batches, changes, seen>>

\* How many entries redo pops.
RedoPopped(stack) == PoppedToStop(stack, LeadingStops(stack))

DiffToRedo(stack) == SquashAll(NoChanges, DiffsOf(Top(stack, RedoPopped(stack))))

\* redo.
Redo ==
    LET n == RedoPopped(redos)
    IN  /\ store' = ApplyChanges(store, DiffToRedo(redos))
        /\ undos' = Reverse(Top(redos, n)) \o Flushed /\ redos' = Rest(redos, n)
        /\ pending' = NoChanges
        /\ UNCHANGED <<state, batches, changes, seen, inexact>>

\* The one diff of those above the mark.
Squashed(n) == SquashAll(NoChanges, Reverse(DiffsOf(Top(undos, n))))

\* squashToMark: what is pending stays so.
SquashToMark(id) ==
    /\ HasMark(undos, id)
    /\ LET above == PoppedToMark(undos, id) - 1
       IN  /\ DiffsOf(Top(undos, above)) # <<>>
           /\ undos' = <<Diff(Squashed(above))>> \o Rest(undos, above)
    /\ UNCHANGED <<store, pending, redos, state, batches, changes, seen,
                   inexact>>

Clear ==
    /\ undos' = <<>> /\ redos' = <<>> /\ pending' = NoChanges
    /\ seen' = [seen EXCEPT ![NoMark] = store]
    /\ UNCHANGED <<store, state, batches, changes, inexact>>

HistoryNext ==
    \/ \E id \in Ids, value \in Vals \cup {Absent} :
         Change(id, value) \/ ChangeByOther(id, value)
    \/ \E history \in {"recording", "recordingPreserveRedoStack", "paused"} :
         BatchStarts(history)
    \/ BatchEnds
    \/ \E id \in MarkIds :
         Mark(id) \/ BailToMark(id) \/ BailToUnknownMark(id) \/ SquashToMark(id)
    \/ Undo \/ Bail \/ Redo \/ Clear

HistorySpec == HistoryInit /\ [][HistoryNext]_historyVars

-----------------------------------------------------------------------------
IsEntry(entry) ==
    \/ IsStop(entry) /\ entry.id \in MarkIds
    \/ IsDiff(entry) /\ Touched(entry.diff) \subseteq Ids

\* Types; and a diff adds, updates or removes a record, but one of them, unless
\* somebody else brought it back or took it away, or an undo has written into
\* the diff when it was on the redos.
HistoryTypeOK ==
    /\ store \in Records
    /\ \A stack \in {undos, redos} : \A i \in 1..Len(stack) : IsEntry(stack[i])
    /\ \A diff \in {pending} \cup Range(DiffsOf(undos \o redos)) :
         /\ DOMAIN diff.added \cap DOMAIN diff.updated \subseteq inexact
         /\ DOMAIN diff.added \cap DOMAIN diff.removed \subseteq inexact
         /\ DOMAIN diff.updated \cap DOMAIN diff.removed \subseteq inexact
    /\ \A i \in 1..Len(batches) :
         batches[i] = "paused" => state = "paused"

SameButInexact(s, t) == \A id \in Ids \ inexact : s[id] = t[id]

\* The store when everything pending and the first n entries have been undone.
Rewound(n) ==
    FoldLeft(ApplyChanges, store,
             Reversed(<<pending>> \o DiffsOf(Top(undos, n))))

\* Undoing as far as a mark, or as far as history goes, gives the records as
\* they were then, whatever was undone, redone, squashed or bailed in between.
\* This leaves out, one by one, the records that others changed, that changed
\* unrecorded or next to redos, that a bail changed next to redos or had pending
\* when it did not find its mark, and those of which an undo has overwritten
\* what it put on the redos.
UndoReachesMark ==
    /\ SameButInexact(Rewound(Len(undos)), seen[NoMark])
    /\ \A n \in 1..Len(undos) :
         IsStop(undos[n]) => SameButInexact(Rewound(n), seen[undos[n].id])

Replayed(n) == FoldLeft(ApplyChanges, store, DiffsOf(Top(redos, n)))

\* Redoing as far as a mark gives the records as they were then, but for the
\* same ones.
RedoReachesMark ==
    \A n \in 1..Len(redos) :
      IsStop(redos[n]) => SameButInexact(Replayed(n), seen[redos[n].id])

\* The records as they were before anything was pending.
BeforePending == ApplyChanges(store, ReverseRecordsDiff(pending))

\* The records whose creation or removal by entries that are undone with it, what
\* is pending takes back: it is written out of what redo will do.
TakenBack(undone) ==
    {id \in Ids : /\ (store[id] = Absent) = (undone[id] = Absent)
                  /\ (store[id] = Absent) # (BeforePending[id] = Absent)}

\* A redo takes an undo back, and no more: unless there was nothing to undo but
\* marks, or an undo that found no mark has left its diff on top of the redos.
\* It leaves out the records that UndoReachesMark does and those of TakenBack,
\* the only ones that fail because of what this undo overwrites.
UndoThenRedo ==
    [][/\ Undo
       /\ DiffsOf(Top(redos', Len(redos') - Len(redos))) # <<>>
       /\ redos = <<>> \/ IsStop(Head(redos))
       => \A id \in Ids \ (inexact \cup TakenBack(store')) :
            ApplyChanges(store', DiffToRedo(redos'))[id] = store[id]]_historyVars
=============================================================================
