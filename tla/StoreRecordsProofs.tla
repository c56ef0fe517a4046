-------------------------- MODULE StoreRecordsProofs --------------------------
(***************************************************************************)
(* Theorems about what works on the records of a store: undo and redo, and *)
(* the tabs of one browser.                                                *)
(*                                                                         *)
(* Undo and redo: whatever was done in between, undoing as far as a mark   *)
(* gives the records as they were at the mark, and so does redoing.  Tabs: *)
(* what a lone tab shows is written, queued or about to be told, and tabs  *)
(* that have sent and received everything agree.                           *)
(***************************************************************************)
EXTENDS HistoryManager, TLLocalSyncClient, RecordsDiffProofs, TLAPS

\* What is folded: diffs onto a store, diffs into one, entries into diffs, what
\* transactions write, and what listeners hear.
Applying == INSTANCE LeftFold WITH Op <- ApplyChanges
Squashing == INSTANCE LeftFold WITH Op <- Squash
Adding == INSTANCE LeftFold WITH Op <- AddDiff
Writing == INSTANCE LeftFold WITH Op <- Write
Hearing == INSTANCE LeftFold WITH Op <- Hear

-----------------------------------------------------------------------------
(***************************************************************************)
(* UNDO AND REDO.                                                          *)
(***************************************************************************)
-----------------------------------------------------------------------------
(***************************************************************************)
(* Types.                                                                  *)
(***************************************************************************)
StoreDiff == DiffsOver(Ids, Vals)

Entry == [type : {"stop"}, id : MarkIds] \cup [type : {"diff"}, diff : StoreDiff]

States == {"recording", "recordingPreserveRedoStack", "paused"}

\* The entries whose stops are some of the marks.
EntryWith(marks) == {entry \in Entry : IsStop(entry) => entry.id \in marks}

\* The records and the stacks; the stops of both are marks that were made.
StacksTyped ==
    /\ store \in Records /\ pending \in StoreDiff
    /\ undos \in Seq(EntryWith(DOMAIN seen))
    /\ redos \in Seq(EntryWith(DOMAIN seen))
    /\ seen = [m \in DOMAIN seen |-> seen[m]] /\ NoMark \in DOMAIN seen

\* Whatever was paused when a batch began is paused for all that began later.
BatchesNest ==
    /\ state \in States /\ batches \in Seq(States)
    /\ \A i \in 1..Len(batches) : batches[i] = "paused" =>
         state = "paused" /\ \A j \in 1..i : batches[j] = "paused"

-----------------------------------------------------------------------------
(***************************************************************************)
(* The diff takes the record id from value x to value y: it does not touch *)
(* it, or it adds, updates or removes it, and no two of these.             *)
(***************************************************************************)
Adds(id, x, d, y) ==
    /\ id \in DOMAIN d.added /\ id \notin DOMAIN d.updated
    /\ id \notin DOMAIN d.removed
    /\ x = Absent /\ y = d.added[id] /\ y # Absent

Updates(id, x, d, y) ==
    /\ id \in DOMAIN d.updated /\ id \notin DOMAIN d.added
    /\ id \notin DOMAIN d.removed
    /\ x = d.updated[id].from /\ y = d.updated[id].to
    /\ x # Absent /\ y # Absent

Removes(id, x, d, y) ==
    /\ id \in DOMAIN d.removed /\ id \notin DOMAIN d.added
    /\ id \notin DOMAIN d.updated
    /\ x = d.removed[id] /\ x # Absent /\ y = Absent

Leads(id, x, d, y) ==
    \/ id \notin Touched(d) /\ x = y
    \/ Adds(id, x, d, y) \/ Updates(id, x, d, y) \/ Removes(id, x, d, y)

\* The entries of a stack go with the values that p has, from its head on: a
\* stop is where the record is as it was then, and a diff leads on, or back.
Goes(forth, id, x, d, y) ==
    IF forth THEN Leads(id, x, d, y) ELSE Leads(id, y, d, x)

Passes(forth, id, x, entry, y, saw) ==
    IF IsStop(entry) THEN x = y /\ y = saw[entry.id][id]
    ELSE Goes(forth, id, x, entry.diff, y)

Chained(forth, id, stack, saw, p) ==
    \A n \in 1..Len(stack) : Passes(forth, id, p[n - 1], stack[n], p[n], saw)

\* A stack goes from the value x at its head to y.
Reaches(forth, id, stack, saw, x, y) ==
    \E p : /\ p[0] = x /\ p[Len(stack)] = y
           /\ Chained(forth, id, stack, saw, p)

\* From the value that a record has now, undoing leads to what it was at each
\* mark, and in the end to what it was when history began.
Undoable(id, value, pend, stack, saw) ==
    \E x : /\ Leads(id, x, pend, value)
           /\ Reaches(FALSE, id, stack, saw, x, saw[NoMark][id])

\* Redoing leads on.
Redoable(id, value, stack, saw) ==
    \E y : Reaches(TRUE, id, stack, saw, value, y)

UndoChain(id) == Undoable(id, store[id], pending, undos, seen)
RedoChain(id) == Redoable(id, store[id], redos, seen)

Chains == \A id \in Ids \ inexact : UndoChain(id) /\ RedoChain(id)

HistoryInv == StacksTyped /\ BatchesNest /\ Chains

-----------------------------------------------------------------------------
(***************************************************************************)
(* Diffs, seen from one record.                                            *)
(***************************************************************************)
\* A diff of these records, at one of them.
LEMMA DiffAt ==
    ASSUME NEW d \in StoreDiff
    PROVE  /\ Touched(d) \subseteq Ids
           /\ \A id \in DOMAIN d.added : d.added[id] \in Vals
           /\ \A id \in DOMAIN d.removed : d.removed[id] \in Vals
           /\ \A id \in DOMAIN d.updated : d.updated[id] \in [from : Vals, to : Vals]
<1> DEFINE T == [from : Vals, to : Vals]
<1>1. /\ d.added \in PartOf(Ids, Vals) /\ d.removed \in PartOf(Ids, Vals)
      /\ d.updated \in PartOf(Ids, T)
  BY DEF StoreDiff, DiffsOver
<1> HIDE DEF T
<1>2. /\ DOMAIN d.added \subseteq Ids
      /\ \A id \in DOMAIN d.added : d.added[id] \in Vals
  BY <1>1, PartHas
<1>3. /\ DOMAIN d.removed \subseteq Ids
      /\ \A id \in DOMAIN d.removed : d.removed[id] \in Vals
  BY <1>1, PartHas
<1>4. /\ DOMAIN d.updated \subseteq Ids
      /\ \A id \in DOMAIN d.updated : d.updated[id] \in T
  BY <1>1, PartHas
<1> QED BY <1>2, <1>3, <1>4 DEF Touched, T

\* The additions of a squash, at one record.
LEMMA AddedLeads ==
    ASSUME NEW id, NEW x, NEW y, NEW z, NEW d, NEW e,
           Leads(id, x, d, y), Adds(id, y, e, z)
    PROVE  Leads(id, x, SquashAdded(d, e.added), z)
BY DEF Leads, Adds, Updates, Removes, Touched, SquashAdded, Overlay, Without,
       Update

\* The additions of a diff that adds others.
LEMMA NotAddedLeads ==
    ASSUME NEW id, NEW x, NEW y, NEW d, NEW e,
           Leads(id, x, d, y), id \notin DOMAIN e.added
    PROVE  Leads(id, x, SquashAdded(d, e.added), y)
BY DEF Leads, Adds, Updates, Removes, Touched, SquashAdded, Overlay, Without,
       Update

\* The updates of a squash, at one record.
LEMMA UpdatedLeads ==
    ASSUME NEW id, NEW x, NEW y, NEW z, NEW d, NEW e,
           Leads(id, x, d, y), Updates(id, y, e, z)
    PROVE  Leads(id, x, SquashUpdated(d, e.updated), z)
<1>1. CASE id \notin Touched(d) /\ x = y
  BY <1>1 DEF Leads, Adds, Updates, Removes, Touched, SquashUpdated, Overlay,
              Without, Update
<1>2. CASE Adds(id, x, d, y)
  BY <1>2 DEF Leads, Adds, Updates, Removes, Touched, SquashUpdated, Overlay,
              Without, Update
<1>3. CASE Updates(id, x, d, y)
  BY <1>3 DEF Leads, Adds, Updates, Removes, Touched, SquashUpdated, Overlay,
              Without, Update
<1>4. CASE Removes(id, x, d, y)
  BY <1>4 DEF Updates, Removes
<1> QED BY <1>1, <1>2, <1>3, <1>4 DEF Leads

\* The updates of a diff that updates others.
LEMMA NotUpdatedLeads ==
    ASSUME NEW id, NEW x, NEW y, NEW d, NEW e,
           Leads(id, x, d, y), id \notin DOMAIN e.updated
    PROVE  Leads(id, x, SquashUpdated(d, e.updated), y)
BY DEF Leads, Adds, Updates, Removes, Touched, SquashUpdated, Overlay, Without,
       Update

\* The removals of a squash, at one record.
LEMMA RemovedLeads ==
    ASSUME NEW id, NEW x, NEW y, NEW z, NEW d, NEW e,
           Leads(id, x, d, y), Removes(id, y, e, z)
    PROVE  Leads(id, x, SquashRemoved(d, e.removed), z)
BY DEF Leads, Adds, Updates, Removes, Touched, SquashRemoved, Overlay, Without,
       Update

\* The removals of a diff that removes others.
LEMMA NotRemovedLeads ==
    ASSUME NEW id, NEW x, NEW y, NEW d, NEW e,
           Leads(id, x, d, y), id \notin DOMAIN e.removed
    PROVE  Leads(id, x, SquashRemoved(d, e.removed), y)
BY DEF Leads, Adds, Updates, Removes, Touched, SquashRemoved, Overlay, Without,
       Update

\* Two diffs that lead on from one another are squashed into one that leads all
\* the way.
LEMMA SquashLeads ==
    ASSUME NEW id, NEW x, NEW y, NEW z, NEW d, NEW e,
           Leads(id, x, d, y), Leads(id, y, e, z)
    PROVE  Leads(id, x, Squash(d, e), z)
<1> DEFINE d1 == SquashAdded(d, e.added)
           d2 == SquashUpdated(d1, e.updated)
<1>1. Squash(d, e) = SquashRemoved(d2, e.removed)
  BY DEF Squash
<1> HIDE DEF d2
<1>2. CASE id \notin Touched(e) /\ y = z
  <2>1. Leads(id, x, d1, y)
    BY <1>2, NotAddedLeads DEF Touched
  <2> HIDE DEF d1
  <2>2. Leads(id, x, d2, y)
    BY <1>2, <2>1, NotUpdatedLeads DEF Touched, d2
  <2> QED BY <1>1, <1>2, <2>2, NotRemovedLeads DEF Touched
<1>3. CASE Adds(id, y, e, z)
  <2>1. Leads(id, x, d1, z)
    BY <1>3, AddedLeads
  <2>0. id \notin DOMAIN e.updated /\ id \notin DOMAIN e.removed
    BY <1>3 DEF Adds
  <2> HIDE DEF d1
  <2>2. Leads(id, x, d2, z)
    BY <2>0, <2>1, NotUpdatedLeads DEF d2
  <2> QED BY <1>1, <2>0, <2>2, NotRemovedLeads
<1>4. CASE Updates(id, y, e, z)
  <2>0. id \notin DOMAIN e.added /\ id \notin DOMAIN e.removed
    BY <1>4 DEF Updates
  <2>1. Leads(id, x, d1, y)
    BY <2>0, NotAddedLeads
  <2> HIDE DEF d1
  <2>2. Leads(id, x, d2, z)
    BY <1>4, <2>1, UpdatedLeads DEF d2
  <2> QED BY <1>1, <2>0, <2>2, NotRemovedLeads
<1>5. CASE Removes(id, y, e, z)
  <2>0. id \notin DOMAIN e.added /\ id \notin DOMAIN e.updated
    BY <1>5 DEF Removes
  <2>1. Leads(id, x, d1, y)
    BY <2>0, NotAddedLeads
  <2> HIDE DEF d1
  <2>2. Leads(id, x, d2, y)
    BY <2>0, <2>1, NotUpdatedLeads DEF d2
  <2> QED BY <1>1, <1>5, <2>2, RemovedLeads
<1> QED BY <1>2, <1>3, <1>4, <1>5 DEF Leads

\* A diff turned round leads back.
LEMMA ReverseLeads ==
    ASSUME NEW id, NEW x, NEW y, NEW d, Leads(id, x, d, y)
    PROVE  Leads(id, y, ReverseRecordsDiff(d), x)
BY DEF Leads, Adds, Updates, Removes, Touched, ReverseRecordsDiff, Update

\* Applied to a store, a diff leads to where it leads.
LEMMA ApplyLeads ==
    ASSUME NEW s, NEW id \in DOMAIN s, NEW y, NEW d, Leads(id, s[id], d, y)
    PROVE  ApplyChanges(s, d)[id] = y
BY DEF Leads, Adds, Updates, Removes, Touched, ApplyChanges

\* What two stores differ in leads from one to the other.
LEMMA BetweenAtLeads ==
    ASSUME NEW s, NEW t, DOMAIN t = DOMAIN s, NEW id \in DOMAIN s
    PROVE  Leads(id, s[id], Between(s, t), t[id])
BY DEF Leads, Adds, Updates, Removes, Touched, Between, Update

\* No changes lead nowhere.
LEMMA NoChangesLead ==
    ASSUME NEW id, NEW x, NEW y
    PROVE  Leads(id, x, NoChanges, y) <=> x = y
BY DEF Leads, Adds, Updates, Removes, Touched, NoChanges, NoRecords

\* A diff that touches nothing, likewise.
LEMMA UntouchedLeads ==
    ASSUME NEW id, NEW x, NEW y, NEW d, id \notin Touched(d)
    PROVE  Leads(id, x, d, y) <=> x = y
BY DEF Leads, Adds, Updates, Removes, Touched

-----------------------------------------------------------------------------
(***************************************************************************)
(* Stacks and their diffs.                                                 *)
(***************************************************************************)
\* The top of a stack.
LEMMA TopIs ==
    ASSUME NEW T, NEW stack \in Seq(T), NEW n \in 0..Len(stack)
    PROVE  /\ Top(stack, n) \in Seq(T) /\ Len(Top(stack, n)) = n
           /\ \A k \in 1..n : Top(stack, n)[k] = stack[k]
BY DEF Top

\* It grows by an entry at its end; in the end it is the stack.
LEMMA TopNext ==
    ASSUME NEW T, NEW stack \in Seq(T)
    PROVE  /\ Top(stack, 0) = <<>> /\ Top(stack, Len(stack)) = stack
           /\ \A n \in 0..Len(stack) - 1 :
                Top(stack, n + 1) = Append(Top(stack, n), stack[n + 1])
BY DEF Top

\* The rest of a stack.
LEMMA RestIs ==
    ASSUME NEW T, NEW stack \in Seq(T), NEW n \in 0..Len(stack)
    PROVE  /\ Rest(stack, n) \in Seq(T) /\ Len(Rest(stack, n)) = Len(stack) - n
           /\ \A k \in 1..Len(stack) - n : Rest(stack, n)[k] = stack[n + k]
BY DEF Rest

\* The top of a stack turned round grows at its head.
LEMMA ReverseNext ==
    ASSUME NEW T, NEW stack \in Seq(T)
    PROVE  /\ Reverse(Top(stack, 0)) = <<>>
           /\ \A n \in 0..Len(stack) : /\ Reverse(Top(stack, n)) \in Seq(T)
                                       /\ Len(Reverse(Top(stack, n))) = n
           /\ \A n \in 0..Len(stack) - 1 :
                Reverse(Top(stack, n + 1))
                  = <<stack[n + 1]>> \o Reverse(Top(stack, n))
<1>1. Reverse(Top(stack, 0)) = <<>>
  BY TopNext DEF Reverse
<1>2. ASSUME NEW n \in 0..Len(stack)
      PROVE  /\ Reverse(Top(stack, n)) \in Seq(T)
             /\ Len(Reverse(Top(stack, n))) = n
             /\ \A k \in 1..n : Reverse(Top(stack, n))[k] = stack[n - k + 1]
  <2> DEFINE top == Top(stack, n)
  <2>1. /\ top \in Seq(T) /\ Len(top) = n
        /\ \A k \in 1..n : top[k] = stack[k]
    BY TopIs
  <2> HIDE DEF top
  <2>2. Reverse(top) = [k \in 1..n |-> top[n - k + 1]]
    BY <2>1 DEF Reverse
  <2>3. \A k \in 1..n : n - k + 1 \in 1..n /\ top[n - k + 1] \in T
    BY <2>1
  <2> QED BY <2>1, <2>2, <2>3 DEF top
<1>3. ASSUME NEW n \in 0..Len(stack) - 1
      PROVE  Reverse(Top(stack, n + 1))
               = <<stack[n + 1]>> \o Reverse(Top(stack, n))
  <2> DEFINE more == Reverse(Top(stack, n + 1))
             less == Reverse(Top(stack, n))
  <2>1. /\ more \in Seq(T) /\ Len(more) = n + 1
        /\ \A k \in 1..n + 1 : more[k] = stack[n + 1 - k + 1]
        /\ less \in Seq(T) /\ Len(less) = n
        /\ \A k \in 1..n : less[k] = stack[n - k + 1]
    <3> DEFINE m == n + 1
    <3>1. m \in 0..Len(stack) /\ n \in 0..Len(stack)
      OBVIOUS
    <3>2. /\ less \in Seq(T) /\ Len(less) = n
          /\ \A k \in 1..n : less[k] = stack[n - k + 1]
      BY <1>2, <3>1
    <3> HIDE DEF m
    <3>3. /\ Reverse(Top(stack, m)) \in Seq(T) /\ Len(Reverse(Top(stack, m))) = m
          /\ \A k \in 1..m : Reverse(Top(stack, m))[k] = stack[m - k + 1]
      BY <1>2, <3>1
    <3> QED BY <3>2, <3>3 DEF m
  <2>2. stack[n + 1] \in T
    OBVIOUS
  <2> HIDE DEF more, less
  <2>3. \A k \in 1..n + 1 : more[k] = (<<stack[n + 1]>> \o less)[k]
    <3> SUFFICES ASSUME NEW k \in 1..n + 1
                 PROVE  more[k] = (<<stack[n + 1]>> \o less)[k]
      OBVIOUS
    <3>1. CASE k = 1
      BY <2>1, <3>1
    <3>2. CASE k # 1
      <4>1. k - 1 \in 1..n /\ n + 1 - k + 1 = n - (k - 1) + 1
        BY <3>2
      <4>2. less[k - 1] = more[k]
        BY <2>1, <4>1
      <4> QED BY <2>1, <4>1, <4>2
    <3> QED BY <3>1, <3>2
  <2>4. more = <<stack[n + 1]>> \o less
    BY <2>1, <2>2, <2>3
  <2> QED BY <2>4 DEF more, less
<1> QED BY <1>1, <1>2, <1>3

\* The diffs of a stack are a fold.
LEMMA DiffsOfIs ==
    ASSUME NEW e
    PROVE  DiffsOf(e) = Adding!Fold(<<>>, e)
BY DEF DiffsOf, FoldLeft, MapThenFoldSet, Max, Adding!Fold,
       Adding!MapThenFoldSet, Adding!Greatest

\* What an entry adds to them.
LEMMA AddDiffType ==
    ASSUME NEW diffs \in Seq(StoreDiff), NEW entry \in Entry
    PROVE  AddDiff(diffs, entry) \in Seq(StoreDiff)
BY DEF AddDiff, IsDiff, Entry

\* The diffs of a stack, from its head on.
LEMMA DiffsOfNext ==
    ASSUME NEW stack \in Seq(Entry)
    PROVE  /\ DiffsOf(Top(stack, 0)) = <<>>
           /\ \A n \in 0..Len(stack) :
                DiffsOf(Top(stack, n)) \in Seq(StoreDiff)
           /\ \A n \in 0..Len(stack) - 1 :
                DiffsOf(Top(stack, n + 1))
                  = AddDiff(DiffsOf(Top(stack, n)), stack[n + 1])
<1>1. DiffsOf(Top(stack, 0)) = <<>>
  BY TopNext, DiffsOfIs, Adding!FoldEmpty
<1>2. ASSUME NEW n \in 0..Len(stack)
      PROVE  DiffsOf(Top(stack, n)) \in Seq(StoreDiff)
  <2>1. Top(stack, n) \in Seq(Entry)
    BY TopIs
  <2>2. <<>> \in Seq(StoreDiff)
    OBVIOUS
  <2>3. Adding!Fold(<<>>, Top(stack, n)) \in Seq(StoreDiff)
    BY <2>1, <2>2, AddDiffType, Adding!FoldKeeps
  <2> QED BY <2>3, DiffsOfIs
<1>3. ASSUME NEW n \in 0..Len(stack) - 1
      PROVE  DiffsOf(Top(stack, n + 1))
               = AddDiff(DiffsOf(Top(stack, n)), stack[n + 1])
  <2> DEFINE top == Top(stack, n)
  <2>1. top \in Seq(Entry) /\ stack[n + 1] \in Entry
        /\ Top(stack, n + 1) = Append(top, stack[n + 1])
    BY TopIs, TopNext
  <2> HIDE DEF top
  <2>2. Adding!Fold(<<>>, Append(top, stack[n + 1]))
          = AddDiff(Adding!Fold(<<>>, top), stack[n + 1])
    BY <2>1, Adding!FoldAppend
  <2> QED BY <2>1, <2>2, DiffsOfIs DEF top
<1> QED BY <1>1, <1>2, <1>3

\* Every diff of a stack is that of an entry.
LEMMA DiffsOfFrom ==
    ASSUME NEW stack \in Seq(Entry), NEW i \in 1..Len(DiffsOf(stack))
    PROVE  \E n \in 1..Len(stack) :
             IsDiff(stack[n]) /\ DiffsOf(stack)[i] = stack[n].diff
<1> DEFINE ds(n) == DiffsOf(Top(stack, n))
           From(n) == \A k \in 1..Len(ds(n)) : \E m \in 1..Len(stack) :
                        IsDiff(stack[m]) /\ ds(n)[k] = stack[m].diff
           S == {n \in Nat : n <= Len(stack) => From(n)}
<1>1. /\ ds(0) = <<>>
      /\ \A n \in 0..Len(stack) : ds(n) \in Seq(StoreDiff)
      /\ \A n \in 0..Len(stack) - 1 : ds(n + 1) = AddDiff(ds(n), stack[n + 1])
      /\ ds(Len(stack)) = DiffsOf(stack)
  BY DiffsOfNext, TopNext
<1> HIDE DEF ds
<1>2. 0 \in S
  <2>1. 1..Len(ds(0)) = {}
    BY <1>1
  <2> QED BY <2>1
<1>3. ASSUME NEW n \in Nat, n \in S, n + 1 <= Len(stack)
      PROVE  From(n + 1)
  <2>0. Len(stack) \in Nat
    OBVIOUS
  <2>1. /\ n \in 0..Len(stack) - 1 /\ n + 1 \in 1..Len(stack) /\ From(n)
        /\ n \in 0..Len(stack)
    <3>1. n <= Len(stack)
      BY <1>3, <2>0
    <3>2. From(n)
      BY <1>3, <3>1
    <3> HIDE DEF From
    <3> QED BY <1>3, <2>0, <3>2
  <2>2. ds(n) \in Seq(StoreDiff)
        /\ ds(n + 1) = AddDiff(ds(n), stack[n + 1])
    BY <1>1, <2>1
  <2>3. CASE ~IsDiff(stack[n + 1])
    BY <2>1, <2>2, <2>3 DEF AddDiff
  <2>4. CASE IsDiff(stack[n + 1])
    <3>1. ds(n + 1) = Append(ds(n), stack[n + 1].diff)
      BY <2>2, <2>4 DEF AddDiff
    <3>2. ASSUME NEW k \in 1..Len(ds(n + 1))
          PROVE  \E m \in 1..Len(stack) :
                   IsDiff(stack[m]) /\ ds(n + 1)[k] = stack[m].diff
      <4>1. CASE k \in 1..Len(ds(n))
        <5>1. ds(n + 1)[k] = ds(n)[k]
          BY <2>2, <3>1, <4>1
        <5> QED BY <2>1, <4>1, <5>1
      <4>2. CASE k \notin 1..Len(ds(n))
        <5>1. k = Len(ds(n)) + 1 /\ ds(n + 1)[k] = stack[n + 1].diff
          BY <2>2, <3>1, <4>2
        <5> QED BY <2>1, <2>4, <5>1
      <4> QED BY <4>1, <4>2
    <3> QED BY <3>2
  <2> QED BY <2>3, <2>4
<1> HIDE DEF From
<1>4. Nat \subseteq S
  <2>1. \A n \in Nat : n \in S => n + 1 \in S
    BY <1>3
  <2> HIDE DEF S
  <2> QED BY <1>2, <2>1, Adding!SetInduction
<1>5. Len(stack) \in S
  BY <1>4
<1>6. From(Len(stack))
  BY <1>5
<1> QED BY <1>1, <1>6 DEF From

-----------------------------------------------------------------------------
(***************************************************************************)
(* A record goes with a sequence of diffs.                                 *)
(***************************************************************************)
Walks(forth, id, v, ds) ==
    \A k \in 1..Len(ds) : Goes(forth, id, v[k - 1], ds[k], v[k])

\* With a stack it goes with its diffs.
LEMMA DiffsWalk ==
    ASSUME NEW stack \in Seq(Entry), NEW forth, NEW id, NEW saw, NEW p,
           Chained(forth, id, stack, saw, p)
    PROVE  \A n \in 0..Len(stack) : \E v :
             /\ v[0] = p[0] /\ v[Len(DiffsOf(Top(stack, n)))] = p[n]
             /\ Walks(forth, id, v, DiffsOf(Top(stack, n)))
<1> DEFINE ds(n) == DiffsOf(Top(stack, n))
           To(n) == \E v : /\ v[0] = p[0] /\ v[Len(ds(n))] = p[n]
                           /\ Walks(forth, id, v, ds(n))
           S == {n \in Nat : n <= Len(stack) => To(n)}
<1>1. /\ ds(0) = <<>>
      /\ \A n \in 0..Len(stack) : ds(n) \in Seq(StoreDiff)
      /\ \A n \in 0..Len(stack) - 1 : ds(n + 1) = AddDiff(ds(n), stack[n + 1])
  BY DiffsOfNext
<1> HIDE DEF ds
<1>2. 0 \in S
  <2>1. Len(ds(0)) = 0
    BY <1>1
  <2>2. p[0] = p[0] /\ Walks(forth, id, p, ds(0))
    BY <2>1 DEF Walks
  <2> QED BY <2>1, <2>2
<1>3. ASSUME NEW n \in Nat, n \in S, n + 1 <= Len(stack)
      PROVE  To(n + 1)
  <2>1. /\ n \in 0..Len(stack) - 1 /\ n + 1 \in 1..Len(stack) /\ To(n)
        /\ n \in 0..Len(stack) /\ n + 1 - 1 = n
    BY <1>3
  <2>2. /\ ds(n) \in Seq(StoreDiff)
        /\ ds(n + 1) = AddDiff(ds(n), stack[n + 1])
        /\ stack[n + 1] \in Entry
        /\ Passes(forth, id, p[n], stack[n + 1], p[n + 1], saw)
    BY <1>1, <2>1 DEF Chained
  <2>3. PICK v : /\ v[0] = p[0] /\ v[Len(ds(n))] = p[n]
                 /\ Walks(forth, id, v, ds(n))
    BY <2>1
  <2>4. CASE IsStop(stack[n + 1])
    <3>1. ds(n + 1) = ds(n) /\ p[n + 1] = p[n]
      BY <2>2, <2>4 DEF AddDiff, IsDiff, IsStop, Passes
    <3> QED BY <2>3, <3>1
  <2>5. CASE ~IsStop(stack[n + 1])
    <3> DEFINE d == stack[n + 1].diff
               m == Len(ds(n))
               w == [k \in 0..m + 1 |-> IF k = m + 1 THEN p[n + 1] ELSE v[k]]
    <3>1. /\ ds(n + 1) = Append(ds(n), d) /\ m \in Nat /\ d \in StoreDiff
          /\ Goes(forth, id, p[n], d, p[n + 1])
      <4>1. stack[n + 1].type = "diff" /\ d \in StoreDiff
        BY <2>2, <2>5 DEF IsStop, Entry
      <4>2. ds(n + 1) = Append(ds(n), d)
        BY <2>2, <4>1 DEF AddDiff, IsDiff
      <4>3. Goes(forth, id, p[n], d, p[n + 1])
        BY <2>2, <2>5 DEF Passes
      <4> QED BY <2>2, <4>1, <4>2, <4>3
    <3>2. /\ Len(ds(n + 1)) = m + 1 /\ ds(n + 1)[m + 1] = d
          /\ \A k \in 1..m : ds(n + 1)[k] = ds(n)[k]
      BY <2>2, <3>1
    <3>3. /\ w[m + 1] = p[n + 1] /\ w[m] = p[n] /\ w[0] = p[0]
          /\ \A k \in 1..m : w[k - 1] = v[k - 1] /\ w[k] = v[k]
      <4>1. \A k \in 0..m : w[k] = v[k] /\ k # m + 1
        BY <3>1
      <4>2. \A k \in 1..m : k - 1 \in 0..m /\ k \in 0..m
        BY <3>1
      <4>3. m \in 0..m /\ 0 \in 0..m /\ m + 1 \in 0..m + 1
        BY <3>1
      <4> QED BY <2>3, <4>1, <4>2, <4>3
    <3> HIDE DEF w, d, m
    <3>4. Walks(forth, id, w, ds(n + 1))
      <4> SUFFICES ASSUME NEW k \in 1..m + 1
                   PROVE  Goes(forth, id, w[k - 1], ds(n + 1)[k], w[k])
        BY <3>2 DEF Walks
      <4>1. CASE k = m + 1
        <5>1. k - 1 = m
          BY <3>1, <4>1
        <5> QED BY <3>1, <3>2, <3>3, <4>1, <5>1
      <4>2. CASE k # m + 1
        <5>1. k \in 1..m
          BY <3>1, <4>2
        <5> QED BY <2>3, <3>2, <3>3, <5>1 DEF Walks, m
      <4> QED BY <4>1, <4>2
    <3> QED BY <3>2, <3>3, <3>4
  <2> QED BY <2>4, <2>5
<1> HIDE DEF To
<1>4. Nat \subseteq S
  <2>1. \A n \in Nat : n \in S => n + 1 \in S
    BY <1>3
  <2> HIDE DEF S
  <2> QED BY <1>2, <2>1, Adding!SetInduction
<1>5. \A n \in 0..Len(stack) : To(n)
  BY <1>4
<1> QED BY <1>5 DEF To, ds

\* Diffs turned round.
LEMMA ReversedIs ==
    ASSUME NEW ds \in Seq(StoreDiff)
    PROVE  /\ Reversed(ds) \in Seq(StoreDiff) /\ Len(Reversed(ds)) = Len(ds)
           /\ \A k \in 1..Len(ds) : Reversed(ds)[k] = ReverseRecordsDiff(ds[k])
<1>1. \A d \in StoreDiff : ReverseRecordsDiff(d) \in StoreDiff
  BY ReverseInDiffs DEF StoreDiff
<1> QED BY <1>1 DEF Reversed

\* They lead the other way.
LEMMA WalksReversed ==
    ASSUME NEW ds \in Seq(StoreDiff), NEW id, NEW v, Walks(FALSE, id, v, ds)
    PROVE  Walks(TRUE, id, v, Reversed(ds))
<1> SUFFICES ASSUME NEW k \in 1..Len(ds)
             PROVE  Leads(id, v[k - 1], Reversed(ds)[k], v[k])
  BY ReversedIs DEF Walks, Goes
<1>1. Leads(id, v[k], ds[k], v[k - 1])
  BY DEF Walks, Goes
<1> QED BY <1>1, ReversedIs, ReverseLeads

\* So do diffs in the other order.
LEMMA WalksBackwards ==
    ASSUME NEW ds \in Seq(StoreDiff), NEW id, NEW v, Walks(FALSE, id, v, ds)
    PROVE  /\ Reverse(ds) \in Seq(StoreDiff) /\ Len(Reverse(ds)) = Len(ds)
           /\ Walks(TRUE, id, [k \in 0..Len(ds) |-> v[Len(ds) - k]], Reverse(ds))
<1> DEFINE w == [k \in 0..Len(ds) |-> v[Len(ds) - k]]
<1>1. /\ Reverse(ds) \in Seq(StoreDiff) /\ Len(Reverse(ds)) = Len(ds)
      /\ \A k \in 1..Len(ds) : Reverse(ds)[k] = ds[Len(ds) - k + 1]
  <2>1. \A k \in 1..Len(ds) : ds[Len(ds) - k + 1] \in StoreDiff
    <3>1. \A k \in 1..Len(ds) : Len(ds) - k + 1 \in 1..Len(ds)
      OBVIOUS
    <3> QED BY <3>1
  <2> QED BY <2>1 DEF Reverse
<1>2. ASSUME NEW k \in 1..Len(ds)
      PROVE  Leads(id, w[k - 1], Reverse(ds)[k], w[k])
  <2> DEFINE j == Len(ds) - k + 1
  <2>1. j \in 1..Len(ds) /\ j - 1 = Len(ds) - k /\ j = Len(ds) - (k - 1)
    OBVIOUS
  <2>2. w[k - 1] = v[j] /\ w[k] = v[j - 1]
    BY <2>1
  <2>3. Leads(id, v[j], ds[j], v[j - 1])
    BY <2>1 DEF Walks, Goes
  <2> QED BY <1>1, <2>2, <2>3
<1> HIDE DEF w
<1>3. Walks(TRUE, id, w, Reverse(ds))
  BY <1>1, <1>2 DEF Walks, Goes
<1> QED BY <1>1, <1>3 DEF w

\* Squashed into one, the diffs lead all the way.
LEMMA SquashAllLeads ==
    ASSUME NEW ds \in Seq(StoreDiff), NEW id, NEW v, Walks(TRUE, id, v, ds),
           NEW x, NEW base, Leads(id, x, base, v[0])
    PROVE  Leads(id, x, SquashAll(base, ds), v[Len(ds)])
<1>1. SquashAll(base, ds) = Squashing!Fold(base, ds)
  BY DEF SquashAll, FoldLeft, MapThenFoldSet, Max, Squashing!Fold,
         Squashing!MapThenFoldSet, Squashing!Greatest
<1>2. PICK acc : /\ acc[0] = base
                 /\ \A i \in 1..Len(ds) : acc[i] = Squash(acc[i - 1], ds[i])
                 /\ Squashing!Fold(base, ds) = acc[Len(ds)]
  BY Squashing!FoldTrace
<1> DEFINE S == {i \in Nat : i <= Len(ds) => Leads(id, x, acc[i], v[i])}
<1>3. 0 \in S
  BY <1>2
<1>4. \A i \in Nat : i \in S => i + 1 \in S
  <2> SUFFICES ASSUME NEW i \in Nat, i \in S, i + 1 <= Len(ds)
               PROVE  Leads(id, x, acc[i + 1], v[i + 1])
    OBVIOUS
  <2>1. i + 1 \in 1..Len(ds) /\ i + 1 - 1 = i /\ Leads(id, x, acc[i], v[i])
    OBVIOUS
  <2>2. Leads(id, v[i], ds[i + 1], v[i + 1])
    BY <2>1 DEF Walks, Goes
  <2>3. acc[i + 1] = Squash(acc[i], ds[i + 1])
    BY <1>2, <2>1
  <2> QED BY <2>1, <2>2, <2>3, SquashLeads
<1>5. Nat \subseteq S
  <2> HIDE DEF S
  <2> QED BY <1>3, <1>4, Adding!SetInduction
<1>6. Len(ds) \in S
  BY <1>5
<1> QED BY <1>1, <1>2, <1>6

\* Applied one after the other, the diffs do.
LEMMA ApplyAllLeads ==
    ASSUME NEW ds \in Seq(StoreDiff), NEW id \in Ids, NEW v,
           Walks(TRUE, id, v, ds), NEW s \in Records, s[id] = v[0]
    PROVE  FoldLeft(ApplyChanges, s, ds)[id] = v[Len(ds)]
<1>1. FoldLeft(ApplyChanges, s, ds) = Applying!Fold(s, ds)
  BY DEF FoldLeft, MapThenFoldSet, Max, Applying!Fold,
         Applying!MapThenFoldSet, Applying!Greatest
<1>2. PICK acc : /\ acc[0] = s
                 /\ \A i \in 1..Len(ds) : acc[i] = ApplyChanges(acc[i - 1], ds[i])
                 /\ Applying!Fold(s, ds) = acc[Len(ds)]
  BY Applying!FoldTrace
<1> DEFINE S == {i \in Nat : i <= Len(ds) =>
                   acc[i] \in Records /\ acc[i][id] = v[i]}
<1>3. 0 \in S
  BY <1>2
<1>4. \A i \in Nat : i \in S => i + 1 \in S
  <2> SUFFICES ASSUME NEW i \in Nat, i \in S, i + 1 <= Len(ds)
               PROVE  acc[i + 1] \in Records /\ acc[i + 1][id] = v[i + 1]
    OBVIOUS
  <2>1. /\ i + 1 \in 1..Len(ds) /\ i + 1 - 1 = i /\ ds[i + 1] \in StoreDiff
        /\ acc[i] \in Records /\ acc[i][id] = v[i]
    OBVIOUS
  <2>2. Leads(id, acc[i][id], ds[i + 1], v[i + 1])
    BY <2>1 DEF Walks, Goes
  <2>3. acc[i + 1] = ApplyChanges(acc[i], ds[i + 1])
    BY <1>2, <2>1
  <2>4. ApplyChanges(acc[i], ds[i + 1]) \in Records
    BY <2>1, ApplyInStores DEF StoreDiff, Records
  <2>5. id \in DOMAIN acc[i]
    BY <2>1 DEF Records
  <2> QED BY <2>2, <2>3, <2>4, <2>5, ApplyLeads
<1>5. Nat \subseteq S
  <2> HIDE DEF S
  <2> QED BY <1>3, <1>4, Adding!SetInduction
<1>6. Len(ds) \in S
  BY <1>5
<1> QED BY <1>1, <1>2, <1>6

\* Squashing makes a diff of these records.
LEMMA SquashAllType ==
    ASSUME NEW base \in StoreDiff, NEW ds \in Seq(StoreDiff)
    PROVE  SquashAll(base, ds) \in StoreDiff
<1>1. SquashAll(base, ds) = Squashing!Fold(base, ds)
  BY DEF SquashAll, FoldLeft, MapThenFoldSet, Max, Squashing!Fold,
         Squashing!MapThenFoldSet, Squashing!Greatest
<1>2. \A d, e \in StoreDiff : Squash(d, e) \in StoreDiff
  BY SquashInDiffs DEF StoreDiff
<1>3. Squashing!Fold(base, ds) \in StoreDiff
  BY <1>2, Squashing!FoldKeeps
<1> QED BY <1>1, <1>3

-----------------------------------------------------------------------------
(***************************************************************************)
(* What pushing, popping and moving entries does to the values along a     *)
(* stack.                                                                  *)
(***************************************************************************)
\* An entry that leads to where the stack starts.
LEMMA PushChain ==
    ASSUME NEW stack \in Seq(Entry), NEW entry \in Entry, NEW forth, NEW id,
           NEW saw, NEW x, NEW y, NEW z, Reaches(forth, id, stack, saw, x, z),
           Passes(forth, id, y, entry, x, saw)
    PROVE  Reaches(forth, id, <<entry>> \o stack, saw, y, z)
<1>0. PICK p : /\ p[0] = x /\ p[Len(stack)] = z
               /\ Chained(forth, id, stack, saw, p)
  BY DEF Reaches
<1> DEFINE more == <<entry>> \o stack
           q == [n \in 0..Len(stack) + 1 |-> IF n = 0 THEN y ELSE p[n - 1]]
<1>1. /\ Len(more) = Len(stack) + 1 /\ more[1] = entry
      /\ \A n \in 1..Len(stack) : more[n + 1] = stack[n]
  OBVIOUS
<1>2. q[0] = y /\ \A n \in 1..Len(stack) + 1 : q[n] = p[n - 1]
  OBVIOUS
<1>3. ASSUME NEW n \in 1..Len(stack) + 1
      PROVE  Passes(forth, id, q[n - 1], more[n], q[n], saw)
  <2> HIDE DEF q, more
  <2>1. CASE n = 1
    BY <1>0, <1>1, <1>2, <2>1
  <2>2. CASE n # 1
    <3>1. /\ n - 1 \in 1..Len(stack) /\ n - 1 \in 1..Len(stack) + 1
          /\ (n - 1) + 1 = n
      BY <2>2
    <3>2. more[n] = stack[n - 1] /\ q[n] = p[n - 1] /\ q[n - 1] = p[(n - 1) - 1]
      BY <1>1, <1>2, <3>1
    <3> QED BY <1>0, <3>1, <3>2 DEF Chained
  <2> QED BY <2>1, <2>2
<1>4. Len(stack) + 1 \in 1..Len(stack) + 1 /\ Len(stack) + 1 - 1 = Len(stack)
  OBVIOUS
<1> HIDE DEF q, more
<1>5. Chained(forth, id, more, saw, q)
  BY <1>1, <1>3 DEF Chained
<1>6. q[Len(more)] = z
  BY <1>0, <1>1, <1>2, <1>4
<1> QED BY <1>2, <1>5, <1>6 DEF Reaches, more

\* The rest of a stack.
LEMMA DropChain ==
    ASSUME NEW stack \in Seq(Entry), NEW forth, NEW id, NEW saw, NEW p,
           Chained(forth, id, stack, saw, p), NEW n \in 0..Len(stack)
    PROVE  Reaches(forth, id, Rest(stack, n), saw, p[n], p[Len(stack)])
<1> DEFINE rest == Rest(stack, n)
           q == [k \in 0..Len(stack) - n |-> p[n + k]]
<1>1. /\ rest \in Seq(Entry) /\ Len(rest) = Len(stack) - n
      /\ \A k \in 1..Len(stack) - n : rest[k] = stack[n + k]
  BY RestIs
<1>2. \A k \in 0..Len(stack) - n : q[k] = p[n + k]
  OBVIOUS
<1> HIDE DEF q, rest
<1>3. ASSUME NEW k \in 1..Len(stack) - n
      PROVE  Passes(forth, id, q[k - 1], rest[k], q[k], saw)
  <2>1. /\ n + k \in 1..Len(stack) /\ (n + k) - 1 = n + (k - 1)
        /\ k \in 0..Len(stack) - n /\ k - 1 \in 0..Len(stack) - n
    OBVIOUS
  <2>2. Passes(forth, id, p[(n + k) - 1], stack[n + k], p[n + k], saw)
    BY <2>1 DEF Chained
  <2> QED BY <1>1, <1>2, <2>1, <2>2
<1>4. Chained(forth, id, rest, saw, q)
  BY <1>1, <1>3 DEF Chained
<1>5. /\ 0 \in 0..Len(stack) - n /\ n + 0 = n
      /\ Len(stack) - n \in 0..Len(stack) - n
      /\ n + (Len(stack) - n) = Len(stack)
  OBVIOUS
<1>6. q[0] = p[n] /\ q[Len(rest)] = p[Len(stack)]
  BY <1>1, <1>2, <1>5
<1> QED BY <1>4, <1>6 DEF Reaches, rest

\* What leads forth by one measure leads back by the other.
Opposite(forth, back, id, saw) ==
    \A x, y, entry : Passes(forth, id, x, entry, y, saw)
                       => Passes(back, id, y, entry, x, saw)

\* Undoing and redoing are opposites.
LEMMA UndoRedoOpposite ==
    ASSUME NEW id, NEW saw
    PROVE  Opposite(TRUE, FALSE, id, saw) /\ Opposite(FALSE, TRUE, id, saw)
BY DEF Opposite, Passes, Goes

\* Entries that are moved to the other stack one by one lead the other way.
LEMMA MoveChain ==
    ASSUME NEW stack \in Seq(Entry), NEW other \in Seq(Entry),
           NEW forth, NEW back, NEW id, NEW saw, NEW p, NEW z,
           Opposite(forth, back, id, saw),
           Chained(forth, id, stack, saw, p),
           Reaches(back, id, other, saw, p[0], z)
    PROVE  \A n \in 0..Len(stack) :
             Reaches(back, id, Reverse(Top(stack, n)) \o other, saw, p[n], z)
<1> DEFINE moved(n) == Reverse(Top(stack, n)) \o other
           To(n) == Reaches(back, id, moved(n), saw, p[n], z)
           S == {n \in Nat : n <= Len(stack) => To(n)}
<1>1. moved(0) = other
  <2>1. moved(0) = <<>> \o other
    BY ReverseNext
  <2> QED BY <2>1
<1>2. ASSUME NEW n \in 0..Len(stack) - 1
      PROVE  /\ moved(n) \in Seq(Entry) /\ stack[n + 1] \in Entry
             /\ moved(n + 1) = <<stack[n + 1]>> \o moved(n)
  <2> DEFINE top == Reverse(Top(stack, n))
             e == stack[n + 1]
  <2>1. top \in Seq(Entry) /\ e \in Entry
    <3>1. n \in 0..Len(stack)
      OBVIOUS
    <3> QED BY <3>1, ReverseNext
  <2>2. moved(n + 1) = (<<e>> \o top) \o other
    <3>1. Reverse(Top(stack, n + 1)) = <<e>> \o top
      BY ReverseNext
    <3> HIDE DEF top, e
    <3> QED BY <3>1
  <2> HIDE DEF top, e
  <2>3. (<<e>> \o top) \o other = <<e>> \o (top \o other)
    BY <2>1
  <2>4. top \o other \in Seq(Entry)
    BY <2>1
  <2> QED BY <2>1, <2>2, <2>3, <2>4 DEF top, e
<1> HIDE DEF moved
<1>3. 0 \in S
  BY <1>1
<1>4. ASSUME NEW n \in Nat, n \in S, n + 1 <= Len(stack)
      PROVE  To(n + 1)
  <2>1. /\ n \in 0..Len(stack) - 1 /\ n + 1 \in 1..Len(stack) /\ To(n)
        /\ n + 1 - 1 = n
    BY <1>4
  <2>2. /\ moved(n) \in Seq(Entry) /\ stack[n + 1] \in Entry
        /\ moved(n + 1) = <<stack[n + 1]>> \o moved(n)
    BY <1>2, <2>1
  <2>3. Passes(forth, id, p[n], stack[n + 1], p[n + 1], saw)
    BY <2>1 DEF Chained
  <2>4. Passes(back, id, p[n + 1], stack[n + 1], p[n], saw)
    BY <2>3 DEF Opposite
  <2>5. Reaches(back, id, moved(n), saw, p[n], z)
    BY <2>1
  <2> QED BY <2>2, <2>4, <2>5, PushChain
<1> HIDE DEF To
<1>5. Nat \subseteq S
  <2>1. \A n \in Nat : n \in S => n + 1 \in S
    BY <1>4
  <2> HIDE DEF S
  <2> QED BY <1>3, <2>1, Adding!SetInduction
<1>6. \A n \in 0..Len(stack) : To(n)
  BY <1>5
<1> QED BY <1>6 DEF To, moved

-----------------------------------------------------------------------------
(***************************************************************************)
(* How many entries the operations pop.                                    *)
(***************************************************************************)
\* The least of some numbers.
LEMMA MinIs ==
    ASSUME NEW S \in SUBSET Nat, S # {}
    PROVE  Min(S) \in S /\ \A n \in S : Min(S) <= n
<1>1. \E n \in S : \A m \in S : n <= m
  BY Adding!LeastNumber
<1> QED BY <1>1 DEF Min

\* Stops on top are no more than there are entries; those that are not are
\* followed by no stop.
LEMMA LeadingStopsIs ==
    ASSUME NEW T, NEW stack \in Seq(T)
    PROVE  /\ LeadingStops(stack) \in 0..Len(stack)
           /\ \A n \in 1..LeadingStops(stack) : IsStop(stack[n])
           /\ LeadingStops(stack) < Len(stack) =>
                ~IsStop(stack[LeadingStops(stack) + 1])
<1> DEFINE notStop == {i \in 1..Len(stack) : ~IsStop(stack[i])}
<1>1. LeadingStops(stack)
        = IF notStop = {} THEN Len(stack) ELSE Min(notStop) - 1
  BY DEF LeadingStops
<1>2. notStop \in SUBSET Nat /\ notStop \subseteq 1..Len(stack)
  OBVIOUS
<1>3. \A i \in 1..Len(stack) : i \in notStop <=> ~IsStop(stack[i])
  OBVIOUS
<1> HIDE DEF notStop
<1>4. CASE notStop = {}
  BY <1>1, <1>3, <1>4
<1>5. CASE notStop # {}
  <2> DEFINE m == Min(notStop)
  <2>1. m \in notStop /\ \A n \in notStop : m <= n
    BY <1>2, <1>5, MinIs
  <2> HIDE DEF m
  <2>2. LeadingStops(stack) = m - 1 /\ m \in 1..Len(stack)
    BY <1>1, <1>2, <1>5, <2>1 DEF m
  <2>3. m - 1 \in 0..Len(stack) /\ (m - 1) + 1 = m
    BY <2>2
  <2>4. ASSUME NEW n \in 1..m - 1 PROVE IsStop(stack[n])
    <3>1. n \in 1..Len(stack) /\ ~(m <= n)
      BY <2>2
    <3> QED BY <1>3, <2>1, <3>1
  <2> QED BY <1>3, <2>1, <2>2, <2>3, <2>4
<1> QED BY <1>4, <1>5

\* Entries are popped as far as the first stop after those that have been.
LEMMA PoppedToStopIs ==
    ASSUME NEW T, NEW stack \in Seq(T), NEW k \in 0..Len(stack)
    PROVE  /\ PoppedToStop(stack, k) \in k..Len(stack)
           /\ \A n \in k + 1..PoppedToStop(stack, k) - 1 : ~IsStop(stack[n])
           /\ \/ PoppedToStop(stack, k) > k /\ IsStop(stack[PoppedToStop(stack, k)])
              \/ /\ PoppedToStop(stack, k) = Len(stack)
                 /\ \A n \in k + 1..Len(stack) : ~IsStop(stack[n])
<1> DEFINE stops == {i \in k + 1..Len(stack) : IsStop(stack[i])}
<1>1. PoppedToStop(stack, k) = IF stops = {} THEN Len(stack) ELSE Min(stops)
  BY DEF PoppedToStop
<1>2. stops \in SUBSET Nat /\ stops \subseteq k + 1..Len(stack)
  OBVIOUS
<1>3. \A i \in k + 1..Len(stack) : i \in stops <=> IsStop(stack[i])
  OBVIOUS
<1> HIDE DEF stops
<1>4. CASE stops = {}
  BY <1>1, <1>3, <1>4
<1>5. CASE stops # {}
  <2> DEFINE m == Min(stops)
  <2>1. m \in stops /\ \A n \in stops : m <= n
    BY <1>2, <1>5, MinIs
  <2> HIDE DEF m
  <2>2. PoppedToStop(stack, k) = m /\ m \in k + 1..Len(stack)
    BY <1>1, <1>2, <1>5, <2>1 DEF m
  <2>3. m \in k..Len(stack) /\ m > k
    BY <2>2
  <2>4. ASSUME NEW n \in k + 1..m - 1 PROVE ~IsStop(stack[n])
    <3>1. n \in k + 1..Len(stack) /\ ~(m <= n)
      BY <2>2
    <3> QED BY <1>3, <2>1, <3>1
  <2> QED BY <1>3, <2>1, <2>2, <2>3, <2>4
<1> QED BY <1>4, <1>5

\* A mark that is there is among the entries.
LEMMA PoppedToMarkIs ==
    ASSUME NEW T, NEW stack \in Seq(T), NEW id, HasMark(stack, id)
    PROVE  PoppedToMark(stack, id) \in 1..Len(stack)
<1> DEFINE marks == {i \in 1..Len(stack) : stack[i] = Stop(id)}
<1>1. marks \in SUBSET Nat /\ marks # {} /\ marks \subseteq 1..Len(stack)
  BY DEF HasMark
<1>2. PoppedToMark(stack, id) = Min(marks)
  BY DEF PoppedToMark
<1> HIDE DEF marks
<1> QED BY <1>1, <1>2, MinIs

\* An operation pops no more entries than there are.
LEMMA PoppedIs ==
    ASSUME NEW toMark, StacksTyped, toMark = NoMark \/ HasMark(undos, toMark)
    PROVE  Popped(toMark) \in 0..Len(undos)
<1> DEFINE k == IF Touched(pending) = {} THEN LeadingStops(undos) ELSE 0
<1>1. undos \in Seq(EntryWith(DOMAIN seen))
  BY DEF StacksTyped
<1>2. CASE toMark = NoMark
  <2>1. k \in 0..Len(undos)
    BY <1>1, LeadingStopsIs
  <2>2. Popped(toMark) = PoppedToStop(undos, k)
    BY <1>2 DEF Popped
  <2> HIDE DEF k
  <2>3. PoppedToStop(undos, k) \in k..Len(undos)
    BY <1>1, <2>1, PoppedToStopIs
  <2> QED BY <2>1, <2>2, <2>3
<1>3. CASE toMark # NoMark
  <2>1. PoppedToMark(undos, toMark) \in 1..Len(undos)
    BY <1>1, <1>3, PoppedToMarkIs
  <2> QED BY <1>3, <2>1 DEF Popped
<1> QED BY <1>2, <1>3

\* Nor does a redo.
LEMMA RedoPoppedIs ==
    ASSUME StacksTyped
    PROVE  RedoPopped(redos) \in 0..Len(redos)
<1> DEFINE k == LeadingStops(redos)
<1>1. redos \in Seq(EntryWith(DOMAIN seen))
  BY DEF StacksTyped
<1>2. k \in 0..Len(redos)
  BY <1>1, LeadingStopsIs
<1>3. RedoPopped(redos) = PoppedToStop(redos, k)
  BY DEF RedoPopped
<1> HIDE DEF k
<1>4. PoppedToStop(redos, k) \in k..Len(redos)
  BY <1>1, <1>2, PoppedToStopIs
<1> QED BY <1>2, <1>3, <1>4

-----------------------------------------------------------------------------
(***************************************************************************)
(* The diffs that the operations apply lead where they should.             *)
(***************************************************************************)
\* The stacks are stacks of entries.
LEMMA EntriesAre ==
    ASSUME NEW marks, NEW stack \in Seq(EntryWith(marks))
    PROVE  stack \in Seq(Entry)
BY DEF EntryWith

\* Undoing n entries leads to the value after them.
LEMMA UndoLeads ==
    ASSUME NEW id, NEW p, StacksTyped, Chained(FALSE, id, undos, seen, p),
           Leads(id, p[0], pending, store[id]), NEW n \in 0..Len(undos)
    PROVE  Leads(id, store[id], DiffToUndo(n), p[n])
<1> DEFINE ds == DiffsOf(Top(undos, n))
<1>1. undos \in Seq(Entry)
  BY EntriesAre DEF StacksTyped
<1>2. PICK v : v[0] = p[0] /\ v[Len(ds)] = p[n] /\ Walks(FALSE, id, v, ds)
  BY <1>1, DiffsWalk
<1>3. ds \in Seq(StoreDiff)
  BY <1>1, DiffsOfNext
<1> HIDE DEF ds
<1>4. /\ Walks(TRUE, id, v, Reversed(ds)) /\ Reversed(ds) \in Seq(StoreDiff)
      /\ Len(Reversed(ds)) = Len(ds)
  BY <1>2, <1>3, WalksReversed, ReversedIs
<1>5. Leads(id, store[id], ReverseRecordsDiff(pending), v[0])
  BY <1>2, ReverseLeads
<1>6. Leads(id, store[id], SquashAll(ReverseRecordsDiff(pending), Reversed(ds)),
            v[Len(Reversed(ds))])
  BY <1>4, <1>5, SquashAllLeads
<1> QED BY <1>2, <1>4, <1>6 DEF DiffToUndo, ds

\* So does applying what is pending and their diffs, one after the other.
LEMMA RewoundIs ==
    ASSUME NEW id \in Ids, NEW p, StacksTyped,
           Chained(FALSE, id, undos, seen, p),
           Leads(id, p[0], pending, store[id]), NEW n \in 0..Len(undos)
    PROVE  Rewound(n)[id] = p[n]
<1> DEFINE ds == DiffsOf(Top(undos, n))
           all == <<pending>> \o ds
<1>1. undos \in Seq(Entry)
  BY EntriesAre DEF StacksTyped
<1>2. PICK v : v[0] = p[0] /\ v[Len(ds)] = p[n] /\ Walks(FALSE, id, v, ds)
  BY <1>1, DiffsWalk
<1>3. ds \in Seq(StoreDiff) /\ pending \in StoreDiff /\ store \in Records
  BY <1>1, DiffsOfNext DEF StacksTyped
<1> HIDE DEF ds
<1> DEFINE w == [k \in 0..Len(ds) + 1 |-> IF k = 0 THEN store[id] ELSE v[k - 1]]
<1>4. /\ all \in Seq(StoreDiff) /\ Len(all) = Len(ds) + 1 /\ all[1] = pending
      /\ \A k \in 1..Len(ds) : all[k + 1] = ds[k]
  BY <1>3
<1>5. /\ w[0] = store[id] /\ w[Len(ds) + 1] = v[Len(ds)]
      /\ \A k \in 1..Len(ds) + 1 : w[k] = v[k - 1]
  <2>1. /\ 0 \in 0..Len(ds) + 1 /\ Len(ds) + 1 \in 1..Len(ds) + 1
        /\ Len(ds) + 1 - 1 = Len(ds)
    BY <1>3
  <2>2. \A k \in 1..Len(ds) + 1 : k # 0 /\ k \in 0..Len(ds) + 1
    BY <1>3
  <2> QED BY <2>1, <2>2
<1> HIDE DEF all, w
<1>6. Walks(FALSE, id, w, all)
  <2> SUFFICES ASSUME NEW k \in 1..Len(ds) + 1
               PROVE  Leads(id, w[k], all[k], w[k - 1])
    BY <1>4 DEF Walks, Goes
  <2>1. CASE k = 1
    BY <1>2, <1>4, <1>5, <2>1
  <2>2. CASE k # 1
    <3>1. /\ k - 1 \in 1..Len(ds) /\ k - 1 \in 1..Len(ds) + 1
          /\ (k - 1) + 1 = k
      BY <1>3, <2>2
    <3>2. Leads(id, v[k - 1], ds[k - 1], v[(k - 1) - 1])
      BY <1>2, <3>1 DEF Walks, Goes
    <3> QED BY <1>4, <1>5, <3>1, <3>2
  <2> QED BY <2>1, <2>2
<1>7. /\ Walks(TRUE, id, w, Reversed(all)) /\ Reversed(all) \in Seq(StoreDiff)
      /\ Len(Reversed(all)) = Len(ds) + 1
  BY <1>4, <1>6, WalksReversed, ReversedIs
<1>8. FoldLeft(ApplyChanges, store, Reversed(all))[id] = w[Len(Reversed(all))]
  BY <1>3, <1>5, <1>7, ApplyAllLeads
<1> QED BY <1>2, <1>5, <1>7, <1>8 DEF Rewound, all, ds

\* What n redos do.
RedoneBy(n) == SquashAll(NoChanges, DiffsOf(Top(redos, n)))

\* Redoing n entries leads to the value after them.
LEMMA RedoLeads ==
    ASSUME NEW id, NEW p, StacksTyped, Chained(TRUE, id, redos, seen, p),
           NEW n \in 0..Len(redos)
    PROVE  /\ Leads(id, p[0], RedoneBy(n), p[n])
           /\ id \in Ids /\ p[0] = store[id] => Replayed(n)[id] = p[n]
<1> DEFINE ds == DiffsOf(Top(redos, n))
<1>1. redos \in Seq(Entry)
  BY EntriesAre DEF StacksTyped
<1>2. PICK v : v[0] = p[0] /\ v[Len(ds)] = p[n] /\ Walks(TRUE, id, v, ds)
  BY <1>1, DiffsWalk
<1>3. ds \in Seq(StoreDiff) /\ store \in Records
  BY <1>1, DiffsOfNext DEF StacksTyped
<1> HIDE DEF ds
<1>4. Leads(id, p[0], NoChanges, v[0])
  BY <1>2, NoChangesLead
<1>5. Leads(id, p[0], SquashAll(NoChanges, ds), v[Len(ds)])
  BY <1>2, <1>3, <1>4, SquashAllLeads
<1>6. ASSUME id \in Ids, p[0] = store[id]
      PROVE  FoldLeft(ApplyChanges, store, ds)[id] = v[Len(ds)]
  BY <1>2, <1>3, <1>6, ApplyAllLeads
<1> QED BY <1>2, <1>5, <1>6 DEF RedoneBy, Replayed, ds

\* The one diff of n entries leads from the value after them.
LEMMA SquashedLeads ==
    ASSUME NEW id, NEW p, StacksTyped, Chained(FALSE, id, undos, seen, p),
           NEW n \in 0..Len(undos)
    PROVE  Leads(id, p[n], Squashed(n), p[0])
<1> DEFINE ds == DiffsOf(Top(undos, n))
<1>1. undos \in Seq(Entry)
  BY EntriesAre DEF StacksTyped
<1>2. PICK v : v[0] = p[0] /\ v[Len(ds)] = p[n] /\ Walks(FALSE, id, v, ds)
  BY <1>1, DiffsWalk
<1>3. ds \in Seq(StoreDiff)
  BY <1>1, DiffsOfNext
<1> HIDE DEF ds
<1> DEFINE w == [k \in 0..Len(ds) |-> v[Len(ds) - k]]
<1>4. /\ Reverse(ds) \in Seq(StoreDiff) /\ Len(Reverse(ds)) = Len(ds)
      /\ Walks(TRUE, id, w, Reverse(ds))
  BY <1>2, <1>3, WalksBackwards
<1>5. w[0] = v[Len(ds)] /\ w[Len(ds)] = v[0]
  <2>1. Len(ds) - 0 = Len(ds) /\ Len(ds) - Len(ds) = 0 /\ 0 \in 0..Len(ds)
    BY <1>3
  <2> QED BY <1>3, <2>1
<1> HIDE DEF w
<1>6. Leads(id, p[n], NoChanges, w[0])
  BY <1>2, <1>5, NoChangesLead
<1>7. Leads(id, p[n], SquashAll(NoChanges, Reverse(ds)), w[Len(Reverse(ds))])
  BY <1>4, <1>6, SquashAllLeads
<1> QED BY <1>2, <1>4, <1>5, <1>7 DEF Squashed, ds

-----------------------------------------------------------------------------
(***************************************************************************)
(* Every step keeps the types.                                             *)
(***************************************************************************)
\* Entries with some marks are entries with more.
LEMMA EntryWithMore ==
    ASSUME NEW marks, NEW more, marks \subseteq more,
           NEW stack \in Seq(EntryWith(marks))
    PROVE  stack \in Seq(EntryWith(more))
BY DEF EntryWith

\* Diffs and stops as entries.
LEMMA EntriesMade ==
    ASSUME NEW marks
    PROVE  /\ \A d \in StoreDiff :
                Diff(d) \in EntryWith(marks) /\ ~IsStop(Diff(d)) /\ Diff(d).diff = d
           /\ \A m \in marks \cap MarkIds :
                Stop(m) \in EntryWith(marks) /\ IsStop(Stop(m)) /\ Stop(m).id = m
BY DEF EntryWith, Entry, Diff, Stop, IsStop

\* The undo stack after flushing.
LEMMA FlushedType ==
    ASSUME StacksTyped
    PROVE  Flushed \in Seq(EntryWith(DOMAIN seen))
<1>1. Diff(pending) \in EntryWith(DOMAIN seen)
  BY EntriesMade DEF StacksTyped
<1>2. <<Diff(pending)>> \o undos \in Seq(EntryWith(DOMAIN seen))
  BY <1>1 DEF StacksTyped
<1> QED BY <1>2 DEF Flushed, StacksTyped

\* What an operation that undoes or redoes applies.
LEMMA AppliedType ==
    ASSUME StacksTyped
    PROVE  /\ \A n \in 0..Len(undos) : DiffToUndo(n) \in StoreDiff
           /\ \A n \in 0..Len(undos) :
                ApplyChanges(store, DiffToUndo(n)) \in Records
           /\ \A n \in 0..Len(redos) :
                ApplyChanges(store, RedoneBy(n)) \in Records
           /\ \A n \in 0..Len(undos) : Squashed(n) \in StoreDiff
<1>1. /\ undos \in Seq(Entry) /\ redos \in Seq(Entry)
      /\ pending \in StoreDiff /\ store \in Records
  BY EntriesAre DEF StacksTyped
<1>2. ReverseRecordsDiff(pending) \in StoreDiff /\ NoChanges \in StoreDiff
  BY <1>1, ReverseInDiffs, NoChangesInDiffs DEF StoreDiff
<1>3. ASSUME NEW n \in 0..Len(undos)
      PROVE  DiffToUndo(n) \in StoreDiff
  <2> DEFINE ds == DiffsOf(Top(undos, n))
  <2>1. ds \in Seq(StoreDiff)
    BY <1>1, DiffsOfNext
  <2> HIDE DEF ds
  <2>2. Reversed(ds) \in Seq(StoreDiff)
    BY <2>1, ReversedIs
  <2> QED BY <1>2, <2>2, SquashAllType DEF DiffToUndo, ds
<1>4. ASSUME NEW n \in 0..Len(redos)
      PROVE  RedoneBy(n) \in StoreDiff
  <2>1. DiffsOf(Top(redos, n)) \in Seq(StoreDiff)
    BY <1>1, DiffsOfNext
  <2> QED BY <1>2, <2>1, SquashAllType DEF RedoneBy
<1>5. ASSUME NEW n \in 0..Len(undos)
      PROVE  Squashed(n) \in StoreDiff
  <2> DEFINE ds == DiffsOf(Top(undos, n))
  <2>1. ds \in Seq(StoreDiff)
    BY <1>1, DiffsOfNext
  <2> HIDE DEF ds
  <2>2. Reverse(ds) \in Seq(StoreDiff)
    <3>1. \A k \in 1..Len(ds) : Len(ds) - k + 1 \in 1..Len(ds)
      BY <2>1
    <3> QED BY <2>1, <3>1 DEF Reverse
  <2> QED BY <1>2, <2>2, SquashAllType DEF Squashed, ds
<1>6. ASSUME NEW d \in StoreDiff
      PROVE  ApplyChanges(store, d) \in Records
  BY <1>1, ApplyInStores DEF StoreDiff, Records
<1> QED BY <1>3, <1>4, <1>5, <1>6

\* A change of a record is a diff, and leaves a store.
LEMMA PutType ==
    ASSUME StacksTyped, NEW id \in Ids, NEW value \in Vals \cup {Absent},
           Put(id, value)
    PROVE  /\ store' \in Records /\ Between(store, store') \in StoreDiff
           /\ store' = [store EXCEPT ![id] = value]
           /\ DOMAIN store' = Ids /\ DOMAIN store = Ids
<1>1. /\ store' \in Records /\ store \in Records
      /\ store' = [store EXCEPT ![id] = value]
  BY DEF Put, StacksTyped, Records
<1>2. Between(store, store') \in StoreDiff
  BY <1>1, BetweenInDiffs DEF Records, StoreDiff
<1> QED BY <1>1, <1>2 DEF Records

\* What the interceptor records.
LEMMA RecordIs ==
    ASSUME NEW diff, state \in States, Record(diff)
    PROVE  \/ /\ state = "recording" /\ redos' = <<>>
              /\ pending' = Squash(pending, diff)
           \/ /\ state = "recordingPreserveRedoStack" /\ redos' = redos
              /\ pending' = Squash(pending, diff)
           \/ state = "paused" /\ redos' = redos /\ pending' = pending
BY DEF Record, States

\* The types of what undoing leaves, to a mark or to a stop.
LEMMA UndoToType ==
    ASSUME StacksTyped, NEW toMark, UndoTo(toMark),
           toMark = NoMark \/ HasMark(undos, toMark)
    PROVE  /\ store' \in Records /\ pending' \in StoreDiff
           /\ undos' \in Seq(EntryWith(DOMAIN seen)) /\ seen' = seen
<1> DEFINE n == Popped(toMark)
<1>1. n \in 0..Len(undos)
  BY PoppedIs
<1>2. /\ store' = ApplyChanges(store, DiffToUndo(n))
      /\ undos' = Rest(undos, n) /\ pending' = NoChanges /\ seen' = seen
  BY DEF UndoTo
<1> HIDE DEF n
<1>3. undos \in Seq(EntryWith(DOMAIN seen))
  BY DEF StacksTyped
<1>4. Rest(undos, n) \in Seq(EntryWith(DOMAIN seen))
  BY <1>1, <1>3, RestIs
<1>5. NoChanges \in StoreDiff
  BY NoChangesInDiffs DEF StoreDiff
<1> QED BY <1>1, <1>2, <1>4, <1>5, AppliedType

\* Entries that were moved, before those that were there.
LEMMA MovedType ==
    ASSUME NEW T, NEW stack \in Seq(T), NEW other \in Seq(T),
           NEW n \in 0..Len(stack)
    PROVE  Reverse(Top(stack, n)) \o other \in Seq(T)
<1>1. Reverse(Top(stack, n)) \in Seq(T)
  BY ReverseNext
<1> QED BY <1>1

\* What was pending is a diff also when an undo has written into it.
LEMMA PendingOnRedosType ==
    ASSUME StacksTyped, NEW n \in 0..Len(undos)
    PROVE  PendingOnRedos(n) \in StoreDiff
<1>1. DiffToUndo(n) \in StoreDiff /\ pending \in StoreDiff
  BY AppliedType DEF StacksTyped
<1> QED BY <1>1 DEF PendingOnRedos, StoreDiff, DiffsOver

\* A record that the undo does not write over there goes with it as it did.
LEMMA PendingOnRedosLeads ==
    ASSUME NEW id \in Ids, NEW x, NEW y, NEW n, Leads(id, x, pending, y),
           Touched(pending) # {}, id \notin Overwritten(n)
    PROVE  Leads(id, x, PendingOnRedos(n), y)
<1> DEFINE d == PendingOnRedos(n)
<1>1. SameAt(id, d.added, pending.added) /\ SameAt(id, d.removed, pending.removed)
  BY DEF Overwritten
<1>2. d.updated = pending.updated
  BY DEF PendingOnRedos
<1> HIDE DEF d
<1>3. Leads(id, x, d, y)
  BY <1>1, <1>2 DEF SameAt, Leads, Adds, Updates, Removes, Touched
<1> QED BY <1>3 DEF d

\* What the redos have of it, if anything was pending.
Kept(n) ==
    IF Touched(pending) = {} THEN <<>> ELSE <<Diff(PendingOnRedos(n))>>

\* The redos after an undo: the entries that were popped, what was pending, and
\* the redos there were.
RedosBelow(n) == Kept(n) \o redos

\* What an undo leaves of the redos, and the redos after it, are entries.
LEMMA RedosBelowType ==
    ASSUME StacksTyped, NEW n \in 0..Len(undos)
    PROVE  /\ RedosBelow(n) \in Seq(EntryWith(DOMAIN seen))
           /\ RedosAfterUndo(n) = Reverse(Top(undos, n)) \o RedosBelow(n)
           /\ RedosAfterUndo(n) \in Seq(EntryWith(DOMAIN seen))
<1> DEFINE T == EntryWith(DOMAIN seen)
           kept == Kept(n)
           top == Reverse(Top(undos, n))
<1>1. Diff(PendingOnRedos(n)) \in T
  BY PendingOnRedosType, EntriesMade
<1>2. undos \in Seq(T) /\ redos \in Seq(T)
  BY DEF StacksTyped
<1> HIDE DEF T
<1>3. kept \in Seq(T)
  BY <1>1 DEF Kept
<1>4. top \in Seq(T)
  BY <1>2, ReverseNext
<1>5. RedosAfterUndo(n) = top \o kept \o redos /\ RedosBelow(n) = kept \o redos
  BY DEF RedosAfterUndo, RedosBelow, Kept
<1> HIDE DEF kept, top
<1>6. top \o kept \o redos = top \o (kept \o redos)
  BY <1>2, <1>3, <1>4
<1>7. kept \o redos \in Seq(T) /\ top \o (kept \o redos) \in Seq(T)
  BY <1>2, <1>3, <1>4
<1> QED BY <1>5, <1>6, <1>7 DEF T, top

\* The first store is typed, and nothing is paused.
LEMMA TypedInit ==
    ASSUME HistoryInit
    PROVE  StacksTyped /\ BatchesNest
<1>1. store \in Records
  BY HistoryAssumption DEF HistoryInit, Records
<1>2. NoChanges \in StoreDiff
  BY NoChangesInDiffs DEF StoreDiff
<1>3. seen = [m \in DOMAIN seen |-> seen[m]] /\ NoMark \in DOMAIN seen
  BY DEF HistoryInit
<1>4. StacksTyped
  BY <1>1, <1>2, <1>3 DEF HistoryInit, StacksTyped
<1> QED BY <1>4 DEF HistoryInit, BatchesNest, States

\* Batches nest: only they change the state.
LEMMA BatchesNext ==
    ASSUME BatchesNest, [HistoryNext]_historyVars
    PROVE  BatchesNest'
<1>1. CASE UNCHANGED <<state, batches>>
  BY <1>1 DEF BatchesNest
<1>2. ASSUME NEW history \in States, BatchStarts(history)
      PROVE  BatchesNest'
  <2>1. /\ batches' = <<state>> \o batches
        /\ state' = IF state = "paused" THEN state ELSE history
    BY <1>2 DEF BatchStarts
  <2>2. /\ batches \in Seq(States) /\ state \in States
        /\ \A i \in 1..Len(batches) : batches[i] = "paused" =>
             state = "paused" /\ \A j \in 1..i : batches[j] = "paused"
    BY DEF BatchesNest
  <2>3. /\ batches' \in Seq(States) /\ state' \in States
        /\ Len(batches') = Len(batches) + 1 /\ batches'[1] = state
        /\ \A i \in 1..Len(batches) : batches'[i + 1] = batches[i]
    BY <2>1, <2>2
  <2>4. ASSUME NEW i \in 1..Len(batches'), batches'[i] = "paused"
        PROVE  /\ state' = "paused"
               /\ \A j \in 1..i : batches'[j] = "paused"
    <3>1. i # 1 => i - 1 \in 1..Len(batches) /\ (i - 1) + 1 = i
      BY <2>2, <2>3
    <3>2. state = "paused"
      BY <2>2, <2>3, <2>4, <3>1
    <3>3. ASSUME NEW j \in 1..i PROVE batches'[j] = "paused"
      <4>1. j # 1 => /\ j - 1 \in 1..Len(batches) /\ (j - 1) + 1 = j
                     /\ j - 1 \in 1..i - 1 /\ i # 1
        BY <2>2, <2>3
      <4>2. CASE j = 1
        BY <2>3, <3>2, <4>2
      <4>3. CASE j # 1
        <5>1. batches[i - 1] = "paused"
          BY <2>3, <2>4, <3>1, <4>1, <4>3
        <5>2. batches[j - 1] = "paused"
          BY <2>2, <3>1, <4>1, <4>3, <5>1
        <5> QED BY <2>3, <4>1, <4>3, <5>2
      <4> QED BY <4>2, <4>3
    <3> QED BY <2>1, <3>2, <3>3
  <2> QED BY <2>3, <2>4 DEF BatchesNest
<1>3. CASE BatchEnds
  <2>1. batches # <<>> /\ state' = Head(batches) /\ batches' = Tail(batches)
    BY <1>3 DEF BatchEnds
  <2>2. /\ batches \in Seq(States)
        /\ \A i \in 1..Len(batches) : batches[i] = "paused" =>
             \A j \in 1..i : batches[j] = "paused"
    BY DEF BatchesNest
  <2>3. /\ batches' \in Seq(States) /\ state' \in States
        /\ state' = batches[1] /\ Len(batches') = Len(batches) - 1
        /\ Len(batches) \in Nat \ {0}
        /\ \A i \in 1..Len(batches) - 1 : batches'[i] = batches[i + 1]
    BY <2>1, <2>2
  <2>4. ASSUME NEW i \in 1..Len(batches'), batches'[i] = "paused"
        PROVE  /\ state' = "paused"
               /\ \A j \in 1..i : batches'[j] = "paused"
    <3>1. i + 1 \in 1..Len(batches) /\ batches[i + 1] = "paused"
      BY <2>3, <2>4
    <3>2. \A j \in 1..i + 1 : batches[j] = "paused"
      BY <2>2, <3>1
    <3>3. \A j \in 1..i : /\ j + 1 \in 1..i + 1 /\ j \in 1..Len(batches) - 1
      BY <2>3
    <3>4. 1 \in 1..i + 1
      OBVIOUS
    <3>5. state' = "paused"
      BY <2>3, <3>2, <3>4
    <3>6. ASSUME NEW j \in 1..i PROVE batches'[j] = "paused"
      <4>1. batches[j + 1] = "paused" /\ batches'[j] = batches[j + 1]
        BY <2>3, <3>2, <3>3
      <4> QED BY <4>1
    <3> QED BY <3>5, <3>6
  <2> QED BY <2>3, <2>4 DEF BatchesNest
<1> QED BY <1>1, <1>2, <1>3
    DEF HistoryNext, historyVars, stackVars, States, Change, ChangeByOther, Mark,
        BailToMark, Bail, BailTo, BailToUnknownMark, SquashToMark, Undo, UndoTo,
        Redo, Clear

\* Every step keeps the types.
LEMMA TypedNext ==
    ASSUME StacksTyped, BatchesNest, [HistoryNext]_historyVars
    PROVE  StacksTyped'
<1> DEFINE T == EntryWith(DOMAIN seen)
<1>0. /\ store \in Records /\ pending \in StoreDiff
      /\ undos \in Seq(T) /\ redos \in Seq(T)
      /\ seen = [m \in DOMAIN seen |-> seen[m]] /\ NoMark \in DOMAIN seen
      /\ NoChanges \in StoreDiff /\ state \in States
  BY NoChangesInDiffs DEF StacksTyped, BatchesNest, StoreDiff
<1> SUFFICES ASSUME seen' = seen
             PROVE  /\ store' \in Records /\ pending' \in StoreDiff
                    /\ undos' \in Seq(T) /\ redos' \in Seq(T)
  <2>1. CASE seen' = seen
    BY <1>0, <2>1 DEF StacksTyped
  <2>2. ASSUME NEW id \in MarkIds, Mark(id)
        PROVE  StacksTyped'
    <3> DEFINE more == DOMAIN seen \cup {id}
    <3>1. /\ undos' = <<Stop(id)>> \o Flushed /\ pending' = NoChanges
          /\ seen' = Overlay(seen, [m \in {id} |-> store])
          /\ store' = store /\ redos' = redos
      BY <2>2 DEF Mark
    <3>2. DOMAIN seen' = more /\ seen' = [m \in DOMAIN seen' |-> seen'[m]]
      BY <3>1 DEF Overlay
    <3>3. Flushed \in Seq(T)
      BY FlushedType
    <3>4. DOMAIN seen \subseteq more
      OBVIOUS
    <3>5. Stop(id) \in EntryWith(more)
      BY EntriesMade
    <3> HIDE DEF more
    <3>6. Flushed \in Seq(EntryWith(more)) /\ redos \in Seq(EntryWith(more))
      BY <1>0, <3>3, <3>4, EntryWithMore
    <3>7. undos' \in Seq(EntryWith(more)) /\ redos' \in Seq(EntryWith(more))
      BY <3>1, <3>5, <3>6
    <3> QED BY <1>0, <3>1, <3>2, <3>4, <3>7 DEF StacksTyped
  <2>3. ASSUME Clear
        PROVE  StacksTyped'
    <3>1. /\ undos' = <<>> /\ redos' = <<>> /\ pending' = NoChanges
          /\ seen' = [seen EXCEPT ![NoMark] = store] /\ store' = store
      BY <2>3 DEF Clear
    <3>2. /\ DOMAIN seen' = DOMAIN seen
          /\ seen' = [m \in DOMAIN seen' |-> seen'[m]]
      BY <3>1
    <3> QED BY <1>0, <3>1, <3>2 DEF StacksTyped
  <2> QED BY <2>1, <2>2, <2>3
      DEF HistoryNext, historyVars, stackVars, Change, ChangeByOther, BatchStarts,
          BatchEnds, BailToMark, Bail, BailTo, BailToUnknownMark, SquashToMark,
          Undo, UndoTo, Redo
<1> DEFINE Typed == /\ store' \in Records /\ pending' \in StoreDiff
                    /\ undos' \in Seq(T) /\ redos' \in Seq(T)
<1> SUFFICES Typed
  OBVIOUS
<1>1. ASSUME NEW id \in Ids, NEW value \in Vals \cup {Absent}, Change(id, value)
      PROVE  Typed
  <2> DEFINE diff == Between(store, store')
  <2>1. Put(id, value) /\ Record(diff) /\ undos' = undos
    BY <1>1 DEF Change
  <2>2. store' \in Records /\ diff \in StoreDiff
    BY <2>1, PutType
  <2> HIDE DEF diff
  <2>3. Squash(pending, diff) \in StoreDiff
    BY <1>0, <2>2, SquashInDiffs DEF StoreDiff
  <2>4. /\ pending' = pending \/ pending' = Squash(pending, diff)
        /\ redos' = redos \/ redos' = <<>>
    BY <1>0, <2>1, RecordIs
  <2>5. undos' \in Seq(T) /\ redos' \in Seq(T)
    <3>1. <<>> \in Seq(T)
      OBVIOUS
    <3>2. undos \in Seq(T) /\ redos \in Seq(T)
      BY <1>0
    <3>3. undos' = undos
      BY <2>1
    <3>4. redos' \in Seq(T)
      BY <2>4, <3>1, <3>2
    <3> QED BY <3>2, <3>3, <3>4
  <2> QED BY <1>0, <2>2, <2>3, <2>4, <2>5
<1>2. ASSUME NEW id \in Ids, NEW value \in Vals \cup {Absent},
             ChangeByOther(id, value)
      PROVE  Typed
  <2>1. Put(id, value) /\ UNCHANGED <<pending, undos, redos>>
    BY <1>2 DEF ChangeByOther, stackVars
  <2> QED BY <1>0, <2>1, PutType
<1>3. ASSUME NEW history, BatchStarts(history)
      PROVE  Typed
  BY <1>0, <1>3 DEF BatchStarts, stackVars
<1>4. ASSUME BatchEnds
      PROVE  Typed
  BY <1>0, <1>4 DEF BatchEnds, stackVars
<1>5. ASSUME NEW id \in MarkIds, Mark(id)
      PROVE  Typed
  <2>1. /\ undos' = <<Stop(id)>> \o Flushed /\ pending' = NoChanges
        /\ seen' = Overlay(seen, [m \in {id} |-> store]) /\ id \notin DOMAIN seen
    BY <1>5 DEF Mark
  <2>2. id \in DOMAIN seen'
    BY <2>1 DEF Overlay
  <2> QED BY <2>1, <2>2
<1>6. ASSUME NEW id \in MarkIds, BailToMark(id)
      PROVE  Typed
  BY <1>0, <1>6, UndoToType DEF BailToMark, BailTo
<1>7. ASSUME Bail
      PROVE  Typed
  BY <1>0, <1>7, UndoToType DEF Bail, BailTo
<1>8. ASSUME NEW id \in MarkIds, BailToUnknownMark(id)
      PROVE  Typed
  BY <1>0, <1>8 DEF BailToUnknownMark
<1>9. ASSUME NEW id \in MarkIds, SquashToMark(id)
      PROVE  Typed
  <2> DEFINE above == PoppedToMark(undos, id) - 1
  <2>1. /\ HasMark(undos, id) /\ undos' = <<Diff(Squashed(above))>> \o Rest(undos, above)
        /\ UNCHANGED <<store, pending, redos>>
    BY <1>9 DEF SquashToMark
  <2>2. above \in 0..Len(undos)
    BY <1>0, <2>1, PoppedToMarkIs
  <2> HIDE DEF above
  <2>3. Diff(Squashed(above)) \in T
    BY <2>2, AppliedType, EntriesMade
  <2>4. Rest(undos, above) \in Seq(T)
    BY <1>0, <2>2, RestIs
  <2>5. undos' \in Seq(T)
    <3> HIDE DEF T
    <3> QED BY <2>1, <2>3, <2>4
  <2> QED BY <1>0, <2>1, <2>5
<1>10. ASSUME Undo
       PROVE  Typed
  <2>1. UndoTo(NoMark) /\ redos' = RedosAfterUndo(Popped(NoMark))
    BY <1>10 DEF Undo
  <2>2. Popped(NoMark) \in 0..Len(undos)
    BY PoppedIs
  <2> QED BY <2>1, <2>2, UndoToType, RedosBelowType
<1>11. ASSUME Redo
       PROVE  Typed
  <2> DEFINE n == RedoPopped(redos)
  <2>1. /\ store' = ApplyChanges(store, RedoneBy(n)) /\ pending' = NoChanges
        /\ undos' = Reverse(Top(redos, n)) \o Flushed /\ redos' = Rest(redos, n)
    BY <1>11 DEF Redo, DiffToRedo, RedoneBy
  <2>2. n \in 0..Len(redos)
    BY RedoPoppedIs
  <2> HIDE DEF n
  <2>3. Flushed \in Seq(T)
    BY FlushedType
  <2>4. Reverse(Top(redos, n)) \o Flushed \in Seq(T) /\ Rest(redos, n) \in Seq(T)
    BY <1>0, <2>2, <2>3, MovedType, RestIs
  <2> QED BY <1>0, <2>1, <2>2, <2>4, AppliedType
<1>12. ASSUME Clear
       PROVE  Typed
  BY <1>0, <1>12 DEF Clear
<1>13. CASE UNCHANGED historyVars
  BY <1>0, <1>13 DEF historyVars
<1> HIDE DEF Typed, T
<1>14. CASE HistoryNext
  <2>1. CASE \E id \in Ids, value \in Vals \cup {Absent} :
                Change(id, value) \/ ChangeByOther(id, value)
    BY <1>1, <1>2, <2>1
  <2>2. CASE \E history \in {"recording", "recordingPreserveRedoStack", "paused"} :
               BatchStarts(history)
    BY <1>3, <2>2
  <2>3. CASE \E id \in MarkIds :
               \/ Mark(id) \/ BailToMark(id) \/ BailToUnknownMark(id)
               \/ SquashToMark(id)
    BY <1>5, <1>6, <1>8, <1>9, <2>3
  <2> QED BY <1>4, <1>7, <1>10, <1>11, <1>12, <1>14, <2>1, <2>2, <2>3
          DEF HistoryNext
<1> QED BY <1>13, <1>14 DEF Typed

-----------------------------------------------------------------------------
(***************************************************************************)
(* Every step keeps the chains, of the records that are exact after it.    *)
(***************************************************************************)
\* An empty stack goes nowhere.
LEMMA EmptyReaches ==
    ASSUME NEW forth, NEW id, NEW saw, NEW x
    PROVE  Reaches(forth, id, <<>>, saw, x, x)
<1> DEFINE p == [n \in {0} |-> x]
<1>1. p[0] = x /\ Len(<<>>) = 0
  OBVIOUS
<1> HIDE DEF p
<1>2. Chained(forth, id, <<>>, saw, p)
  BY <1>1 DEF Chained
<1> QED BY <1>1, <1>2 DEF Reaches

\* A record that is as it was when the stack began can be undone as far.
LEMMA NowUndoable ==
    ASSUME NEW id, NEW value, NEW stack, NEW saw,
           Reaches(FALSE, id, stack, saw, value, saw[NoMark][id])
    PROVE  Undoable(id, value, NoChanges, stack, saw)
<1>1. Leads(id, value, NoChanges, value)
  BY NoChangesLead
<1> QED BY <1>1 DEF Undoable

\* Undoing and redoing, step by step.
LEMMA UndoChainIs ==
    ASSUME NEW id, UndoChain(id)
    PROVE  \E p : /\ Chained(FALSE, id, undos, seen, p)
                  /\ Leads(id, p[0], pending, store[id])
                  /\ p[Len(undos)] = seen[NoMark][id]
BY DEF UndoChain, Undoable, Reaches

\* The chain of the redos of a record, from the value that it has now.
LEMMA RedoChainIs ==
    ASSUME NEW id, RedoChain(id)
    PROVE  \E p : Chained(TRUE, id, redos, seen, p) /\ p[0] = store[id]
BY DEF RedoChain, Redoable, Reaches

\* What is pending becomes an entry.
LEMMA FlushedReaches ==
    ASSUME NEW id, StacksTyped, UndoChain(id)
    PROVE  Reaches(FALSE, id, Flushed, seen, store[id], seen[NoMark][id])
<1> DEFINE z == seen[NoMark][id]
<1>1. PICK x : /\ Leads(id, x, pending, store[id])
               /\ Reaches(FALSE, id, undos, seen, x, z)
  BY DEF UndoChain, Undoable
<1> HIDE DEF z
<1>2. CASE Touched(pending) = {}
  <2>1. x = store[id]
    BY <1>1, <1>2, UntouchedLeads
  <2> QED BY <1>1, <1>2, <2>1 DEF Flushed, z
<1>3. CASE Touched(pending) # {}
  <2> DEFINE entry == Diff(pending)
             y == store[id]
  <2>1. /\ undos \in Seq(Entry)
        /\ entry \in EntryWith(DOMAIN seen) /\ ~IsStop(entry)
        /\ entry.diff = pending
    BY EntriesAre, EntriesMade DEF StacksTyped
  <2>2. entry \in Entry
    BY <2>1 DEF EntryWith
  <2>3. Passes(FALSE, id, y, entry, x, seen)
    BY <1>1, <2>1 DEF Passes, Goes
  <2> HIDE DEF entry, y
  <2>4. Reaches(FALSE, id, <<entry>> \o undos, seen, y, z)
    BY <1>1, <2>1, <2>2, <2>3, PushChain
  <2> QED BY <1>3, <2>4 DEF Flushed, entry, y, z
<1> QED BY <1>2, <1>3

\* Marks that are not in the stack do not matter.
LEMMA SawReaches ==
    ASSUME NEW forth, NEW id, NEW stack, NEW saw, NEW now, NEW x, NEW y,
           NEW marks, stack \in Seq(EntryWith(marks)),
           \A m \in marks : now[m] = saw[m],
           Reaches(forth, id, stack, saw, x, y)
    PROVE  Reaches(forth, id, stack, now, x, y)
<1>1. PICK p : /\ p[0] = x /\ p[Len(stack)] = y
               /\ Chained(forth, id, stack, saw, p)
  BY DEF Reaches
<1>2. ASSUME NEW n \in 1..Len(stack)
      PROVE  Passes(forth, id, p[n - 1], stack[n], p[n], now)
  <2>1. IsStop(stack[n]) => stack[n].id \in marks
    BY DEF EntryWith
  <2>2. Passes(forth, id, p[n - 1], stack[n], p[n], saw)
    BY <1>1 DEF Chained
  <2> QED BY <2>1, <2>2 DEF Passes
<1>3. Chained(forth, id, stack, now, p)
  BY <1>2 DEF Chained
<1> QED BY <1>1, <1>3 DEF Reaches

\* In the beginning nothing can be undone or redone.
LEMMA ChainsInit ==
    ASSUME HistoryInit
    PROVE  Chains
<1> SUFFICES ASSUME NEW id \in Ids PROVE UndoChain(id) /\ RedoChain(id)
  BY DEF Chains
<1>1. /\ pending = NoChanges /\ undos = <<>> /\ redos = <<>>
      /\ seen[NoMark] = store
  BY DEF HistoryInit
<1>2. Reaches(FALSE, id, undos, seen, store[id], seen[NoMark][id])
  BY <1>1, EmptyReaches
<1>3. Undoable(id, store[id], pending, undos, seen)
  BY <1>1, <1>2, NowUndoable
<1>4. Reaches(TRUE, id, redos, seen, store[id], store[id])
  BY <1>1, EmptyReaches
<1> QED BY <1>3, <1>4 DEF UndoChain, RedoChain, Redoable

\* A change of the user.
LEMMA ChangeChains ==
    ASSUME StacksTyped, BatchesNest, Chains, NEW id \in Ids,
           NEW value \in Vals \cup {Absent}, Change(id, value)
    PROVE  Chains'
<1> DEFINE diff == Between(store, store')
<1>1. /\ Put(id, value) /\ Record(diff) /\ undos' = undos /\ seen' = seen
      /\ inexact' = IF \/ state = "paused"
                       \/ state = "recordingPreserveRedoStack" /\ redos # <<>>
                      THEN inexact \cup {id} ELSE inexact
  BY DEF Change
<1>2. /\ store' = [store EXCEPT ![id] = value]
      /\ DOMAIN store' = Ids /\ DOMAIN store = Ids
  BY <1>1, PutType
<1>3. /\ \/ pending' = Squash(pending, diff)
         \/ pending' = pending /\ inexact' = inexact \cup {id}
      /\ \/ redos' = <<>>
         \/ redos' = redos /\ inexact' = inexact \cup {id}
  <2>1. state \in States
    BY DEF BatchesNest
  <2> HIDE DEF diff
  <2> QED BY <1>1, <2>1, RecordIs
<1>4. ASSUME NEW i \in Ids \ inexact'
      PROVE  /\ Undoable(i, store'[i], pending', undos', seen')
             /\ Redoable(i, store'[i], redos', seen')
  <2>1. i \in Ids \ inexact
    BY <1>1, <1>4
  <2>2. UndoChain(i) /\ RedoChain(i)
    BY <2>1 DEF Chains
  <2>3. Leads(i, store[i], diff, store'[i])
    BY <1>2, BetweenAtLeads
  <2> HIDE DEF diff
  <2>4. inexact' = inexact \cup {id} => store'[i] = store[i]
    BY <1>2, <1>4
  <2>5. PICK x : /\ Leads(i, x, pending, store[i])
                 /\ Reaches(FALSE, i, undos, seen, x, seen[NoMark][i])
    BY <2>2 DEF UndoChain, Undoable
  <2>6. Leads(i, x, pending', store'[i])
    BY <1>3, <2>3, <2>4, <2>5, SquashLeads
  <2>7. Undoable(i, store'[i], pending', undos', seen')
    BY <1>1, <2>5, <2>6 DEF Undoable
  <2>8. Redoable(i, store'[i], redos', seen')
    <3>1. CASE redos' = <<>>
      <4>1. Reaches(TRUE, i, <<>>, seen', store'[i], store'[i])
        BY EmptyReaches
      <4> QED BY <3>1, <4>1 DEF Redoable
    <3>2. CASE redos' = redos /\ store'[i] = store[i]
      BY <1>1, <2>2, <3>2 DEF RedoChain
    <3> QED BY <1>3, <2>4, <3>1, <3>2
  <2> QED BY <2>7, <2>8
<1> QED BY <1>4 DEF Chains, UndoChain, RedoChain

\* A change of somebody else.
LEMMA ChangeByOtherChains ==
    ASSUME StacksTyped, Chains, NEW id \in Ids,
           NEW value \in Vals \cup {Absent}, ChangeByOther(id, value)
    PROVE  Chains'
<1>1. /\ Put(id, value) /\ UNCHANGED <<pending, undos, redos, seen>>
      /\ inexact' = inexact \cup {id}
  BY DEF ChangeByOther, stackVars
<1>2. store' = [store EXCEPT ![id] = value]
  BY <1>1, PutType
<1>3. ASSUME NEW i \in Ids \ inexact'
      PROVE  /\ Undoable(i, store'[i], pending', undos', seen')
             /\ Redoable(i, store'[i], redos', seen')
  <2>1. UndoChain(i) /\ RedoChain(i)
    BY <1>1, <1>3 DEF Chains
  <2>2. store'[i] = store[i]
    BY <1>1, <1>2, <1>3
  <2> QED BY <1>1, <2>1, <2>2 DEF UndoChain, RedoChain
<1> QED BY <1>3 DEF Chains, UndoChain, RedoChain

\* A mark.
LEMMA MarkChains ==
    ASSUME StacksTyped, Chains, NEW id \in MarkIds, Mark(id)
    PROVE  Chains'
<1> DEFINE T == EntryWith(DOMAIN seen)
<1>1. /\ undos' = <<Stop(id)>> \o Flushed /\ pending' = NoChanges
      /\ seen' = Overlay(seen, [m \in {id} |-> store]) /\ id \notin DOMAIN seen
      /\ store' = store /\ redos' = redos /\ inexact' = inexact
  BY DEF Mark
<1>2. /\ seen'[id] = store /\ \A m \in DOMAIN seen : seen'[m] = seen[m]
      /\ NoMark \in DOMAIN seen /\ redos \in Seq(T) /\ Flushed \in Seq(T)
  BY <1>1, FlushedType DEF Overlay, StacksTyped
<1> HIDE DEF T
<1>3. ASSUME NEW i \in Ids \ inexact'
      PROVE  /\ Undoable(i, store'[i], pending', undos', seen')
             /\ Redoable(i, store'[i], redos', seen')
  <2> DEFINE y == store[i]
             z == seen[NoMark][i]
             stop == Stop(id)
             saw == seen'
  <2>1. UndoChain(i) /\ RedoChain(i)
    BY <1>1, <1>3 DEF Chains
  <2>2. Reaches(FALSE, i, Flushed, seen, y, z)
    BY <2>1, FlushedReaches
  <2>3. Reaches(FALSE, i, Flushed, saw, y, z)
    BY <1>2, <2>2, SawReaches DEF T
  <2>4. stop \in Entry /\ Passes(FALSE, i, y, stop, y, saw)
    BY <1>2 DEF Entry, Stop, IsStop, Passes
  <2>5. Flushed \in Seq(Entry)
    BY <1>2, EntriesAre DEF T
  <2>6. Reaches(FALSE, i, <<stop>> \o Flushed, saw, y, z)
    <3> HIDE DEF stop, y, z, saw
    <3> QED BY <2>3, <2>4, <2>5, PushChain
  <2>7. Undoable(i, store'[i], pending', undos', seen')
    BY <1>1, <1>2, <2>6, NowUndoable
  <2>8. PICK end : Reaches(TRUE, i, redos, seen, y, end)
    BY <2>1 DEF RedoChain, Redoable
  <2>9. Reaches(TRUE, i, redos, saw, y, end)
    BY <1>2, <2>8, SawReaches DEF T
  <2> QED BY <1>1, <2>7, <2>9 DEF Redoable
<1> QED BY <1>3 DEF Chains, UndoChain, RedoChain

\* What undoing leaves, to a mark or to a stop.
LEMMA UndoToLeaves ==
    ASSUME StacksTyped, NEW toMark, UndoTo(toMark),
           toMark = NoMark \/ HasMark(undos, toMark),
           NEW id \in Ids, UndoChain(id)
    PROVE  /\ Undoable(id, store'[id], pending', undos', seen')
           /\ \E p : /\ Chained(FALSE, id, undos, seen, p)
                     /\ Leads(id, p[0], pending, store[id])
                     /\ store'[id] = p[Popped(toMark)]
           /\ id \notin Touched(DiffToUndo(Popped(toMark))) =>
                store'[id] = store[id]
<1> DEFINE n == Popped(toMark)
           diff == DiffToUndo(n)
<1>1. n \in 0..Len(undos)
  BY PoppedIs
<1>2. /\ store' = ApplyChanges(store, diff)
      /\ undos' = Rest(undos, n) /\ pending' = NoChanges /\ seen' = seen
  BY DEF UndoTo
<1> HIDE DEF n
<1>3. undos \in Seq(Entry) /\ DOMAIN store = Ids
  BY EntriesAre DEF StacksTyped, Records
<1>4. PICK p : /\ Chained(FALSE, id, undos, seen, p)
               /\ Leads(id, p[0], pending, store[id])
               /\ p[Len(undos)] = seen[NoMark][id]
  BY UndoChainIs
<1>5. Leads(id, store[id], diff, p[n])
  BY <1>1, <1>4, UndoLeads
<1> HIDE DEF diff
<1>6. store'[id] = p[n]
  BY <1>2, <1>3, <1>5, ApplyLeads
<1>7. Reaches(FALSE, id, Rest(undos, n), seen, p[n], p[Len(undos)])
  BY <1>1, <1>3, <1>4, DropChain
<1>8. Undoable(id, p[n], NoChanges, Rest(undos, n), seen)
  <2> DEFINE x == p[n]
  <2>1. Reaches(FALSE, id, Rest(undos, n), seen, x, seen[NoMark][id])
    BY <1>4, <1>7
  <2> HIDE DEF x
  <2>2. Undoable(id, x, NoChanges, Rest(undos, n), seen)
    BY <2>1, NowUndoable
  <2> QED BY <2>2 DEF x
<1>9. id \notin Touched(diff) => store'[id] = store[id]
  BY <1>5, <1>6, UntouchedLeads
<1> QED BY <1>2, <1>4, <1>6, <1>8, <1>9 DEF n, diff

\* An undo.
LEMMA UndoChains ==
    ASSUME StacksTyped, Chains, Undo
    PROVE  Chains'
<1> DEFINE n == Popped(NoMark)
<1>1. /\ UndoTo(NoMark) /\ redos' = RedosAfterUndo(n) /\ seen' = seen
      /\ inexact' = inexact \cup Overwritten(n)
  BY DEF Undo, UndoTo
<1>2. n \in 0..Len(undos)
  BY PoppedIs
<1>3. /\ undos \in Seq(Entry) /\ redos \in Seq(Entry) /\ RedosBelow(n) \in Seq(Entry)
      /\ redos' = Reverse(Top(undos, n)) \o RedosBelow(n)
  <2> HIDE DEF n
  <2>1. redos' = Reverse(Top(undos, n)) \o RedosBelow(n)
    BY <1>1, <1>2, RedosBelowType
  <2>2. RedosBelow(n) \in Seq(Entry)
    BY <1>2, RedosBelowType, EntriesAre
  <2> QED BY <2>1, <2>2, EntriesAre DEF StacksTyped
<1>4. ASSUME NEW i \in Ids \ inexact'
      PROVE  /\ Undoable(i, store'[i], pending', undos', seen')
             /\ Redoable(i, store'[i], redos', seen')
  <2>1. UndoChain(i) /\ RedoChain(i)
    BY <1>1, <1>4 DEF Chains
  <2>2. PICK p : /\ Chained(FALSE, i, undos, seen, p)
                 /\ Leads(i, p[0], pending, store[i])
                 /\ store'[i] = p[n]
    BY <1>1, <2>1, UndoToLeaves
  <2>3. Undoable(i, store'[i], pending', undos', seen')
    BY <1>1, <2>1, UndoToLeaves
  <2> HIDE DEF n
  <2>4. PICK end : Reaches(TRUE, i, redos, seen, store[i], end)
    BY <2>1 DEF RedoChain, Redoable
  <2>5. Reaches(TRUE, i, RedosBelow(n), seen, p[0], end)
    <3> DEFINE y == p[0]
               x == store[i]
               entry == Diff(PendingOnRedos(n))
    <3>1. CASE Touched(pending) = {}
      <4>1. y = x
        BY <2>2, <3>1, UntouchedLeads
      <4>2. RedosBelow(n) = redos
        BY <1>3, <3>1 DEF RedosBelow, Kept
      <4> QED BY <2>4, <4>1, <4>2
    <3>2. CASE Touched(pending) # {}
      <4>1. /\ entry \in Entry /\ ~IsStop(entry)
            /\ entry.diff = PendingOnRedos(n)
        BY <1>2, PendingOnRedosType, EntriesMade DEF EntryWith
      <4>2. Leads(i, y, PendingOnRedos(n), x)
        BY <1>1, <1>4, <2>2, <3>2, PendingOnRedosLeads
      <4>5. Passes(TRUE, i, y, entry, x, seen)
        BY <4>1, <4>2 DEF Passes, Goes
      <4>3. Reaches(TRUE, i, redos, seen, x, end)
        BY <2>4
      <4> HIDE DEF y, x, entry
      <4>4. Reaches(TRUE, i, <<entry>> \o redos, seen, y, end)
        BY <1>3, <4>1, <4>3, <4>5, PushChain
      <4> QED BY <3>2, <4>4 DEF RedosBelow, Kept, entry, y
    <3> QED BY <3>1, <3>2
  <2>6. Reaches(TRUE, i, Reverse(Top(undos, n)) \o RedosBelow(n), seen, p[n], end)
    BY <1>2, <1>3, <2>2, <2>5, UndoRedoOpposite, MoveChain
  <2>7. Reaches(TRUE, i, redos', seen', store'[i], end)
    BY <1>1, <1>3, <2>2, <2>6
  <2> QED BY <2>3, <2>7 DEF Redoable
<1> QED BY <1>4 DEF Chains, UndoChain, RedoChain

\* A bail, to a mark or to a stop.
LEMMA BailChains ==
    ASSUME StacksTyped, Chains, NEW toMark, BailTo(toMark),
           toMark = NoMark \/ HasMark(undos, toMark)
    PROVE  Chains'
<1> DEFINE diff == DiffToUndo(Popped(toMark))
<1>1. /\ UndoTo(toMark) /\ redos' = redos /\ seen' = seen
      /\ inexact' = IF redos = <<>> THEN inexact ELSE inexact \cup Touched(diff)
  BY DEF BailTo, UndoTo
<1>2. ASSUME NEW i \in Ids \ inexact'
      PROVE  /\ Undoable(i, store'[i], pending', undos', seen')
             /\ Redoable(i, store'[i], redos', seen')
  <2>1. UndoChain(i) /\ RedoChain(i)
    BY <1>1, <1>2 DEF Chains
  <2>2. /\ Undoable(i, store'[i], pending', undos', seen')
        /\ i \notin Touched(diff) => store'[i] = store[i]
    BY <1>1, <2>1, UndoToLeaves
  <2> HIDE DEF diff
  <2>3. CASE redos = <<>>
    <3>1. Reaches(TRUE, i, <<>>, seen, store'[i], store'[i])
      BY EmptyReaches
    <3> QED BY <1>1, <2>2, <2>3, <3>1 DEF Redoable
  <2>4. CASE redos # <<>>
    <3>1. store'[i] = store[i]
      BY <1>1, <1>2, <2>2, <2>4
    <3> QED BY <1>1, <2>1, <2>2, <3>1 DEF RedoChain
  <2> QED BY <2>3, <2>4
<1> QED BY <1>2 DEF Chains, UndoChain, RedoChain

\* A bail to a mark that is not there.
LEMMA BailToUnknownChains ==
    ASSUME Chains, NEW id, BailToUnknownMark(id)
    PROVE  Chains'
<1>1. /\ pending' = NoChanges /\ inexact' = inexact \cup Touched(pending)
      /\ UNCHANGED <<store, undos, redos, seen>>
  BY DEF BailToUnknownMark
<1>2. ASSUME NEW i \in Ids \ inexact'
      PROVE  /\ Undoable(i, store'[i], pending', undos', seen')
             /\ Redoable(i, store'[i], redos', seen')
  <2>1. UndoChain(i) /\ RedoChain(i) /\ i \notin Touched(pending)
    BY <1>1, <1>2 DEF Chains
  <2>2. Reaches(FALSE, i, undos, seen, store[i], seen[NoMark][i])
    <3>1. PICK x : /\ Leads(i, x, pending, store[i])
                   /\ Reaches(FALSE, i, undos, seen, x, seen[NoMark][i])
      BY <2>1 DEF UndoChain, Undoable
    <3>2. x = store[i]
      BY <2>1, <3>1, UntouchedLeads
    <3> QED BY <3>1, <3>2
  <2>3. Undoable(i, store[i], NoChanges, undos, seen)
    BY <2>2, NowUndoable
  <2> QED BY <1>1, <2>1, <2>3 DEF RedoChain
<1> QED BY <1>2 DEF Chains, UndoChain, RedoChain

\* A redo.
LEMMA RedoChains ==
    ASSUME StacksTyped, Chains, Redo
    PROVE  Chains'
<1> DEFINE n == RedoPopped(redos)
           diff == RedoneBy(n)
<1>1. /\ store' = ApplyChanges(store, diff) /\ pending' = NoChanges
      /\ undos' = Reverse(Top(redos, n)) \o Flushed /\ redos' = Rest(redos, n)
      /\ seen' = seen /\ inexact' = inexact
  BY DEF Redo, DiffToRedo, RedoneBy
<1>2. n \in 0..Len(redos)
  BY RedoPoppedIs
<1> HIDE DEF n
<1>3. /\ redos \in Seq(Entry) /\ Flushed \in Seq(Entry) /\ DOMAIN store = Ids
  BY FlushedType, EntriesAre DEF StacksTyped, Records
<1>4. ASSUME NEW i \in Ids \ inexact'
      PROVE  /\ Undoable(i, store'[i], pending', undos', seen')
             /\ Redoable(i, store'[i], redos', seen')
  <2> DEFINE z == seen[NoMark][i]
  <2>1. UndoChain(i) /\ RedoChain(i)
    BY <1>1, <1>4 DEF Chains
  <2>2. PICK p : Chained(TRUE, i, redos, seen, p) /\ p[0] = store[i]
    BY <2>1, RedoChainIs
  <2>3. Leads(i, p[0], diff, p[n])
    BY <1>2, <2>2, RedoLeads
  <2> HIDE DEF diff
  <2>4. store'[i] = p[n]
    BY <1>1, <1>3, <2>2, <2>3, ApplyLeads
  <2>5. Reaches(FALSE, i, Flushed, seen, p[0], z)
    BY <2>1, <2>2, FlushedReaches
  <2> HIDE DEF z
  <2>6. Reaches(FALSE, i, Reverse(Top(redos, n)) \o Flushed, seen, p[n], z)
    BY <1>2, <1>3, <2>2, <2>5, UndoRedoOpposite, MoveChain
  <2>7. Reaches(FALSE, i, undos', seen', store'[i], seen'[NoMark][i])
    BY <1>1, <2>4, <2>6 DEF z
  <2>8. Undoable(i, store'[i], pending', undos', seen')
    BY <1>1, <2>7, NowUndoable
  <2>9. Reaches(TRUE, i, Rest(redos, n), seen, p[n], p[Len(redos)])
    BY <1>2, <1>3, <2>2, DropChain
  <2> QED BY <1>1, <2>4, <2>8, <2>9 DEF Redoable
<1> QED BY <1>4 DEF Chains, UndoChain, RedoChain

\* The diffs above a mark become one.
LEMMA SquashToMarkChains ==
    ASSUME StacksTyped, Chains, NEW id, SquashToMark(id)
    PROVE  Chains'
<1> DEFINE n == PoppedToMark(undos, id) - 1
           diff == Squashed(n)
<1>1. /\ HasMark(undos, id) /\ undos' = <<Diff(diff)>> \o Rest(undos, n)
      /\ UNCHANGED <<store, pending, redos, seen, inexact>>
  BY DEF SquashToMark
<1>2. undos \in Seq(Entry)
  BY EntriesAre DEF StacksTyped
<1>3. n \in 0..Len(undos)
  BY <1>1, <1>2, PoppedToMarkIs
<1> HIDE DEF n
<1>4. Rest(undos, n) \in Seq(Entry)
  BY <1>2, <1>3, RestIs
<1>5. Diff(diff) \in Entry /\ ~IsStop(Diff(diff)) /\ Diff(diff).diff = diff
  BY <1>3, AppliedType, EntriesMade DEF EntryWith
<1>6. ASSUME NEW i \in Ids \ inexact'
      PROVE  /\ Undoable(i, store'[i], pending', undos', seen')
             /\ Redoable(i, store'[i], redos', seen')
  <2>1. UndoChain(i) /\ RedoChain(i)
    BY <1>1, <1>6 DEF Chains
  <2>2. PICK p : /\ Chained(FALSE, i, undos, seen, p)
                 /\ Leads(i, p[0], pending, store[i])
                 /\ p[Len(undos)] = seen[NoMark][i]
    BY <2>1, UndoChainIs
  <2> DEFINE x == p[n]
             y == p[0]
             z == seen[NoMark][i]
             entry == Diff(diff)
             rest == Rest(undos, n)
  <2>3. Reaches(FALSE, i, rest, seen, x, z)
    BY <1>2, <1>3, <2>2, DropChain
  <2>4. Leads(i, x, diff, y)
    BY <1>3, <2>2, SquashedLeads
  <2> HIDE DEF diff
  <2>5. Passes(FALSE, i, y, entry, x, seen)
    BY <1>5, <2>4 DEF Passes, Goes
  <2>6. rest \in Seq(Entry) /\ entry \in Entry
    BY <1>4, <1>5
  <2>7. undos' = <<entry>> \o rest
    BY <1>1
  <2> HIDE DEF x, y, z, entry, rest
  <2>8. Reaches(FALSE, i, <<entry>> \o rest, seen, y, z)
    BY <2>3, <2>5, <2>6, PushChain
  <2>9. Undoable(i, store[i], pending, undos', seen)
    BY <2>2, <2>7, <2>8 DEF Undoable, y, z
  <2> QED BY <1>1, <2>1, <2>9 DEF RedoChain
<1> QED BY <1>6 DEF Chains, UndoChain, RedoChain

\* History begins anew.
LEMMA ClearChains ==
    ASSUME StacksTyped, Clear
    PROVE  Chains'
<1>1. /\ undos' = <<>> /\ redos' = <<>> /\ pending' = NoChanges
      /\ seen' = [seen EXCEPT ![NoMark] = store] /\ store' = store
      /\ NoMark \in DOMAIN seen
  BY DEF Clear, StacksTyped
<1>2. ASSUME NEW i
      PROVE  /\ Undoable(i, store'[i], pending', undos', seen')
             /\ Redoable(i, store'[i], redos', seen')
  <2>1. seen'[NoMark][i] = store'[i]
    BY <1>1
  <2>2. Reaches(FALSE, i, undos', seen', store'[i], seen'[NoMark][i])
    BY <1>1, <2>1, EmptyReaches
  <2>3. Reaches(TRUE, i, redos', seen', store'[i], store'[i])
    BY <1>1, EmptyReaches
  <2>4. Undoable(i, store'[i], pending', undos', seen')
    BY <1>1, <2>2, NowUndoable
  <2> QED BY <2>3, <2>4 DEF Redoable
<1> QED BY <1>2 DEF Chains, UndoChain, RedoChain

\* Every step.
LEMMA ChainsNext ==
    ASSUME StacksTyped, BatchesNest, Chains, [HistoryNext]_historyVars
    PROVE  Chains'
<1>1. CASE UNCHANGED <<store, pending, undos, redos, seen, inexact>>
  BY <1>1 DEF Chains, UndoChain, RedoChain
<1>2. CASE \E id \in Ids, value \in Vals \cup {Absent} :
              Change(id, value) \/ ChangeByOther(id, value)
  BY <1>2, ChangeChains, ChangeByOtherChains
<1>3. CASE \E id \in MarkIds :
             \/ Mark(id) \/ BailToMark(id) \/ BailToUnknownMark(id)
             \/ SquashToMark(id)
  BY <1>3, MarkChains, BailChains, BailToUnknownChains, SquashToMarkChains
  DEF BailToMark
<1>4. CASE Undo \/ Bail \/ Redo \/ Clear
  BY <1>4, UndoChains, BailChains, RedoChains, ClearChains DEF Bail
<1> QED BY <1>1, <1>2, <1>3, <1>4
        DEF HistoryNext, historyVars, stackVars, BatchStarts, BatchEnds

-----------------------------------------------------------------------------
(***************************************************************************)
(* The theorems.                                                           *)
(***************************************************************************)
\* The inductive invariant: the stacks hold what leads from the records as they
\* are back to every mark, and on again.
THEOREM HistoryInvCorrect == HistorySpec => []HistoryInv
<1>1. HistoryInit => HistoryInv
  BY TypedInit, ChainsInit DEF HistoryInv
<1>2. HistoryInv /\ [HistoryNext]_historyVars => HistoryInv'
  BY BatchesNext, TypedNext, ChainsNext DEF HistoryInv
<1> QED BY <1>1, <1>2, PTL DEF HistorySpec

\* A diff that leads somewhere says one thing about a record.
LEMMA LeadsOnce ==
    ASSUME NEW id, NEW x, NEW d, NEW y, Leads(id, x, d, y)
    PROVE  /\ id \notin DOMAIN d.added \cap DOMAIN d.updated
           /\ id \notin DOMAIN d.added \cap DOMAIN d.removed
           /\ id \notin DOMAIN d.updated \cap DOMAIN d.removed
BY DEF Leads, Adds, Updates, Removes, Touched

\* The diff of an entry says one thing about a record.
LEMMA ChainedOnce ==
    ASSUME NEW forth, NEW id, NEW stack \in Seq(Entry), NEW saw, NEW p,
           Chained(forth, id, stack, saw, p), NEW n \in 1..Len(stack),
           IsDiff(stack[n])
    PROVE  /\ id \notin DOMAIN stack[n].diff.added \cap DOMAIN stack[n].diff.updated
           /\ id \notin DOMAIN stack[n].diff.added \cap DOMAIN stack[n].diff.removed
           /\ id \notin DOMAIN stack[n].diff.updated
                          \cap DOMAIN stack[n].diff.removed
<1>1. ~IsStop(stack[n])
  BY DEF IsStop, IsDiff
<1>2. Goes(forth, id, p[n - 1], stack[n].diff, p[n])
  BY <1>1 DEF Chained, Passes
<1> QED BY <1>2, LeadsOnce DEF Goes

\* Types; and a diff adds, updates or removes a record, but one of them, unless
\* it was changed past the history: squashRecordDiffsMutable keeps the three
\* parts of its target apart.
THEOREM HistoryTypeCorrect == HistorySpec => []HistoryTypeOK
<1>1. HistoryInv => HistoryTypeOK
  <2> SUFFICES ASSUME HistoryInv PROVE HistoryTypeOK
    OBVIOUS
  <2> DEFINE Once(diff, id) ==
               /\ id \notin DOMAIN diff.added \cap DOMAIN diff.updated
               /\ id \notin DOMAIN diff.added \cap DOMAIN diff.removed
               /\ id \notin DOMAIN diff.updated \cap DOMAIN diff.removed
  <2>1. /\ undos \in Seq(Entry) /\ redos \in Seq(Entry)
        /\ pending \in StoreDiff /\ store \in Records
    BY EntriesAre DEF HistoryInv, StacksTyped
  <2>2. ASSUME NEW entry \in Entry PROVE IsEntry(entry)
    <3>1. CASE entry \in [type : {"stop"}, id : MarkIds]
      BY <3>1 DEF IsEntry, IsStop
    <3>2. CASE entry \in [type : {"diff"}, diff : StoreDiff]
      BY <3>2, DiffAt DEF IsEntry, IsDiff
    <3> QED BY <3>1, <3>2 DEF Entry
  <2>3. \A stack \in {undos, redos} : \A i \in 1..Len(stack) : IsEntry(stack[i])
    BY <2>1, <2>2
  <2>4. \A i \in 1..Len(batches) : batches[i] = "paused" => state = "paused"
    BY DEF HistoryInv, BatchesNest
  <2>5. undos \o redos \in Seq(Entry)
    BY <2>1
  <2>6. ASSUME NEW diff \in {pending} \cup Range(DiffsOf(undos \o redos))
        PROVE  /\ \A id \in Ids \ inexact : Once(diff, id)
               /\ Touched(diff) \subseteq Ids
    <3>1. CASE diff = pending
      <4>1. ASSUME NEW id \in Ids \ inexact PROVE Once(diff, id)
        <5>1. PICK p : Leads(id, p[0], pending, store[id])
          BY UndoChainIs DEF HistoryInv, Chains
        <5> QED BY <3>1, <5>1, LeadsOnce
      <4> QED BY <2>1, <3>1, <4>1, DiffAt
    <3>2. CASE diff # pending
      <4> DEFINE all == undos \o redos
                 ds == DiffsOf(all)
      <4>1. /\ Top(all, Len(all)) = all /\ Len(all) \in 0..Len(all)
            /\ all \in Seq(Entry)
        <5>1. all \in Seq(Entry)
          BY <2>5
        <5> HIDE DEF all
        <5>2. Top(all, Len(all)) = all
          BY <5>1, TopNext
        <5> QED BY <5>1, <5>2
      <4>2. ds \in Seq(StoreDiff)
        <5> HIDE DEF all
        <5>1. DiffsOf(Top(all, Len(all))) \in Seq(StoreDiff)
          BY <4>1, DiffsOfNext
        <5> QED BY <4>1, <5>1
      <4>3. PICK i \in 1..Len(ds) : diff = ds[i]
        <5>1. diff \in Range(ds)
          BY <3>2
        <5> HIDE DEF ds
        <5>2. DOMAIN ds = 1..Len(ds)
          BY <4>2
        <5> QED BY <5>1, <5>2 DEF Range
      <4>4. PICK n \in 1..Len(all) : IsDiff(all[n]) /\ diff = all[n].diff
        <5> HIDE DEF all
        <5> QED BY <4>1, <4>3, DiffsOfFrom
      <4>5. \/ n \in 1..Len(undos) /\ all[n] = undos[n]
            \/ n - Len(undos) \in 1..Len(redos) /\ all[n] = redos[n - Len(undos)]
        BY <2>1
      <4>6. diff \in StoreDiff
        BY <4>2, <4>3
      <4> HIDE DEF all, ds
      <4>7. ASSUME NEW id \in Ids \ inexact PROVE Once(diff, id)
        <5>1. UndoChain(id) /\ RedoChain(id)
          BY DEF HistoryInv, Chains
        <5>2. PICK p : Chained(FALSE, id, undos, seen, p)
          BY <5>1, UndoChainIs
        <5>3. PICK q : Chained(TRUE, id, redos, seen, q)
          BY <5>1, RedoChainIs
        <5>4. CASE n \in 1..Len(undos) /\ all[n] = undos[n]
          BY <2>1, <4>4, <5>2, <5>4, ChainedOnce
        <5>5. CASE /\ n - Len(undos) \in 1..Len(redos)
                   /\ all[n] = redos[n - Len(undos)]
          BY <2>1, <4>4, <5>3, <5>5, ChainedOnce
        <5> QED BY <4>5, <5>4, <5>5
      <4> QED BY <4>6, <4>7, DiffAt
    <3> QED BY <3>1, <3>2
  <2>7. ASSUME NEW diff \in {pending} \cup Range(DiffsOf(undos \o redos))
        PROVE  /\ DOMAIN diff.added \cap DOMAIN diff.updated \subseteq inexact
               /\ DOMAIN diff.added \cap DOMAIN diff.removed \subseteq inexact
               /\ DOMAIN diff.updated \cap DOMAIN diff.removed \subseteq inexact
    BY <2>6 DEF Touched
  <2> QED BY <2>1, <2>3, <2>4, <2>7 DEF HistoryTypeOK, Records
<1> QED BY <1>1, HistoryInvCorrect, PTL

\* Undoing as far as a mark gives the records as they were at the mark, but for
\* those that others changed: what undo and bailToMark promise.
THEOREM UndoReachesMarkCorrect == HistorySpec => []UndoReachesMark
<1>1. HistoryInv => UndoReachesMark
  <2> SUFFICES ASSUME HistoryInv, NEW id \in Ids \ inexact
               PROVE  /\ Rewound(Len(undos))[id] = seen[NoMark][id]
                      /\ \A n \in 1..Len(undos) : IsStop(undos[n]) =>
                           Rewound(n)[id] = seen[undos[n].id][id]
    BY DEF UndoReachesMark, SameButInexact
  <2>1. StacksTyped /\ UndoChain(id)
    BY DEF HistoryInv, Chains
  <2>2. PICK p : /\ Chained(FALSE, id, undos, seen, p)
                 /\ Leads(id, p[0], pending, store[id])
                 /\ p[Len(undos)] = seen[NoMark][id]
    BY <2>1, UndoChainIs
  <2>3. \A n \in 0..Len(undos) : Rewound(n)[id] = p[n]
    BY <2>1, <2>2, RewoundIs
  <2>4. Len(undos) \in 0..Len(undos) /\ \A n \in 1..Len(undos) : n \in 0..Len(undos)
    BY <2>1 DEF StacksTyped
  <2>5. ASSUME NEW n \in 1..Len(undos), IsStop(undos[n])
        PROVE  p[n] = seen[undos[n].id][id]
    BY <2>2, <2>5 DEF Chained, Passes
  <2> QED BY <2>2, <2>3, <2>4, <2>5
<1> QED BY <1>1, HistoryInvCorrect, PTL

\* Redoing as far as a mark gives the records as they were at the mark, but for
\* those that others changed: what redo promises.
THEOREM RedoReachesMarkCorrect == HistorySpec => []RedoReachesMark
<1>1. HistoryInv => RedoReachesMark
  <2> SUFFICES ASSUME HistoryInv, NEW id \in Ids \ inexact,
                      NEW n \in 1..Len(redos), IsStop(redos[n])
               PROVE  Replayed(n)[id] = seen[redos[n].id][id]
    BY DEF RedoReachesMark, SameButInexact
  <2>1. StacksTyped /\ RedoChain(id)
    BY DEF HistoryInv, Chains
  <2>2. PICK p : Chained(TRUE, id, redos, seen, p) /\ p[0] = store[id]
    BY <2>1, RedoChainIs
  <2>3. n \in 0..Len(redos)
    OBVIOUS
  <2>4. Replayed(n)[id] = p[n]
    BY <2>1, <2>2, <2>3, RedoLeads
  <2>5. p[n] = seen[redos[n].id][id]
    BY <2>2 DEF Chained, Passes
  <2> QED BY <2>4, <2>5
<1> QED BY <1>1, HistoryInvCorrect, PTL

-----------------------------------------------------------------------------
(***************************************************************************)
(* A redo takes back an undo.                                              *)
(***************************************************************************)
\* What an undo pushes on the redos.
Moved(n) == Reverse(Top(undos, n)) \o Kept(n)

\* Its entries: the oldest that was undone is the head.
LEMMA MovedIs ==
    ASSUME StacksTyped, NEW n \in 0..Len(undos)
    PROVE  /\ Moved(n) \in Seq(Entry) /\ RedosAfterUndo(n) = Moved(n) \o redos
           /\ \A j \in 1..n : Moved(n)[j] = undos[n - j + 1]
           /\ IF Touched(pending) = {} THEN Len(Moved(n)) = n
              ELSE Len(Moved(n)) = n + 1 /\ ~IsStop(Moved(n)[n + 1])
<1> DEFINE top == Reverse(Top(undos, n))
           kept == Kept(n)
<1>1. undos \in Seq(Entry) /\ redos \in Seq(Entry)
  BY EntriesAre DEF StacksTyped
<1>2. /\ Diff(PendingOnRedos(n)) \in Entry
      /\ ~IsStop(Diff(PendingOnRedos(n)))
  BY PendingOnRedosType, EntriesMade DEF EntryWith
<1>3. /\ top \in Seq(Entry) /\ Len(top) = n
      /\ \A j \in 1..n : top[j] = undos[n - j + 1]
  <2> DEFINE head == Top(undos, n)
  <2>1. /\ head \in Seq(Entry) /\ Len(head) = n
        /\ \A j \in 1..n : head[j] = undos[j]
    BY <1>1, TopIs
  <2>2. top \in Seq(Entry) /\ Len(top) = n
    BY <1>1, ReverseNext
  <2>3. \A j \in 1..n : top[j] = head[n - j + 1] /\ n - j + 1 \in 1..n
    <3> HIDE DEF head
    <3>1. Reverse(head) = [j \in 1..n |-> head[n - j + 1]]
      BY <2>1 DEF Reverse
    <3> QED BY <3>1 DEF head
  <2> HIDE DEF head
  <2> QED BY <2>1, <2>2, <2>3
<1>4. Moved(n) = top \o kept /\ RedosAfterUndo(n) = top \o kept \o redos
  BY DEF Moved, Kept, RedosAfterUndo
<1> HIDE DEF top
<1>5. CASE Touched(pending) = {}
  <2>1. kept = <<>>
    BY <1>5 DEF Kept
  <2> QED BY <1>1, <1>3, <1>4, <1>5, <2>1
<1>6. CASE Touched(pending) # {}
  <2> DEFINE entry == Diff(PendingOnRedos(n))
  <2>1. kept = <<entry>>
    BY <1>6 DEF Kept
  <2>2. entry \in Entry /\ ~IsStop(entry)
    BY <1>2
  <2> HIDE DEF entry, kept
  <2>3. top \o kept \o redos = (top \o kept) \o redos
    OBVIOUS
  <2>4. /\ top \o kept \in Seq(Entry) /\ Len(top \o kept) = n + 1
        /\ (top \o kept)[n + 1] = entry
        /\ \A j \in 1..n : (top \o kept)[j] = top[j]
    BY <1>3, <2>1, <2>2
  <2> QED BY <1>3, <1>4, <1>6, <2>2, <2>4
<1> QED BY <1>5, <1>6

\* At the end of them are the marks that were on top of the undos, if any; only
\* the head is another.
LEMMA MovedMarks ==
    ASSUME StacksTyped, NEW n, n = Popped(NoMark),
           \E j \in 1..Len(Moved(n)) : ~IsStop(Moved(n)[j])
    PROVE  \E c \in 1..Len(Moved(n)) :
             /\ \A j \in 2..c : ~IsStop(Moved(n)[j])
             /\ \A j \in c + 1..Len(Moved(n)) : IsStop(Moved(n)[j])
             /\ IsStop(Moved(n)[1]) => c >= 2
<1> DEFINE m == Moved(n)
           k == LeadingStops(undos)
<1>1. n \in 0..Len(undos) /\ undos \in Seq(Entry) /\ Len(undos) \in Nat
  BY PoppedIs, EntriesAre DEF StacksTyped
<1>2. /\ m \in Seq(Entry)
      /\ \A j \in 1..n : m[j] = undos[n - j + 1]
      /\ IF Touched(pending) = {} THEN Len(m) = n
         ELSE Len(m) = n + 1 /\ ~IsStop(m[n + 1])
  BY <1>1, MovedIs
<1>3. \E j \in 1..Len(m) : ~IsStop(m[j])
  OBVIOUS
<1> HIDE DEF m
<1>4. CASE Touched(pending) # {}
  <2>1. n = PoppedToStop(undos, 0)
    BY <1>4 DEF Popped
  <2>2. \A i \in 1..n - 1 : ~IsStop(undos[i])
    <3>1. 0 \in 0..Len(undos) /\ 0 + 1 = 1
      BY <1>1
    <3> QED BY <1>1, <2>1, <3>1, PoppedToStopIs
  <2>3. ASSUME NEW j \in 2..n + 1 PROVE ~IsStop(m[j])
    <3>1. CASE j = n + 1
      BY <1>2, <1>4, <3>1
    <3>2. CASE j # n + 1
      <4>1. j \in 1..n /\ n - j + 1 \in 1..n - 1
        BY <1>1, <3>2
      <4> QED BY <1>2, <2>2, <4>1
    <3> QED BY <3>1, <3>2
  <2>4. IsStop(m[1]) => n + 1 >= 2
    <3>1. n = 0 => ~IsStop(m[1])
      BY <1>2, <1>4
    <3> QED BY <1>1, <3>1
  <2>5. n + 1 \in 1..Len(m) /\ Len(m) = n + 1
    BY <1>1, <1>2, <1>4
  <2>6. \A j \in (n + 1) + 1..Len(m) : IsStop(m[j])
    BY <1>1, <2>5
  <2> QED BY <2>3, <2>4, <2>5, <2>6 DEF m
<1>5. CASE Touched(pending) = {}
  <2>1. n = PoppedToStop(undos, k)
    BY <1>5 DEF Popped
  <2>2. /\ k \in 0..Len(undos)
        /\ \A i \in 1..k : IsStop(undos[i])
        /\ k < Len(undos) => ~IsStop(undos[k + 1])
    BY <1>1, LeadingStopsIs
  <2> HIDE DEF k
  <2>3. /\ n \in k..Len(undos)
        /\ \A i \in k + 1..n - 1 : ~IsStop(undos[i])
    BY <1>1, <2>1, <2>2, PoppedToStopIs
  <2>4. Len(m) = n
    BY <1>2, <1>5
  <2>5. ASSUME NEW j \in (n - k) + 1..n PROVE j \in 1..n => IsStop(m[j])
    <3>1. k \in Int /\ n \in Int
      BY <2>2, <2>3
    <3>2. j \in 1..n => n - j + 1 \in 1..k
      BY <3>1
    <3> QED BY <1>2, <2>2, <3>2
  <2>6. n # k
    BY <1>1, <1>3, <2>4, <2>5
  <2>7. n - k \in 1..n /\ k < Len(undos)
    BY <1>1, <2>2, <2>3, <2>6
  <2>8. ASSUME NEW j \in 2..n - k PROVE ~IsStop(m[j])
    <3>1. j \in 1..n /\ n - j + 1 \in k + 1..n - 1
      BY <1>1, <2>2, <2>7
    <3> QED BY <1>2, <2>3, <3>1
  <2>9. IsStop(m[1]) => n - k >= 2
    <3> SUFFICES ASSUME n - k = 1 PROVE ~IsStop(m[1])
      BY <2>7
    <3>1. 1 \in 1..n /\ n - 1 + 1 = k + 1
      BY <1>1, <2>2, <2>7
    <3> QED BY <1>2, <2>2, <2>7, <3>1
  <2>10. \A j \in (n - k) + 1..Len(m) : IsStop(m[j])
    <3>1. \A j \in (n - k) + 1..n : j \in 1..n
      BY <2>7
    <3> QED BY <2>4, <2>5, <3>1
  <2> QED BY <2>4, <2>7, <2>8, <2>9, <2>10 DEF m
<1> QED BY <1>4, <1>5

\* A redo pops entries as far as those marks, or one of the redos before.
LEMMA RedoPopsMoved ==
    ASSUME NEW T, NEW stack \in Seq(T), NEW m \in 1..Len(stack), NEW c \in 1..m,
           \A j \in 2..c : ~IsStop(stack[j]),
           \A j \in c + 1..m : IsStop(stack[j]),
           IsStop(stack[1]) => c >= 2,
           m < Len(stack) => IsStop(stack[m + 1]),
           NEW r, r = PoppedToStop(stack, LeadingStops(stack))
    PROVE  \/ r \in c..m
           \/ r = m + 1 /\ r <= Len(stack) /\ IsStop(stack[r])
<1> DEFINE l == LeadingStops(stack)
<1>1. /\ l \in 0..Len(stack) /\ \A j \in 1..l : IsStop(stack[j])
      /\ l < Len(stack) => ~IsStop(stack[l + 1])
  BY LeadingStopsIs
<1> HIDE DEF l
<1>2. /\ r \in l..Len(stack) /\ \A j \in l + 1..r - 1 : ~IsStop(stack[j])
      /\ \/ r > l /\ IsStop(stack[r])
         \/ r = Len(stack) /\ \A j \in l + 1..Len(stack) : ~IsStop(stack[j])
  BY <1>1, PoppedToStopIs DEF l
<1>3. l < c
  <2> SUFFICES ASSUME c <= l PROVE FALSE
    BY <1>1
  <2>1. 1 \in 1..l /\ c \in 1..l
    BY <1>1
  <2>2. c >= 2
    BY <1>1, <2>1
  <2>3. c \in 2..c
    BY <2>2
  <2> QED BY <1>1, <2>1, <2>3
<1>4. ASSUME NEW j \in l + 1..c PROVE ~IsStop(stack[j])
  <2>1. CASE j = 1
    <3>1. l = 0 /\ l < Len(stack)
      BY <1>1, <2>1
    <3> QED BY <1>1, <2>1, <3>1
  <2>2. CASE j # 1
    <3>1. j \in 2..c
      BY <1>1, <2>2
    <3> QED BY <3>1
  <2> QED BY <2>1, <2>2
<1>5. r >= c
  <2> SUFFICES ASSUME r < c PROVE FALSE
    BY <1>1, <1>2
  <2>1. r # Len(stack)
    OBVIOUS
  <2>2. r > l /\ IsStop(stack[r])
    BY <1>2, <2>1
  <2>3. r \in l + 1..c
    BY <1>1, <1>2, <2>2
  <2> QED BY <1>4, <2>2, <2>3
<1>6. CASE r <= m
  BY <1>2, <1>5, <1>6
<1>7. CASE r > m
  <2>1. IsStop(stack[m + 1]) /\ m + 1 \in l + 1..Len(stack)
    BY <1>1, <1>2, <1>3, <1>7
  <2>2. r > l /\ IsStop(stack[r])
    BY <1>2, <2>1
  <2>3. ~(m + 1 <= r - 1)
    <3>1. m + 1 <= r - 1 => m + 1 \in l + 1..r - 1
      BY <1>1, <1>2, <2>1
    <3> QED BY <1>2, <2>1, <3>1
  <2>4. r = m + 1
    BY <1>2, <1>7, <2>3
  <2> QED BY <1>2, <2>2, <2>4
<1> QED BY <1>2, <1>6, <1>7

\* p has the values that redoing the entries of the stack leads through, and
\* above entry a there are only stops.
Redoes(id, stack, saw, p) == Chained(TRUE, id, stack, saw, p)

OnlyStopsFrom(stack, a) == \A j \in a + 1..Len(stack) : IsStop(stack[j])

\* Stops do not change a record.
LEMMA StopsStay ==
    ASSUME NEW id, NEW stack \in Seq(Entry), NEW saw, NEW p,
           Redoes(id, stack, saw, p), NEW a \in 0..Len(stack),
           OnlyStopsFrom(stack, a)
    PROVE  \A b \in a..Len(stack) : p[b] = p[a]
<1> DEFINE S == {i \in Nat : a + i <= Len(stack) => p[a + i] = p[a]}
<1>1. 0 \in S
  BY a + 0 = a
<1>2. \A i \in Nat : i \in S => i + 1 \in S
  <2> SUFFICES ASSUME NEW i \in Nat, i \in S, a + (i + 1) <= Len(stack)
               PROVE  p[a + (i + 1)] = p[a]
    OBVIOUS
  <2>1. /\ a + (i + 1) \in 1..Len(stack) /\ a + (i + 1) \in a + 1..Len(stack)
        /\ (a + (i + 1)) - 1 = a + i /\ a + i <= Len(stack)
    OBVIOUS
  <2>2. p[a + (i + 1)] = p[a + i]
    BY <2>1 DEF Redoes, OnlyStopsFrom, Chained, Passes
  <2> QED BY <2>1, <2>2
<1>3. Nat \subseteq S
  <2> HIDE DEF S
  <2> QED BY <1>1, <1>2, Adding!SetInduction
<1>4. ASSUME NEW b \in a..Len(stack) PROVE p[b] = p[a]
  <2>1. b - a \in Nat /\ a + (b - a) = b
    OBVIOUS
  <2>2. b - a \in S
    BY <1>3, <2>1
  <2> QED BY <2>1, <2>2
<1> QED BY <1>4

\* Squashing n entries of any stack leads to the value after them.
LEMMA ReplayLeads ==
    ASSUME NEW id, NEW stack \in Seq(Entry), NEW saw, NEW p,
           Redoes(id, stack, saw, p), NEW n \in 0..Len(stack)
    PROVE  Leads(id, p[0], SquashAll(NoChanges, DiffsOf(Top(stack, n))), p[n])
<1> DEFINE ds == DiffsOf(Top(stack, n))
<1>1. PICK v : v[0] = p[0] /\ v[Len(ds)] = p[n] /\ Walks(TRUE, id, v, ds)
  BY DiffsWalk DEF Redoes
<1>2. ds \in Seq(StoreDiff)
  BY DiffsOfNext
<1> HIDE DEF ds
<1>3. Leads(id, p[0], NoChanges, v[0])
  BY <1>1, NoChangesLead
<1>4. Leads(id, p[0], SquashAll(NoChanges, ds), v[Len(ds)])
  BY <1>1, <1>2, <1>3, SquashAllLeads
<1> QED BY <1>1, <1>4 DEF ds

\* Redoing all that leads from one value to another, but for marks, does so.
LEMMA ReplayReaches ==
    ASSUME NEW id, NEW stack \in Seq(Entry), NEW saw, NEW x, NEW z,
           Reaches(TRUE, id, stack, saw, x, z), NEW k \in 0..Len(stack),
           \A j \in k + 1..Len(stack) : IsStop(stack[j])
    PROVE  Leads(id, x, SquashAll(NoChanges, DiffsOf(Top(stack, k))), z)
<1>1. PICK p : /\ p[0] = x /\ p[Len(stack)] = z
               /\ Redoes(id, stack, saw, p)
  BY DEF Reaches, Redoes
<1>2. Len(stack) \in k..Len(stack) /\ OnlyStopsFrom(stack, k)
  BY DEF OnlyStopsFrom
<1>3. \A b \in k..Len(stack) : p[b] = p[k]
  BY <1>1, <1>2, StopsStay
<1>4. Leads(id, p[0], SquashAll(NoChanges, DiffsOf(Top(stack, k))), p[k])
  BY <1>1, ReplayLeads
<1> QED BY <1>1, <1>2, <1>3, <1>4

\* From what a record was before the entries that are undone, redoing them leads
\* to what it was before anything was pending.
LEMMA MovedReaches ==
    ASSUME HistoryInv, Undo, NEW id \in Ids \ inexact, NEW n, n = Popped(NoMark)
    PROVE  \E y : /\ Leads(id, y, pending, store[id])
                  /\ Leads(id, store[id], DiffToUndo(n), store'[id])
                  /\ Reaches(TRUE, id, Reverse(Top(undos, n)), seen, store'[id], y)
<1>1. StacksTyped /\ UndoChain(id) /\ UndoTo(NoMark)
  BY DEF HistoryInv, Chains, Undo
<1>2. n \in 0..Len(undos) /\ undos \in Seq(Entry)
  BY <1>1, PoppedIs, EntriesAre DEF StacksTyped
<1>3. PICK p : /\ Chained(FALSE, id, undos, seen, p)
               /\ Leads(id, p[0], pending, store[id])
               /\ store'[id] = p[n]
  BY <1>1, UndoToLeaves
<1>4. Leads(id, store[id], DiffToUndo(n), p[n])
  BY <1>1, <1>2, <1>3, UndoLeads
<1> DEFINE y == p[0]
           none == <<>>
           back == Reverse(Top(undos, n))
<1>5. Reaches(TRUE, id, none, seen, y, y) /\ none \in Seq(Entry)
  <2>1. none \in Seq(Entry)
    OBVIOUS
  <2>2. Reaches(TRUE, id, <<>>, seen, y, y)
    <3> HIDE DEF y
    <3> QED BY EmptyReaches
  <2> QED BY <2>1, <2>2
<1>6. back \in Seq(Entry) /\ back \o none = back
  <2>1. back \in Seq(Entry)
    BY <1>2, ReverseNext
  <2> HIDE DEF back
  <2> QED BY <2>1
<1> HIDE DEF y, none
<1>7. Reaches(TRUE, id, Reverse(Top(undos, n)) \o none, seen, p[n], y)
  BY <1>2, <1>3, <1>5, UndoRedoOpposite, MoveChain DEF y
<1>8. Reaches(TRUE, id, back, seen, p[n], y)
  <2>1. Reaches(TRUE, id, back \o none, seen, p[n], y)
    BY <1>7
  <2> HIDE DEF back
  <2> QED BY <1>6, <2>1, Zenon
<1> QED BY <1>3, <1>4, <1>8 DEF y

\* From one value of a record to another, both there or both not there.
Stays(x, y) == (x = Absent) = (y = Absent)

\* What was pending does what it did, although the undo has written into it, when
\* it is squashed into what leads up to it: unless it took back the creation or
\* the removal of the record.
LEMMA RedoneExactly ==
    ASSUME NEW id, NEW s, id \in DOMAIN s, NEW y, NEW z, NEW pend, NEW undo,
           NEW back, NEW again,
           Leads(id, y, pend, z), Leads(id, z, undo, s[id]),
           Leads(id, s[id], back, y),
           again = [added |-> undo.removed, updated |-> pend.updated,
                    removed |-> undo.added],
           Stays(z, s[id]) => Stays(z, y)
    PROVE  ApplyChanges(s, Squash(back, again))[id] = z
<1> DEFINE x == s[id]
           d1 == SquashAdded(back, again.added)
           d2 == SquashUpdated(d1, again.updated)
           d3 == SquashRemoved(d2, again.removed)
<1>1. /\ again.added = undo.removed /\ again.updated = pend.updated
      /\ again.removed = undo.added /\ Squash(back, again) = d3
  BY DEF Squash
<1>2. /\ Leads(id, y, pend, z) /\ Leads(id, z, undo, x)
      /\ Leads(id, x, back, y)
  OBVIOUS
<1> HIDE DEF x
<1>3. CASE x = Absent /\ z # Absent
  <2>1. /\ id \in DOMAIN again.added /\ again.added[id] = z
        /\ id \notin DOMAIN again.removed
    BY <1>1, <1>2, <1>3 DEF Leads, Adds, Updates, Removes, Touched
  <2>2. id \notin DOMAIN back.removed /\ id \notin DOMAIN back.updated
    BY <1>2, <1>3 DEF Leads, Adds, Updates, Removes, Touched
  <2>3. id \in DOMAIN again.updated => again.updated[id].to = z
    BY <1>1, <1>2 DEF Leads, Adds, Updates, Removes, Touched
  <2>4. /\ id \in DOMAIN d1.added /\ d1.added[id] = z
        /\ id \notin DOMAIN d1.updated /\ id \notin DOMAIN d1.removed
    BY <2>1, <2>2 DEF SquashAdded, Overlay, Without
  <2> HIDE DEF d1
  <2>5. /\ id \in DOMAIN d2.added /\ d2.added[id] = z
        /\ id \notin DOMAIN d2.updated /\ id \notin DOMAIN d2.removed
    BY <2>3, <2>4 DEF SquashUpdated, Overlay, Without
  <2> HIDE DEF d2
  <2>6. Leads(id, x, d3, z)
    BY <1>3, <2>1, <2>5
       DEF SquashRemoved, Overlay, Without, Leads, Adds
  <2> HIDE DEF d3
  <2> QED BY <1>1, <2>6, ApplyLeads DEF x
<1>4. CASE x # Absent /\ z = Absent
  <2>1. /\ id \in DOMAIN again.removed /\ id \notin DOMAIN again.added
        /\ id \notin DOMAIN again.updated
    BY <1>1, <1>2, <1>4 DEF Leads, Adds, Updates, Removes, Touched
  <2>2. id \notin DOMAIN back.added
    BY <1>2, <1>4 DEF Leads, Adds, Updates, Removes, Touched
  <2>3. id \notin DOMAIN d1.added
    BY <2>1, <2>2 DEF SquashAdded, Overlay, Without
  <2> HIDE DEF d1
  <2>4. id \notin DOMAIN d2.added
    BY <2>1, <2>3 DEF SquashUpdated, Overlay, Without
  <2> HIDE DEF d2
  <2>5. id \in DOMAIN d3.removed
    BY <2>1, <2>4 DEF SquashRemoved, Overlay, Without
  <2> HIDE DEF d3
  <2> QED BY <1>1, <1>4, <2>5 DEF ApplyChanges
<1>5. CASE (x = Absent) = (z = Absent)
  <2>1. Leads(id, y, again, z)
    <3>1. CASE z = Absent
      <4>1. y = Absent /\ x = Absent
        BY <1>5, <3>1 DEF Stays, x
      <4> QED BY <1>1, <1>2, <3>1, <4>1 DEF Leads, Adds, Updates, Removes, Touched
    <3>2. CASE z # Absent
      <4>1. y # Absent /\ x # Absent
        BY <1>5, <3>2 DEF Stays, x
      <4> QED BY <1>1, <1>2, <3>2, <4>1 DEF Leads, Adds, Updates, Removes, Touched
    <3> QED BY <3>1, <3>2
  <2>2. Leads(id, x, Squash(back, again), z)
    BY <1>2, <2>1, SquashLeads
  <2> QED BY <2>2, ApplyLeads DEF x
<1> QED BY <1>3, <1>4, <1>5

\* A redo right after an undo pops what the undo has pushed, but for marks at
\* the end, and at most a mark of those that were there before.
LEMMA RedoAfterUndoPops ==
    ASSUME HistoryInv, Undo,
           DiffsOf(Top(redos', Len(redos') - Len(redos))) # <<>>,
           redos = <<>> \/ IsStop(Head(redos)),
           NEW n, n = Popped(NoMark)
    PROVE  \E k \in 0..Len(Moved(n)) :
             /\ DiffToRedo(redos') = SquashAll(NoChanges, DiffsOf(Top(Moved(n), k)))
             /\ \A j \in k + 1..Len(Moved(n)) : IsStop(Moved(n)[j])
<1> DEFINE moved == Moved(n)
           m == Len(moved)
           r == RedoPopped(redos')
<1>1. /\ StacksTyped /\ redos \in Seq(Entry)
      /\ redos' = RedosAfterUndo(n)
  BY EntriesAre DEF HistoryInv, StacksTyped, Undo
<1>2. n \in 0..Len(undos)
  BY <1>1, PoppedIs
<1>3. moved \in Seq(Entry) /\ redos' = moved \o redos
  BY <1>1, <1>2, MovedIs
<1>4. (\E j \in 1..m : ~IsStop(moved[j])) =>
           \E c \in 1..m : /\ \A j \in 2..c : ~IsStop(moved[j])
                           /\ \A j \in c + 1..m : IsStop(moved[j])
                           /\ IsStop(moved[1]) => c >= 2
  BY <1>1, MovedMarks
<1>0. r = PoppedToStop(redos', LeadingStops(redos'))
  BY DEF RedoPopped
<1> HIDE DEF moved, r
<1>5. /\ m \in Nat /\ redos' \in Seq(Entry) /\ Len(redos') = m + Len(redos)
      /\ \A j \in 1..m : redos'[j] = moved[j]
      /\ Len(redos) \in Nat
      /\ redos # <<>> => redos'[m + 1] = Head(redos) /\ Len(redos) > 0
      /\ \A k \in 0..m : Top(redos', k) = Top(moved, k)
  <2>1. ASSUME NEW k \in 0..m PROVE SubSeq(moved \o redos, 1, k) = SubSeq(moved, 1, k)
    BY <1>1, <1>3
  <2> QED BY <1>1, <1>3, <2>1 DEF Top
<1>6. DiffsOf(Top(redos', m)) # <<>>
  <2>1. Len(redos') - Len(redos) = m
    BY <1>5
  <2> QED BY <2>1
<1>7. PICK j \in 1..m : ~IsStop(moved[j])
  <2>1. Top(redos', m) = moved
    BY <1>3, <1>5, TopNext
  <2>2. DiffsOf(moved) \in Seq(StoreDiff)
    <3>1. DiffsOf(Top(moved, m)) \in Seq(StoreDiff) /\ Top(moved, m) = moved
      BY <1>3, <1>5, DiffsOfNext, TopNext
    <3> QED BY <3>1
  <2>3. 1 \in 1..Len(DiffsOf(moved))
    BY <1>6, <2>1, <2>2
  <2>4. \E k \in 1..m : IsDiff(moved[k])
    BY <1>3, <2>3, DiffsOfFrom
  <2> QED BY <2>4 DEF IsDiff, IsStop
<1>8. PICK c \in 1..m : /\ \A k \in 2..c : ~IsStop(moved[k])
                        /\ \A k \in c + 1..m : IsStop(moved[k])
                        /\ IsStop(moved[1]) => c >= 2
  BY <1>4, <1>7
<1> HIDE DEF m
<1>9. \/ r \in c..m
      \/ r = m + 1 /\ r <= Len(redos') /\ IsStop(redos'[r])
  <2>1. m \in 1..Len(redos') /\ 1 \in 1..m
    BY <1>5, <1>8
  <2>2. /\ \A k \in 2..c : ~IsStop(redos'[k])
        /\ \A k \in c + 1..m : IsStop(redos'[k])
        /\ IsStop(redos'[1]) => c >= 2
    <3>1. \A k \in 2..c : k \in 1..m
      BY <1>5
    <3>2. \A k \in c + 1..m : k \in 1..m
      BY <1>5
    <3> QED BY <1>5, <1>8, <2>1, <3>1, <3>2
  <2>3. m < Len(redos') => IsStop(redos'[m + 1])
    BY <1>5
  <2> DEFINE stack == redos'
  <2>4. /\ stack \in Seq(Entry) /\ m \in 1..Len(stack)
        /\ \A k \in 2..c : ~IsStop(stack[k])
        /\ \A k \in c + 1..m : IsStop(stack[k])
        /\ IsStop(stack[1]) => c >= 2
        /\ m < Len(stack) => IsStop(stack[m + 1])
        /\ r = PoppedToStop(stack, LeadingStops(stack))
    BY <1>0, <1>5, <2>1, <2>2, <2>3
  <2> HIDE DEF stack
  <2>5. \/ r \in c..m
        \/ r = m + 1 /\ r <= Len(stack) /\ IsStop(stack[r])
    BY <2>4, RedoPopsMoved
  <2> QED BY <2>5 DEF stack
<1>10. PICK k \in c..m : DiffsOf(Top(redos', r)) = DiffsOf(Top(moved, k))
  <2>1. CASE r \in c..m
    <3>1. r \in 0..m
      BY <1>5, <2>1
    <3> QED BY <1>5, <2>1, <3>1
  <2>2. CASE r = m + 1 /\ r <= Len(redos') /\ IsStop(redos'[r])
    <3> DEFINE stack == redos'
    <3>1. stack \in Seq(Entry) /\ m \in 0..Len(stack) - 1
      BY <1>5, <2>2
    <3> HIDE DEF stack
    <3>2. DiffsOf(Top(stack, m + 1)) = AddDiff(DiffsOf(Top(stack, m)), stack[m + 1])
      BY <3>1, DiffsOfNext
    <3>3. ~IsDiff(stack[m + 1])
      BY <2>2 DEF stack, IsDiff, IsStop
    <3>4. DiffsOf(Top(stack, m + 1)) = DiffsOf(Top(stack, m))
      BY <3>2, <3>3 DEF AddDiff
    <3>5. m \in c..m /\ m \in 0..m /\ Top(stack, m) = Top(moved, m)
      BY <1>5 DEF stack
    <3> QED BY <2>2, <3>4, <3>5 DEF stack
  <2> QED BY <1>9, <2>1, <2>2
<1>11. DiffToRedo(redos') = SquashAll(NoChanges, DiffsOf(Top(moved, k)))
  BY <1>10 DEF DiffToRedo, r
<1>12. k \in 0..m /\ \A i \in k + 1..m : IsStop(moved[i])
  BY <1>5, <1>8
<1> QED BY <1>11, <1>12 DEF moved, m

\* A redo right after an undo takes it back.
LEMMA UndoThenRedoStep ==
    ASSUME HistoryInv, Undo, store' \in Records,
           DiffsOf(Top(redos', Len(redos') - Len(redos))) # <<>>,
           redos = <<>> \/ IsStop(Head(redos)),
           NEW id \in Ids \ (inexact \cup TakenBack(store'))
    PROVE  ApplyChanges(store', DiffToRedo(redos'))[id] = store[id]
<1> DEFINE n == Popped(NoMark)
           back == Reverse(Top(undos, n))
           moved == Moved(n)
           s == store'
           redo == DiffToRedo(redos')
           diffs == DiffsOf(back)
           again == PendingOnRedos(n)
<1>1. PICK k \in 0..Len(moved) :
        /\ redo = SquashAll(NoChanges, DiffsOf(Top(moved, k)))
        /\ \A j \in k + 1..Len(moved) : IsStop(moved[j])
  BY RedoAfterUndoPops
<1>2. PICK y : /\ Leads(id, y, pending, store[id])
               /\ Leads(id, store[id], DiffToUndo(n), s[id])
               /\ Reaches(TRUE, id, back, seen, s[id], y)
  BY MovedReaches
<1>3. StacksTyped /\ n \in 0..Len(undos) /\ undos \in Seq(Entry)
  BY PoppedIs, EntriesAre DEF HistoryInv, StacksTyped
<1>4. moved = back \o Kept(n)
  BY DEF Moved
<1>5. /\ moved \in Seq(Entry)
      /\ Touched(pending) # {} => Len(moved) = n + 1 /\ ~IsStop(moved[n + 1])
  BY <1>3, MovedIs
<1>6. back \in Seq(Entry) /\ Len(back) = n
  BY <1>3, ReverseNext
<1>7. s \in Records /\ DOMAIN s = Ids
  BY DEF Records
<1>8. again = [added |-> DiffToUndo(n).removed, updated |-> pending.updated,
               removed |-> DiffToUndo(n).added]
  BY DEF PendingOnRedos
<1>9. Stays(store[id], s[id]) => Stays(store[id], y)
  <2>1. /\ id \in DOMAIN store
        /\ BeforePending = ApplyChanges(store, ReverseRecordsDiff(pending))
    BY <1>3 DEF StacksTyped, Records, BeforePending
  <2>2. Leads(id, store[id], ReverseRecordsDiff(pending), y)
    BY <1>2, ReverseLeads
  <2>3. BeforePending[id] = y
    BY <2>1, <2>2, ApplyLeads
  <2>4. id \notin TakenBack(s)
    OBVIOUS
  <2> HIDE DEF s
  <2>5. ~(/\ (store[id] = Absent) = (s[id] = Absent)
          /\ (store[id] = Absent) # (BeforePending[id] = Absent))
    BY <2>4, Zenon DEF TakenBack
  <2> QED BY <2>3, <2>5, Zenon DEF Stays
<1> HIDE DEF n, back, moved, s, redo, again
<1>10. CASE Touched(pending) = {}
  <2>1. moved = back /\ y = store[id]
    <3>1. Kept(n) = <<>>
      BY <1>10 DEF Kept
    <3>2. y = store[id]
      BY <1>2, <1>10, UntouchedLeads
    <3> QED BY <1>4, <1>6, <3>1, <3>2
  <2> DEFINE x == s[id]
             z == store[id]
  <2>2. Reaches(TRUE, id, moved, seen, x, z)
    BY <1>2, <2>1
  <2> HIDE DEF x, z
  <2>3. Leads(id, x, SquashAll(NoChanges, DiffsOf(Top(moved, k))), z)
    BY <1>1, <1>5, <2>2, ReplayReaches
  <2>4. Leads(id, s[id], redo, store[id])
    BY <1>1, <2>3 DEF x, z
  <2>5. ApplyChanges(s, redo)[id] = store[id]
    BY <1>7, <2>4, ApplyLeads
  <2> QED BY <2>5 DEF s, redo
<1>11. CASE Touched(pending) # {}
  <2> DEFINE entry == Diff(again)
  <2>1. entry \in Entry /\ IsDiff(entry) /\ entry.diff = again
    BY <1>3, PendingOnRedosType, EntriesMade DEF EntryWith, again, Diff, IsDiff
  <2>2. Kept(n) = <<entry>>
    BY <1>11 DEF Kept, again
  <2> HIDE DEF entry
  <2>3. moved = Append(back, entry)
    BY <1>4, <1>6, <2>1, <2>2
  <2>4. k = n + 1
    <3>1. n \in Nat /\ n + 1 \in 1..Len(moved)
      BY <1>3, <1>5, <1>11
    <3>2. ~(k < n + 1)
      <4>1. k < n + 1 => n + 1 \in k + 1..Len(moved)
        BY <1>1, <3>1
      <4> QED BY <1>1, <1>5, <1>11, <4>1
    <3> QED BY <1>1, <1>5, <1>11, <3>1, <3>2
  <2>5. /\ DiffsOf(Top(moved, k)) = AddDiff(DiffsOf(Top(moved, n)), moved[n + 1])
        /\ Top(moved, n) = back /\ moved[n + 1] = entry
    <3>1. n \in 0..Len(moved) - 1 /\ n \in Nat
      BY <1>3, <1>5, <1>11
    <3>2. DiffsOf(Top(moved, n + 1)) = AddDiff(DiffsOf(Top(moved, n)), moved[n + 1])
      BY <1>5, <3>1, DiffsOfNext
    <3>3. Top(moved, n) = back /\ moved[n + 1] = entry
      BY <1>6, <2>1, <2>3, <3>1 DEF Top
    <3> QED BY <2>4, <3>2, <3>3
  <2>6. DiffsOf(Top(moved, k)) = Append(diffs, again)
    BY <2>1, <2>5 DEF AddDiff
  <2>7. diffs \in Seq(StoreDiff) /\ Top(back, Len(back)) = back
    <3>1. Top(back, Len(back)) = back /\ Len(back) \in 0..Len(back)
      BY <1>6, TopNext
    <3>2. DiffsOf(Top(back, Len(back))) \in Seq(StoreDiff)
      BY <1>6, <3>1, DiffsOfNext
    <3> QED BY <3>1, <3>2
  <2>8. again \in StoreDiff
    BY <1>3, PendingOnRedosType DEF again
  <2>9. Leads(id, s[id], SquashAll(NoChanges, diffs), y)
    <3> DEFINE x == s[id]
               l == Len(back)
    <3>0. Reaches(TRUE, id, back, seen, x, y)
      BY <1>2
    <3>1. l \in 0..Len(back) /\ \A j \in l + 1..Len(back) : IsStop(back[j])
      BY <1>6
    <3> HIDE DEF x, l
    <3>2. Leads(id, x, SquashAll(NoChanges, DiffsOf(Top(back, l))), y)
      BY <1>6, <3>0, <3>1, ReplayReaches
    <3> QED BY <2>7, <3>2 DEF x, l
  <2> HIDE DEF diffs
  <2>10. redo = Squash(SquashAll(NoChanges, diffs), again)
    <3>1. /\ SquashAll(NoChanges, diffs) = Squashing!Fold(NoChanges, diffs)
          /\ SquashAll(NoChanges, Append(diffs, again))
               = Squashing!Fold(NoChanges, Append(diffs, again))
      BY DEF SquashAll, FoldLeft, MapThenFoldSet, Max, Squashing!Fold,
             Squashing!MapThenFoldSet, Squashing!Greatest
    <3>2. Squashing!Fold(NoChanges, Append(diffs, again))
            = Squash(Squashing!Fold(NoChanges, diffs), again)
      BY <2>7, <2>8, Squashing!FoldAppend
    <3> QED BY <1>1, <2>6, <3>1, <3>2
  <2> DEFINE to == SquashAll(NoChanges, diffs)
             undo == DiffToUndo(n)
             z == store[id]
  <2>11. /\ id \in DOMAIN s /\ Leads(id, y, pending, z)
         /\ Leads(id, z, undo, s[id]) /\ Leads(id, s[id], to, y)
         /\ again = [added |-> undo.removed, updated |-> pending.updated,
                     removed |-> undo.added]
         /\ Stays(z, s[id]) => Stays(z, y)
    BY <1>2, <1>7, <1>8, <1>9, <2>9
  <2> HIDE DEF to, undo, z
  <2>12. ApplyChanges(s, Squash(to, again))[id] = z
    BY <2>11, RedoneExactly
  <2> QED BY <2>10, <2>12 DEF to, z, s, redo
<1> QED BY <1>10, <1>11

\* A redo takes an undo back: unless there was nothing to undo but marks, or an
\* undo that found no mark has left its diff on top of the redos.  It leaves out
\* the records that UndoReachesMark does and those of TakenBack.
THEOREM UndoThenRedoCorrect == HistorySpec => UndoThenRedo
<1> DEFINE Goal ==
             /\ Undo
             /\ DiffsOf(Top(redos', Len(redos') - Len(redos))) # <<>>
             /\ redos = <<>> \/ IsStop(Head(redos))
             => \A id \in Ids \ (inexact \cup TakenBack(store')) :
                  ApplyChanges(store', DiffToRedo(redos'))[id] = store[id]
<1>1. HistoryInv /\ [HistoryNext]_historyVars => [Goal]_historyVars
  <2> SUFFICES ASSUME HistoryInv, Undo,
                      DiffsOf(Top(redos', Len(redos') - Len(redos))) # <<>>,
                      redos = <<>> \/ IsStop(Head(redos)),
                      NEW id \in Ids \ (inexact \cup TakenBack(store'))
               PROVE  ApplyChanges(store', DiffToRedo(redos'))[id] = store[id]
    OBVIOUS
  <2>1. store' \in Records
    BY UndoToType DEF HistoryInv, Undo
  <2> QED BY <2>1, UndoThenRedoStep
<1> QED BY <1>1, HistoryInvCorrect, PTL DEF HistorySpec, UndoThenRedo

-----------------------------------------------------------------------------
(***************************************************************************)
(* THE TABS OF ONE BROWSER.                                                *)
(***************************************************************************)
-----------------------------------------------------------------------------
(***************************************************************************)
(* A record goes with a sequence of diffs from the value x to y.           *)
(***************************************************************************)
LeadAll(id, x, ds, y) ==
    \E v : v[0] = x /\ v[Len(ds)] = y /\ Walks(TRUE, id, v, ds)

\* No diffs lead nowhere.
LEMMA NoDiffsLead ==
    ASSUME NEW id, NEW x, NEW y
    PROVE  LeadAll(id, x, <<>>, y) <=> x = y
<1>1. ASSUME x = y PROVE LeadAll(id, x, <<>>, y)
  <2> DEFINE v == [k \in {0} |-> x]
  <2>1. v[0] = x /\ v[Len(<<>>)] = y /\ Walks(TRUE, id, v, <<>>)
    BY <1>1 DEF Walks
  <2> HIDE DEF v
  <2> QED BY <2>1 DEF LeadAll
<1> QED BY <1>1 DEF LeadAll

\* One more diff leads on.
LEMMA LeadOn ==
    ASSUME NEW ds \in Seq(StoreDiff), NEW e \in StoreDiff, NEW id, NEW x, NEW y,
           NEW z, LeadAll(id, x, ds, y), Leads(id, y, e, z)
    PROVE  LeadAll(id, x, Append(ds, e), z)
<1>1. PICK v : v[0] = x /\ v[Len(ds)] = y /\ Walks(TRUE, id, v, ds)
  BY DEF LeadAll
<1> DEFINE w == [k \in 0..Len(ds) + 1 |-> IF k = Len(ds) + 1 THEN z ELSE v[k]]
<1>2. /\ Len(Append(ds, e)) = Len(ds) + 1 /\ Append(ds, e)[Len(ds) + 1] = e
      /\ \A k \in 1..Len(ds) : Append(ds, e)[k] = ds[k]
  OBVIOUS
<1>3. w[0] = x /\ w[Len(Append(ds, e))] = z
  BY <1>1, <1>2
<1>4. ASSUME NEW k \in 1..Len(ds) + 1
      PROVE  Leads(id, w[k - 1], Append(ds, e)[k], w[k])
  <2>1. CASE k = Len(ds) + 1
    <3>1. w[k - 1] = y /\ w[k] = z /\ Append(ds, e)[k] = e
      BY <1>1, <1>2, <2>1
    <3> QED BY <3>1
  <2>2. CASE k \in 1..Len(ds)
    <3>1. w[k - 1] = v[k - 1] /\ w[k] = v[k] /\ Append(ds, e)[k] = ds[k]
      BY <1>2, <2>2
    <3> QED BY <1>1, <2>2, <3>1 DEF Walks, Goes
  <2> QED BY <2>1, <2>2
<1> HIDE DEF w
<1>5. Walks(TRUE, id, w, Append(ds, e))
  BY <1>2, <1>4 DEF Walks, Goes
<1> QED BY <1>3, <1>5 DEF LeadAll

\* A diff that names a record says what becomes of it, whatever it was.
LEMMA TouchedApplies ==
    ASSUME NEW id, NEW x, NEW y, NEW d, Leads(id, x, d, y), id \in Touched(d),
           NEW r, id \in DOMAIN r
    PROVE  ApplyChanges(r, d)[id] = y
BY DEF Leads, Adds, Updates, Removes, Touched, ApplyChanges

\* So do diffs, if one of them names it; and otherwise they leave it.
LEMMA LeadAllApplies ==
    ASSUME NEW ds \in Seq(StoreDiff), NEW id \in Ids, NEW x, NEW y,
           LeadAll(id, x, ds, y)
    PROVE  /\ id \notin TouchedBy(ds) => x = y
           /\ id \in TouchedBy(ds) =>
                \A r \in Records : Applying!Fold(r, ds)[id] = y
<1>1. PICK v : v[0] = x /\ v[Len(ds)] = y /\ Walks(TRUE, id, v, ds)
  BY DEF LeadAll
<1>2. ASSUME NEW k \in 1..Len(ds) PROVE Leads(id, v[k - 1], ds[k], v[k])
  BY <1>1 DEF Walks, Goes
<1>3. ASSUME id \notin TouchedBy(ds) PROVE x = y
  <2> DEFINE S == {k \in Nat : k <= Len(ds) => v[k] = x}
  <2>1. 0 \in S
    BY <1>1
  <2>2. ASSUME NEW k \in Nat, k \in S PROVE k + 1 \in S
    <3> SUFFICES ASSUME k + 1 <= Len(ds) PROVE v[k + 1] = x
      OBVIOUS
    <3>1. k + 1 \in 1..Len(ds) /\ (k + 1) - 1 = k /\ v[k] = x
      BY <2>2
    <3>2. id \notin Touched(ds[k + 1])
      BY <1>3, <3>1 DEF TouchedBy
    <3> QED BY <1>2, <3>1, <3>2, UntouchedLeads
  <2> HIDE DEF S
  <2>3. Nat \subseteq S
    BY <2>1, <2>2, Applying!SetInduction
  <2>4. Len(ds) \in S
    BY <2>3
  <2> QED BY <1>1, <2>4 DEF S
<1>4. ASSUME NEW r \in Records, NEW j \in 1..Len(ds), id \in Touched(ds[j])
      PROVE  Applying!Fold(r, ds)[id] = y
  <2>1. PICK acc : /\ acc[0] = r
                   /\ \A i \in 1..Len(ds) : acc[i] = ApplyChanges(acc[i - 1], ds[i])
                   /\ Applying!Fold(r, ds) = acc[Len(ds)]
    BY Applying!FoldTrace
  <2> DEFINE S == {k \in Nat : k <= Len(ds) =>
                     acc[k] \in Records /\ (j <= k => acc[k][id] = v[k])}
  <2>2. 0 \in S
    BY <2>1
  <2>3. ASSUME NEW k \in Nat, k \in S PROVE k + 1 \in S
    <3> SUFFICES ASSUME k + 1 <= Len(ds)
                 PROVE  /\ acc[k + 1] \in Records
                        /\ j <= k + 1 => acc[k + 1][id] = v[k + 1]
      OBVIOUS
    <3>1. /\ k + 1 \in 1..Len(ds) /\ (k + 1) - 1 = k /\ acc[k] \in Records
          /\ j <= k => acc[k][id] = v[k]
      BY <2>3
    <3>2. /\ acc[k + 1] = ApplyChanges(acc[k], ds[k + 1])
          /\ ds[k + 1] \in StoreDiff
      BY <2>1, <3>1
    <3>3. acc[k + 1] \in Records
      <4>1. ApplyChanges(acc[k], ds[k + 1]) \in Records
        BY <3>1, <3>2, ApplyInStores DEF StoreDiff, Records
      <4> QED BY <3>2, <4>1
    <3>4. id \in DOMAIN acc[k] /\ Leads(id, v[k], ds[k + 1], v[k + 1])
      BY <1>2, <3>1 DEF Records
    <3>5. CASE id \in Touched(ds[k + 1])
      BY <3>2, <3>3, <3>4, <3>5, TouchedApplies
    <3>6. CASE id \notin Touched(ds[k + 1])
      <4>1. v[k + 1] = v[k] /\ j # k + 1
        BY <1>4, <3>4, <3>6, UntouchedLeads
      <4>2. acc[k + 1][id] = acc[k][id]
        BY <3>2, <3>4, <3>6 DEF ApplyChanges, Touched
      <4> QED BY <3>1, <3>3, <4>1, <4>2
    <3> QED BY <3>5, <3>6
  <2> HIDE DEF S
  <2>4. Nat \subseteq S
    BY <2>2, <2>3, Applying!SetInduction
  <2>5. Len(ds) \in S
    BY <2>4
  <2> QED BY <1>1, <2>1, <2>5 DEF S
<1>5. id \in TouchedBy(ds) => \E j \in 1..Len(ds) : id \in Touched(ds[j])
  BY DEF TouchedBy
<1> QED BY <1>3, <1>4, <1>5

\* Diffs that do not name a record leave it where it is.
LEMMA LeftAlone ==
    ASSUME NEW ds \in Seq(StoreDiff), NEW id, NEW x, id \notin TouchedBy(ds)
    PROVE  LeadAll(id, x, ds, x)
<1> DEFINE v == [k \in 0..Len(ds) |-> x]
<1>1. v[0] = x /\ v[Len(ds)] = x
  OBVIOUS
<1>2. ASSUME NEW k \in 1..Len(ds) PROVE Leads(id, v[k - 1], ds[k], v[k])
  <2>1. v[k - 1] = x /\ v[k] = x /\ id \notin Touched(ds[k])
    BY DEF TouchedBy
  <2> HIDE DEF v
  <2> QED BY <2>1, UntouchedLeads
<1> HIDE DEF v
<1>3. Walks(TRUE, id, v, ds)
  BY <1>2 DEF Walks, Goes
<1> QED BY <1>1, <1>3 DEF LeadAll

\* What one diff more names.
LEMMA OneMoreTouched ==
    ASSUME NEW ds \in Seq(StoreDiff), NEW e \in StoreDiff
    PROVE  TouchedBy(Append(ds, e)) = TouchedBy(ds) \cup Touched(e)
<1>1. /\ DOMAIN Append(ds, e) = 1..Len(ds) + 1 /\ DOMAIN ds = 1..Len(ds)
      /\ Append(ds, e)[Len(ds) + 1] = e
      /\ \A k \in 1..Len(ds) : Append(ds, e)[k] = ds[k]
  OBVIOUS
<1>2. ASSUME NEW id
      PROVE  id \in TouchedBy(Append(ds, e))
               <=> id \in TouchedBy(ds) \/ id \in Touched(e)
  <2>1. ASSUME NEW k \in 1..Len(ds) + 1, id \in Touched(Append(ds, e)[k])
        PROVE  (\E j \in 1..Len(ds) : id \in Touched(ds[j])) \/ id \in Touched(e)
    <3>1. k = Len(ds) + 1 \/ k \in 1..Len(ds)
      OBVIOUS
    <3> QED BY <1>1, <2>1, <3>1
  <2>2. ASSUME NEW k \in 1..Len(ds), id \in Touched(ds[k])
        PROVE  id \in Touched(Append(ds, e)[k]) /\ k \in 1..Len(ds) + 1
    BY <1>1, <2>2
  <2>3. Len(ds) + 1 \in 1..Len(ds) + 1
    OBVIOUS
  <2> QED BY <1>1, <2>1, <2>2, <2>3 DEF TouchedBy
<1> QED BY <1>2

\* What two sequences of diffs name.
LEMMA BothTouched ==
    ASSUME NEW ds \in Seq(StoreDiff), NEW es \in Seq(StoreDiff)
    PROVE  TouchedBy(ds \o es) = TouchedBy(ds) \cup TouchedBy(es)
<1>1. /\ DOMAIN (ds \o es) = 1..Len(ds) + Len(es)
      /\ DOMAIN ds = 1..Len(ds) /\ DOMAIN es = 1..Len(es)
      /\ \A k \in 1..Len(ds) : (ds \o es)[k] = ds[k]
      /\ \A k \in 1..Len(es) : (ds \o es)[Len(ds) + k] = es[k]
  OBVIOUS
<1>2. ASSUME NEW id
      PROVE  id \in TouchedBy(ds \o es)
               <=> id \in TouchedBy(ds) \/ id \in TouchedBy(es)
  <2>1. ASSUME NEW k \in 1..Len(ds) + Len(es), id \in Touched((ds \o es)[k])
        PROVE  \/ \E j \in 1..Len(ds) : id \in Touched(ds[j])
               \/ \E j \in 1..Len(es) : id \in Touched(es[j])
    <3>1. CASE k \in 1..Len(ds)
      BY <1>1, <2>1, <3>1
    <3>2. CASE k \notin 1..Len(ds)
      <4>1. k - Len(ds) \in 1..Len(es) /\ Len(ds) + (k - Len(ds)) = k
        BY <3>2
      <4>2. (ds \o es)[k] = es[k - Len(ds)]
        BY <1>1, <4>1
      <4> QED BY <2>1, <4>1, <4>2
    <3> QED BY <3>1, <3>2
  <2>2. ASSUME NEW k \in 1..Len(ds), id \in Touched(ds[k])
        PROVE  id \in Touched((ds \o es)[k]) /\ k \in 1..Len(ds) + Len(es)
    BY <1>1, <2>2
  <2>3. ASSUME NEW k \in 1..Len(es), id \in Touched(es[k])
        PROVE  /\ id \in Touched((ds \o es)[Len(ds) + k])
               /\ Len(ds) + k \in 1..Len(ds) + Len(es)
    BY <1>1, <2>3
  <2> QED BY <1>1, <2>1, <2>2, <2>3 DEF TouchedBy
<1> QED BY <1>2

\* A squashed diff names what the first did, but for what the second names.
LEMMA SquashTouches ==
    ASSUME NEW d, NEW e, NEW id, id \notin Touched(e)
    PROVE  id \in Touched(Squash(d, e)) <=> id \in Touched(d)
<1> DEFINE a == SquashAdded(d, e.added)
           b == SquashUpdated(a, e.updated)
<1>1. id \notin DOMAIN e.added /\ id \notin DOMAIN e.updated
      /\ id \notin DOMAIN e.removed
  BY DEF Touched
<1>2. id \in Touched(a) <=> id \in Touched(d)
  BY <1>1 DEF SquashAdded, Touched, Overlay, Without
<1> HIDE DEF a
<1>3. id \in Touched(b) <=> id \in Touched(a)
  BY <1>1 DEF SquashUpdated, Touched, Overlay, Without
<1> HIDE DEF b
<1>4. id \in Touched(SquashRemoved(b, e.removed)) <=> id \in Touched(b)
  BY <1>1 DEF SquashRemoved, Touched, Overlay, Without
<1> QED BY <1>2, <1>3, <1>4 DEF Squash, a, b

-----------------------------------------------------------------------------
(***************************************************************************)
(* The history of a store, and what is told of it.                         *)
(***************************************************************************)
\* An entry that is squashed into the last one leads on as well.
LEMMA EntryLeads ==
    ASSUME NEW history \in Seq(StoreDiff), NEW e \in StoreDiff, NEW id, NEW x,
           NEW y, NEW z, LeadAll(id, x, history, y), Leads(id, y, e, z)
    PROVE  /\ WithEntry(history, e) \in Seq(StoreDiff)
           /\ LeadAll(id, x, WithEntry(history, e), z)
<1> DEFINE n == Len(history)
<1>1. CASE n > 0 /\ history[n] # NoChanges
  <2>1. PICK v : v[0] = x /\ v[n] = y /\ Walks(TRUE, id, v, history)
    BY DEF LeadAll
  <2> DEFINE last == Squash(history[n], e)
             longer == [history EXCEPT ![n] = last]
             w == [k \in 0..n |-> IF k = n THEN z ELSE v[k]]
  <2>2. n \in 1..Len(history) /\ history[n] \in StoreDiff
    BY <1>1
  <2>3. last \in StoreDiff
    BY <2>2, SquashInDiffs DEF StoreDiff
  <2>4. Leads(id, v[n - 1], last, z)
    <3>1. Leads(id, v[n - 1], history[n], y)
      BY <2>1, <2>2 DEF Walks, Goes
    <3> QED BY <3>1, SquashLeads
  <2> HIDE DEF last
  <2>5. /\ longer \in Seq(StoreDiff) /\ Len(longer) = n
        /\ \A k \in 1..n : longer[k] = IF k = n THEN last ELSE history[k]
    BY <2>2, <2>3
  <2>6. ASSUME NEW k \in 1..n PROVE Leads(id, w[k - 1], longer[k], w[k])
    <3>1. CASE k = n
      <4>1. n - 1 \in 0..n /\ n - 1 # n /\ n \in 0..n
        BY <2>2
      <4>2. w[n - 1] = v[n - 1] /\ w[n] = z
        BY <4>1
      <4>3. w[k - 1] = v[n - 1] /\ w[k] = z /\ longer[k] = last
        BY <2>5, <3>1, <4>2
      <4> QED BY <2>4, <4>3
    <3>2. CASE k # n
      <4>1. w[k - 1] = v[k - 1] /\ w[k] = v[k] /\ longer[k] = history[k]
        BY <2>5, <3>2
      <4> QED BY <2>1, <4>1 DEF Walks, Goes
    <3> QED BY <3>1, <3>2
  <2>7. w[0] = x /\ w[n] = z
    BY <2>1, <2>2
  <2>8. WithEntry(history, e) = longer
    BY <1>1 DEF WithEntry, last
  <2> HIDE DEF w, longer
  <2>9. Walks(TRUE, id, w, longer)
    BY <2>5, <2>6 DEF Walks, Goes
  <2> QED BY <2>5, <2>7, <2>8, <2>9 DEF LeadAll
<1>2. CASE ~(n > 0 /\ history[n] # NoChanges)
  <2>1. WithEntry(history, e) = Append(history, e)
    BY <1>2 DEF WithEntry
  <2> QED BY <2>1, LeadOn
<1> QED BY <1>1, <1>2

\* An entry names what it names, and no more records.
LEMMA EntryTouches ==
    ASSUME NEW history \in Seq(StoreDiff), NEW e \in StoreDiff, NEW id,
           id \notin Touched(e)
    PROVE  id \in TouchedBy(WithEntry(history, e)) <=> id \in TouchedBy(history)
<1> DEFINE n == Len(history)
<1>1. CASE n > 0 /\ history[n] # NoChanges
  <2> DEFINE longer == [history EXCEPT ![n] = Squash(history[n], e)]
  <2>1. /\ DOMAIN history = 1..n /\ DOMAIN longer = 1..n /\ n \in 1..n
        /\ \A k \in 1..n : longer[k] = IF k = n THEN Squash(history[n], e)
                                       ELSE history[k]
    BY <1>1
  <2>2. WithEntry(history, e) = longer
    BY <1>1 DEF WithEntry
  <2> HIDE DEF longer
  <2>3. \A k \in 1..n : id \in Touched(longer[k]) <=> id \in Touched(history[k])
    BY <2>1, SquashTouches
  <2> QED BY <2>1, <2>2, <2>3 DEF TouchedBy
<1>2. CASE ~(n > 0 /\ history[n] # NoChanges)
  <2>1. WithEntry(history, e) = Append(history, e)
    BY <1>2 DEF WithEntry
  <2> QED BY <2>1, OneMoreTouched
<1> QED BY <1>1, <1>2

\* No changes name nothing.
LEMMA NoChangesTouch ==
    /\ NoChanges \in StoreDiff /\ Touched(NoChanges) = {}
    /\ \A id, x, y : Leads(id, x, NoChanges, y) <=> x = y
<1>1. NoChanges \in StoreDiff
  BY NoChangesInDiffs DEF StoreDiff
<1>2. Touched(NoChanges) = {}
  BY DEF Touched, NoChanges, NoRecords
<1> QED BY <1>1, <1>2, NoChangesLead

\* What is told of a history is a fold.
LEMMA HeardIs ==
    ASSUME NEW history
    PROVE  Heard(history) = Hearing!Fold(<<>>, history)
BY DEF Heard, FoldLeft, MapThenFoldSet, Max, Hearing!Fold,
       Hearing!MapThenFoldSet, Hearing!Greatest

\* It names the same records.
LEMMA HeardTouches ==
    ASSUME NEW history \in Seq(StoreDiff)
    PROVE  /\ Heard(history) \in Seq(StoreDiff)
           /\ TouchedBy(Heard(history)) = TouchedBy(history)
<1>1. PICK acc : /\ acc[0] = <<>>
                 /\ \A i \in 1..Len(history) : acc[i] = Hear(acc[i - 1], history[i])
                 /\ Hearing!Fold(<<>>, history) = acc[Len(history)]
  BY Hearing!FoldTrace
<1> DEFINE Sofar(k) == UNION {Touched(history[i]) : i \in 1..k}
           S == {k \in Nat : k <= Len(history) =>
                   /\ acc[k] \in Seq(StoreDiff)
                   /\ TouchedBy(acc[k]) = Sofar(k)}
<1>2. 0 \in S
  <2>1. TouchedBy(<<>>) = {} /\ Sofar(0) = {}
    <3>1. DOMAIN <<>> = {} /\ 1..0 = {}
      OBVIOUS
    <3> QED BY <3>1 DEF TouchedBy
  <2> HIDE DEF Sofar
  <2>2. TouchedBy(acc[0]) = Sofar(0)
    BY <1>1, <2>1, Zenon
  <2>3. acc[0] \in Seq(StoreDiff)
    BY <1>1
  <2> QED BY <2>2, <2>3
<1>3. ASSUME NEW k \in Nat, k \in S PROVE k + 1 \in S
  <2> SUFFICES ASSUME k + 1 <= Len(history)
               PROVE  /\ acc[k + 1] \in Seq(StoreDiff)
                      /\ TouchedBy(acc[k + 1]) = Sofar(k + 1)
    OBVIOUS
  <2>1. /\ k + 1 \in 1..Len(history) /\ (k + 1) - 1 = k
        /\ acc[k] \in Seq(StoreDiff) /\ TouchedBy(acc[k]) = Sofar(k)
        /\ history[k + 1] \in StoreDiff
    BY <1>3
  <2>2. acc[k + 1] = Hear(acc[k], history[k + 1])
    BY <1>1, <2>1
  <2>3. Sofar(k + 1) = Sofar(k) \cup Touched(history[k + 1])
    <3>1. 1..k + 1 = 1..k \cup {k + 1}
      OBVIOUS
    <3> QED BY <3>1
  <2> HIDE DEF Sofar
  <2>4. CASE history[k + 1] = NoChanges
    <3>1. acc[k + 1] = acc[k] /\ Touched(history[k + 1]) = {}
      BY <2>2, <2>4, NoChangesTouch DEF Hear
    <3> QED BY <2>1, <2>3, <3>1
  <2>5. CASE history[k + 1] # NoChanges
    <3>1. acc[k + 1] = Append(acc[k], history[k + 1])
      BY <2>2, <2>5 DEF Hear
    <3>2. TouchedBy(acc[k + 1]) = TouchedBy(acc[k]) \cup Touched(history[k + 1])
      BY <2>1, <3>1, OneMoreTouched
    <3> QED BY <2>1, <2>3, <3>1, <3>2
  <2> QED BY <2>4, <2>5
<1>4. Len(history) \in S
  <2> HIDE DEF S
  <2>1. Nat \subseteq S
    BY <1>2, <1>3, Hearing!SetInduction
  <2> QED BY <2>1
<1>5. Sofar(Len(history)) = TouchedBy(history)
  <2>1. DOMAIN history = 1..Len(history)
    OBVIOUS
  <2>2. /\ Sofar(Len(history)) \subseteq TouchedBy(history)
        /\ TouchedBy(history) \subseteq Sofar(Len(history))
    BY <2>1 DEF TouchedBy
  <2> HIDE DEF Sofar
  <2> QED BY <2>2
<1> HIDE DEF Sofar
<1>6. /\ acc[Len(history)] \in Seq(StoreDiff)
      /\ TouchedBy(acc[Len(history)]) = TouchedBy(history)
  BY <1>4, <1>5
<1>7. Heard(history) = acc[Len(history)]
  BY <1>1, HeardIs
<1> HIDE DEF S
<1> QED BY <1>6, <1>7, Zenon

\* And it leads where the history does.
LEMMA HeardLeads ==
    ASSUME NEW history \in Seq(StoreDiff), NEW id, NEW x, NEW y,
           LeadAll(id, x, history, y)
    PROVE  LeadAll(id, x, Heard(history), y)
<1>1. PICK acc : /\ acc[0] = <<>>
                 /\ \A i \in 1..Len(history) : acc[i] = Hear(acc[i - 1], history[i])
                 /\ Hearing!Fold(<<>>, history) = acc[Len(history)]
  BY Hearing!FoldTrace
<1>2. PICK v : v[0] = x /\ v[Len(history)] = y /\ Walks(TRUE, id, v, history)
  BY DEF LeadAll
<1> DEFINE S == {k \in Nat : k <= Len(history) =>
                   /\ acc[k] \in Seq(StoreDiff)
                   /\ LeadAll(id, x, acc[k], v[k])}
<1>3. 0 \in S
  <2>1. LeadAll(id, x, acc[0], v[0])
    BY <1>1, <1>2, NoDiffsLead
  <2>2. acc[0] \in Seq(StoreDiff)
    BY <1>1
  <2> QED BY <2>1, <2>2
<1>4. ASSUME NEW k \in Nat, k \in S PROVE k + 1 \in S
  <2> SUFFICES ASSUME k + 1 <= Len(history)
               PROVE  /\ acc[k + 1] \in Seq(StoreDiff)
                      /\ LeadAll(id, x, acc[k + 1], v[k + 1])
    OBVIOUS
  <2>1. /\ k + 1 \in 1..Len(history) /\ (k + 1) - 1 = k
        /\ acc[k] \in Seq(StoreDiff) /\ LeadAll(id, x, acc[k], v[k])
        /\ history[k + 1] \in StoreDiff
    BY <1>4
  <2>2. /\ acc[k + 1] = Hear(acc[k], history[k + 1])
        /\ Leads(id, v[k], history[k + 1], v[k + 1])
    BY <1>1, <1>2, <2>1 DEF Walks, Goes
  <2>3. CASE history[k + 1] = NoChanges
    <3>1. acc[k + 1] = acc[k]
      BY <2>2, <2>3 DEF Hear
    <3>2. v[k + 1] = v[k]
      BY <2>2, <2>3, NoChangesLead
    <3> QED BY <2>1, <3>1, <3>2
  <2>4. CASE history[k + 1] # NoChanges
    <3>1. acc[k + 1] = Append(acc[k], history[k + 1])
      BY <2>2, <2>4 DEF Hear
    <3> QED BY <2>1, <2>2, <3>1, LeadOn
  <2> QED BY <2>3, <2>4
<1>5. Len(history) \in S
  <2> HIDE DEF S
  <2>1. Nat \subseteq S
    BY <1>3, <1>4, Hearing!SetInduction
  <2> QED BY <2>1
<1> QED BY <1>1, <1>2, <1>5, HeardIs

-----------------------------------------------------------------------------
(***************************************************************************)
(* Types.                                                                  *)
(***************************************************************************)
Tab ==
    [state : {"closed", "loading", "read", "open"}, store : Records,
     history : Seq(StoreDiff), queue : Seq(StoreDiff), inbox : Seq(StoreDiff),
     shouldDoFullDBWrite : BOOLEAN, isPersisting : BOOLEAN, scheduled : BOOLEAN,
     early : SUBSET Ids]

Transaction ==
    [tab : Tabs \cup {Gone}, type : {"load"}]
      \cup [tab : Tabs \cup {Gone}, type : {"storeSnapshot"}, records : Records]
      \cup [tab : Tabs \cup {Gone}, type : {"storeChanges"}, diff : StoreDiff]

TabsTypeOK ==
    /\ db \in Records /\ tabs \in [Tabs -> Tab]
    /\ transactions \in Seq(Transaction)

\* A transaction that a tab waits for: one at most, and it loads the records of
\* a tab that is not open or writes those of one that is.
OneTransactionEach ==
    /\ \A i \in DOMAIN transactions :
         LET tx == transactions[i]
         IN  tx.tab \in Tabs =>
               IF tx.type = "load" THEN tabs[tx.tab].state = "loading"
               ELSE tabs[tx.tab].state = "open" /\ tabs[tx.tab].isPersisting
    /\ \A i, j \in DOMAIN transactions :
         transactions[i].tab = transactions[j].tab /\ transactions[i].tab \in Tabs
           => i = j

\* A tab that is not open has changed nothing, and hears nothing.
Idle(tab) ==
    /\ tab.shouldDoFullDBWrite /\ ~tab.scheduled
    /\ tab.inbox = <<>> /\ tab.history = <<>>

IdleUnlessOpen == \A t \in Tabs : ~IsOpen(t) => Idle(tabs[t])

TabsShape == TabsTypeOK /\ OneTransactionEach /\ IdleUnlessOpen

\* What two stores differ in is a diff of the records.
LEMMA BetweenType ==
    ASSUME NEW old \in Records, NEW new \in Records
    PROVE  Between(old, new) \in StoreDiff
BY BetweenInDiffs DEF StoreDiff, Records

\* A store that one is applied to stays a store.
LEMMA ApplyChangesType ==
    ASSUME NEW records \in Records, NEW diff \in StoreDiff
    PROVE  ApplyChanges(records, diff) \in Records
BY ApplyInStores DEF StoreDiff, Records

\* The queue as one diff is a fold, and a diff of the records.
LEMMA SquashedQueueIs ==
    ASSUME NEW tab
    PROVE  /\ SquashedQueue(tab) = Squashing!Fold(NoChanges, tab.queue)
           /\ tab.queue \in Seq(StoreDiff) => SquashedQueue(tab) \in StoreDiff
<1>1. SquashedQueue(tab) = Squashing!Fold(NoChanges, tab.queue)
  BY DEF SquashedQueue, FoldLeft, MapThenFoldSet, Max, Squashing!Fold,
         Squashing!MapThenFoldSet, Squashing!Greatest
<1>2. \A d, e \in StoreDiff : Squash(d, e) \in StoreDiff
  BY SquashInDiffs DEF StoreDiff
<1>3. ASSUME tab.queue \in Seq(StoreDiff)
      PROVE  Squashing!Fold(NoChanges, tab.queue) \in StoreDiff
  BY <1>2, <1>3, NoChangesTouch, Squashing!FoldKeeps
<1> QED BY <1>1, <1>3

-----------------------------------------------------------------------------
(***************************************************************************)
(* What the helpers do to a tab.                                           *)
(***************************************************************************)
\* Closed tabs, and those that begin to load.
LEMMA ClosedIs ==
    /\ Closed \in Tab /\ Closed.state = "closed" /\ Idle(Closed)
    /\ Opened \in Tab /\ Opened.state = "loading" /\ Idle(Opened)
<1>1. <<>> \in Seq(StoreDiff) /\ [id \in Ids |-> Absent] \in Records
  BY DEF Records
<1>2. Closed \in Tab
  BY <1>1 DEF Closed, Tab
<1>3. Opened \in Tab
  BY <1>2, Zenon DEF Opened, Tab
<1>4. /\ Closed.state = "closed" /\ Closed.inbox = <<>> /\ Closed.history = <<>>
      /\ Closed.shouldDoFullDBWrite = TRUE /\ Closed.scheduled = FALSE
  BY DEF Closed
<1>5. /\ Opened.state = "loading" /\ Opened.inbox = Closed.inbox
      /\ Opened.history = Closed.history
      /\ Opened.shouldDoFullDBWrite = Closed.shouldDoFullDBWrite
      /\ Opened.scheduled = Closed.scheduled
  BY <1>2, Zenon DEF Opened, Tab
<1> QED BY <1>2, <1>3, <1>4, <1>5 DEF Idle

\* Two tabs that differ in their timer and in what is under way at most.
SameWork(tab, other) ==
    /\ other.state = tab.state /\ other.store = tab.store
    /\ other.history = tab.history /\ other.queue = tab.queue
    /\ other.inbox = tab.inbox /\ other.early = tab.early
    /\ other.shouldDoFullDBWrite = tab.shouldDoFullDBWrite

\* Scheduling a persist changes nothing in what a tab has to write.
LEMMA SchedulePersistIs ==
    ASSUME NEW tab \in Tab
    PROVE  /\ SchedulePersist(tab) \in Tab
           /\ SameWork(tab, SchedulePersist(tab))
           /\ SchedulePersist(tab).isPersisting = tab.isPersisting
BY Zenon DEF SchedulePersist, Tab, SameWork

\* The end of a persist changes nothing in what a tab has to write.
LEMMA PersistedIs ==
    ASSUME NEW tab \in Tab
    PROVE  Persisted(tab) \in Tab /\ SameWork(tab, Persisted(tab))
<1> DEFINE done == [tab EXCEPT !.isPersisting = FALSE]
<1>1. done \in Tab /\ SameWork(tab, done)
  BY Zenon DEF Tab, SameWork
<1> HIDE DEF done
<1>2. SchedulePersist(done) \in Tab /\ SameWork(done, SchedulePersist(done))
  BY <1>1, SchedulePersistIs
<1> QED BY <1>1, <1>2 DEF Persisted, SameWork, done

\* What diffs of the records name are records.
LEMMA TouchedAreIds ==
    ASSUME NEW ds \in Seq(StoreDiff)
    PROVE  TouchedBy(ds) \subseteq Ids
<1>1. \A i \in DOMAIN ds : ds[i] \in StoreDiff
  OBVIOUS
<1>2. \A i \in DOMAIN ds : Touched(ds[i]) \subseteq Ids
  BY <1>1, DiffAt
<1> QED BY <1>2 DEF TouchedBy

\* What a transaction takes from a tab.
LEMMA TakeQueueIs ==
    ASSUME NEW tab \in Tab
    PROVE  /\ TakeQueue(tab) \in Tab
           /\ TakeQueue(tab).state = tab.state
           /\ TakeQueue(tab).store = tab.store
           /\ TakeQueue(tab).history = tab.history
           /\ TakeQueue(tab).inbox = tab.inbox
           /\ TakeQueue(tab).queue = <<>>
           /\ TakeQueue(tab).isPersisting = TRUE
           /\ TakeQueue(tab).early =
                IF tab.shouldDoFullDBWrite THEN TouchedBy(tab.history)
                ELSE tab.early \ Touched(SquashedQueue(tab))
<1> DEFINE early == IF tab.shouldDoFullDBWrite THEN TouchedBy(tab.history)
                    ELSE tab.early \ Touched(SquashedQueue(tab))
<1>1. <<>> \in Seq(StoreDiff)
  OBVIOUS
<1>2. early \in SUBSET Ids
  <2>1. tab.history \in Seq(StoreDiff) /\ tab.early \in SUBSET Ids
    BY DEF Tab
  <2> QED BY <2>1, TouchedAreIds
<1>3. TakeQueue(tab) = [tab EXCEPT !.queue = <<>>, !.shouldDoFullDBWrite = FALSE,
                          !.isPersisting = TRUE, !.scheduled = FALSE,
                          !.early = early]
  BY DEF TakeQueue
<1> HIDE DEF early
<1>4. /\ TakeQueue(tab) \in Tab
      /\ TakeQueue(tab).state = tab.state
      /\ TakeQueue(tab).store = tab.store
      /\ TakeQueue(tab).history = tab.history
      /\ TakeQueue(tab).inbox = tab.inbox
      /\ TakeQueue(tab).queue = <<>>
      /\ TakeQueue(tab).isPersisting = TRUE
      /\ TakeQueue(tab).early = early
  BY <1>1, <1>2, <1>3, Zenon DEF Tab
<1> QED BY <1>4 DEF early

\* What a tab is after it merged a diff from another tab.
LEMMA ReceivedIs ==
    ASSUME NEW tab \in Tab, tab.inbox # <<>>
    PROVE  /\ Received(tab) \in Tab
           /\ Received(tab).state = tab.state
           /\ Received(tab).isPersisting = tab.isPersisting
           /\ Received(tab).inbox = Tail(tab.inbox)
           /\ Received(tab).store = ApplyChanges(tab.store, Head(tab.inbox))
           /\ \/ Received(tab).history = tab.history
              \/ Received(tab).history = Append(tab.history, NoChanges)
<1> DEFINE next == ApplyChanges(tab.store, Head(tab.inbox))
           told == IF tab.store = next \/ tab.history = <<>> THEN tab.history
                   ELSE Append(tab.history, NoChanges)
<1>1. /\ tab.inbox \in Seq(StoreDiff) /\ tab.store \in Records
      /\ tab.history \in Seq(StoreDiff)
  BY DEF Tab
<1>2. Tail(tab.inbox) \in Seq(StoreDiff) /\ Head(tab.inbox) \in StoreDiff
  BY <1>1
<1>3. next \in Records
  BY <1>1, <1>2, ApplyChangesType
<1>4. /\ told \in Seq(StoreDiff)
      /\ told = tab.history \/ told = Append(tab.history, NoChanges)
  BY <1>1, NoChangesTouch
<1>5. Received(tab) = [[tab EXCEPT !.store = next, !.history = told]
                         EXCEPT !.inbox = Tail(tab.inbox)]
  BY Zenon DEF Received, RemoteChange
<1> HIDE DEF next, told
<1> DEFINE changed == [tab EXCEPT !.store = next, !.history = told]
<1>6. /\ changed \in Tab /\ changed.state = tab.state
      /\ changed.isPersisting = tab.isPersisting
      /\ changed.inbox = tab.inbox /\ changed.store = next
      /\ changed.history = told
  BY <1>3, <1>4, Zenon DEF Tab
<1>7. Received(tab) = [changed EXCEPT !.inbox = Tail(tab.inbox)]
  BY <1>5
<1> HIDE DEF changed
<1>8. /\ Received(tab) \in Tab /\ Received(tab).state = changed.state
      /\ Received(tab).isPersisting = changed.isPersisting
      /\ Received(tab).inbox = Tail(tab.inbox)
      /\ Received(tab).store = changed.store
      /\ Received(tab).history = changed.history
  BY <1>2, <1>6, <1>7, Zenon DEF Tab
<1> QED BY <1>4, <1>6, <1>8 DEF next

-----------------------------------------------------------------------------
(***************************************************************************)
(* What the actions do to the tabs.                                        *)
(***************************************************************************)
\* The tab whose user changes a record.
LEMMA EditIs ==
    ASSUME TabsTypeOK, NEW t \in Tabs, NEW id \in Ids,
           NEW value \in Vals \cup {Absent}, Edit(t, id, value)
    PROVE  \E d \in Tab : \E shown \in Records :
             /\ tabs' = [tabs EXCEPT ![t] = d]
             /\ shown = [tabs[t].store EXCEPT ![id] = value]
             /\ Between(tabs[t].store, shown) \in StoreDiff
             /\ d.state = tabs[t].state /\ d.isPersisting = tabs[t].isPersisting
             /\ d.shouldDoFullDBWrite = tabs[t].shouldDoFullDBWrite
             /\ d.queue = tabs[t].queue /\ d.inbox = tabs[t].inbox
             /\ d.early = tabs[t].early /\ d.store = shown
             /\ d.history
                  = WithEntry(tabs[t].history, Between(tabs[t].store, shown))
<1> DEFINE shown == [tabs[t].store EXCEPT ![id] = value]
           entry == Between(tabs[t].store, shown)
           told == WithEntry(tabs[t].history, entry)
           d == [tabs[t] EXCEPT !.store = shown, !.history = told]
<1>1. /\ tabs[t] \in Tab /\ tabs[t].store \in Records
      /\ tabs[t].history \in Seq(StoreDiff)
  BY DEF TabsTypeOK, Tab
<1>2. tabs' = [tabs EXCEPT ![t] = d]
  BY Zenon DEF Edit, UserChange
<1>3. shown \in Records
  BY <1>1 DEF Records
<1>4. entry \in StoreDiff
  BY <1>1, <1>3, BetweenType
<1> HIDE DEF shown, entry
<1>5. told \in Seq(StoreDiff)
  <2> DEFINE n == Len(tabs[t].history)
  <2>1. CASE n > 0 /\ tabs[t].history[n] # NoChanges
    <3>1. n \in 1..Len(tabs[t].history) /\ tabs[t].history[n] \in StoreDiff
      BY <1>1, <2>1
    <3>2. Squash(tabs[t].history[n], entry) \in StoreDiff
      BY <1>4, <3>1, SquashInDiffs DEF StoreDiff
    <3> DEFINE last == Squash(tabs[t].history[n], entry)
    <3>3. told = [tabs[t].history EXCEPT ![n] = last]
      BY <2>1, Zenon DEF WithEntry
    <3>4. last \in StoreDiff
      BY <3>2
    <3> HIDE DEF last
    <3>5. [tabs[t].history EXCEPT ![n] = last] \in Seq(StoreDiff)
      BY <1>1, <3>1, <3>4
    <3> QED BY <3>3, <3>5, Zenon
  <2>2. CASE ~(n > 0 /\ tabs[t].history[n] # NoChanges)
    <3>1. told = Append(tabs[t].history, entry)
      BY <2>2, Zenon DEF WithEntry
    <3> QED BY <1>1, <1>4, <3>1
  <2> QED BY <2>1, <2>2
<1> HIDE DEF told
<1>6. /\ d \in Tab /\ d.state = tabs[t].state
      /\ d.isPersisting = tabs[t].isPersisting
      /\ d.shouldDoFullDBWrite = tabs[t].shouldDoFullDBWrite
      /\ d.queue = tabs[t].queue /\ d.inbox = tabs[t].inbox
      /\ d.early = tabs[t].early /\ d.store = shown
      /\ d.history = told
  BY <1>1, <1>3, <1>5, Zenon DEF Tab
<1> HIDE DEF d
<1> QED BY <1>2, <1>3, <1>4, <1>6 DEF shown, entry, told

\* A frame: the tab whose changes are told, and those that will hear of them.
LEMMA FlushIs ==
    ASSUME TabsTypeOK, NEW t \in Tabs, NEW session, FlushHistory(t, session)
    PROVE  LET diffs == Heard(tabs[t].history)
           IN  /\ diffs \in Seq(StoreDiff)
               /\ tabs' \in [Tabs -> Tab]
               /\ tabs'[t].state = tabs[t].state
               /\ tabs'[t].isPersisting = tabs[t].isPersisting
               /\ tabs'[t].shouldDoFullDBWrite = tabs[t].shouldDoFullDBWrite
               /\ tabs'[t].inbox = tabs[t].inbox
               /\ tabs'[t].store = tabs[t].store
               /\ tabs'[t].early = tabs[t].early
               /\ tabs'[t].history = <<>>
               /\ \E rest \in Seq(StoreDiff) :
                    /\ \A i \in DOMAIN rest : rest[i] = NoChanges
                    /\ tabs'[t].queue = tabs[t].queue \o (diffs \o rest)
               /\ \A u \in Tabs \ {t} :
                    IF IsOpen(u)
                    THEN /\ tabs'[u].state = tabs[u].state
                         /\ tabs'[u].isPersisting = tabs[u].isPersisting
                         /\ tabs'[u].history = tabs[u].history
                         /\ tabs'[u].store = tabs[u].store
                         /\ tabs'[u].inbox = tabs[u].inbox \o diffs
                    ELSE tabs'[u] = tabs[u]
<1> DEFINE diffs == Heard(tabs[t].history)
           rest == IF session THEN <<NoChanges>> ELSE <<>>
           queued == diffs \o rest
           flushed == [tabs[t] EXCEPT !.history = <<>>, !.queue = @ \o queued]
           d == IF queued = <<>> THEN flushed ELSE SchedulePersist(flushed)
           heard(u) == [tabs[u] EXCEPT !.inbox = @ \o diffs]
<1>1. tabs' = [Broadcast(t, diffs) EXCEPT ![t] = d]
  BY Zenon DEF FlushHistory
<1>2. /\ tabs[t] \in Tab /\ tabs[t].history \in Seq(StoreDiff)
      /\ tabs[t].queue \in Seq(StoreDiff)
  BY DEF TabsTypeOK, Tab
<1>3. diffs \in Seq(StoreDiff)
  BY <1>2, HeardTouches
<1>4. rest \in Seq(StoreDiff) /\ \A i \in DOMAIN rest : rest[i] = NoChanges
  BY NoChangesTouch
<1> HIDE DEF diffs, rest
<1>5. queued \in Seq(StoreDiff)
  BY <1>3, <1>4
<1> HIDE DEF queued
<1>6. /\ flushed \in Tab /\ flushed.state = tabs[t].state
      /\ flushed.isPersisting = tabs[t].isPersisting
      /\ flushed.shouldDoFullDBWrite = tabs[t].shouldDoFullDBWrite
      /\ flushed.inbox = tabs[t].inbox /\ flushed.store = tabs[t].store
      /\ flushed.early = tabs[t].early /\ flushed.history = <<>>
      /\ flushed.queue = tabs[t].queue \o queued
  <2>1. tabs[t].queue \o queued \in Seq(StoreDiff) /\ <<>> \in Seq(StoreDiff)
    BY <1>2, <1>5
  <2> QED BY <1>2, <2>1, Zenon DEF Tab
<1> HIDE DEF flushed
<1>7. d \in Tab /\ SameWork(flushed, d) /\ d.isPersisting = flushed.isPersisting
  <2>1. /\ SchedulePersist(flushed) \in Tab
        /\ SameWork(flushed, SchedulePersist(flushed))
        /\ SchedulePersist(flushed).isPersisting = flushed.isPersisting
    BY <1>6, SchedulePersistIs
  <2>2. SameWork(flushed, flushed)
    BY DEF SameWork
  <2> QED BY <1>6, <2>1, <2>2
<1> HIDE DEF d
<1>8. ASSUME NEW u \in Tabs
      PROVE  /\ heard(u) \in Tab /\ heard(u).state = tabs[u].state
             /\ heard(u).isPersisting = tabs[u].isPersisting
             /\ heard(u).history = tabs[u].history
             /\ heard(u).store = tabs[u].store
             /\ heard(u).inbox = tabs[u].inbox \o diffs
  <2>1. tabs[u] \in Tab
    BY DEF TabsTypeOK
  <2>2. tabs[u].inbox \in Seq(StoreDiff)
    BY <2>1 DEF Tab
  <2>3. tabs[u].inbox \o diffs \in Seq(StoreDiff)
    BY <1>3, <2>2
  <2> QED BY <2>1, <2>3, Zenon DEF Tab
<1>9. tabs' = [u \in Tabs |-> IF u = t THEN d
                              ELSE IF IsOpen(u) THEN heard(u) ELSE tabs[u]]
  BY <1>1 DEF Broadcast
<1> HIDE DEF heard
<1>10. tabs' \in [Tabs -> Tab]
  BY <1>7, <1>8, <1>9 DEF TabsTypeOK
<1>11. /\ tabs'[t] = d
       /\ \A u \in Tabs \ {t} :
            tabs'[u] = IF IsOpen(u) THEN heard(u) ELSE tabs[u]
  BY <1>9
<1>12. /\ tabs'[t].state = tabs[t].state
       /\ tabs'[t].isPersisting = tabs[t].isPersisting
       /\ tabs'[t].shouldDoFullDBWrite = tabs[t].shouldDoFullDBWrite
       /\ tabs'[t].inbox = tabs[t].inbox
       /\ tabs'[t].store = tabs[t].store
       /\ tabs'[t].early = tabs[t].early
       /\ tabs'[t].history = <<>>
       /\ tabs'[t].queue = tabs[t].queue \o (diffs \o rest)
  BY <1>6, <1>7, <1>11 DEF SameWork, queued
<1>13. \A u \in Tabs \ {t} :
         IF IsOpen(u)
         THEN /\ tabs'[u].state = tabs[u].state
              /\ tabs'[u].isPersisting = tabs[u].isPersisting
              /\ tabs'[u].history = tabs[u].history
              /\ tabs'[u].store = tabs[u].store
              /\ tabs'[u].inbox = tabs[u].inbox \o diffs
         ELSE tabs'[u] = tabs[u]
  BY <1>8, <1>11
<1> QED BY <1>3, <1>4, <1>10, <1>12, <1>13, Zenon DEF diffs

\* A message arrives.
LEMMA ReceiveIs ==
    ASSUME TabsTypeOK, NEW t \in Tabs, Receive(t)
    PROVE  /\ tabs' = [tabs EXCEPT ![t] = Received(tabs[t])]
           /\ tabs[t] \in Tab /\ tabs[t].inbox # <<>>
BY DEF Receive, TabsTypeOK

\* The records are there.
LEMMA LoadedIs ==
    ASSUME TabsTypeOK, NEW t \in Tabs, Loaded(t)
    PROVE  \E d \in Tab : /\ tabs' = [tabs EXCEPT ![t] = d]
                          /\ d.state = "open" /\ d.store = tabs[t].store
                          /\ d.inbox = tabs[t].inbox
                          /\ d.history = tabs[t].history
                          /\ Idle(tabs[t]) => Idle(d)
<1> DEFINE d == [tabs[t] EXCEPT !.state = "open"]
<1>1. tabs' = [tabs EXCEPT ![t] = d]
  BY Zenon DEF Loaded
<1>2. tabs[t] \in Tab
  BY DEF TabsTypeOK
<1>3. /\ d \in Tab /\ d.state = "open" /\ d.store = tabs[t].store
      /\ d.inbox = tabs[t].inbox /\ d.history = tabs[t].history
      /\ d.shouldDoFullDBWrite = tabs[t].shouldDoFullDBWrite
      /\ d.scheduled = tabs[t].scheduled
  BY <1>2, Zenon DEF Tab
<1> HIDE DEF d
<1> QED BY <1>1, <1>3 DEF Idle

\* A timer: what is written, if anything is.
LEMMA PersistTimerIs ==
    ASSUME TabsTypeOK, NEW t \in Tabs, PersistTimer(t)
    PROVE  \/ \E tx \in Transaction :
                /\ ~tabs[t].isPersisting
                /\ tabs' = [tabs EXCEPT ![t] = TakeQueue(tabs[t])]
                /\ transactions' = Append(transactions, tx)
                /\ tx.tab = t
                /\ tx = IF tabs[t].shouldDoFullDBWrite
                          THEN StoreSnapshot(t, tabs[t].store)
                          ELSE StoreChanges(t, SquashedQueue(tabs[t]))
           \/ \E d \in Tab :
                /\ tabs' = [tabs EXCEPT ![t] = d] /\ UNCHANGED transactions
                /\ SameWork(tabs[t], d)
                /\ d.isPersisting = tabs[t].isPersisting
<1>1. tabs[t] \in Tab /\ tabs[t].store \in Records
      /\ tabs[t].queue \in Seq(StoreDiff)
  BY DEF TabsTypeOK, Tab
<1>2. SquashedQueue(tabs[t]) \in StoreDiff
  BY <1>1, SquashedQueueIs
<1>3. /\ StoreSnapshot(t, tabs[t].store) \in Transaction
      /\ StoreSnapshot(t, tabs[t].store).tab = t
      /\ StoreChanges(t, SquashedQueue(tabs[t])) \in Transaction
      /\ StoreChanges(t, SquashedQueue(tabs[t])).tab = t
  BY <1>1, <1>2 DEF StoreSnapshot, StoreChanges, Transaction
<1> DEFINE d == [tabs[t] EXCEPT !.scheduled = FALSE]
<1>4. d \in Tab /\ SameWork(tabs[t], d)
      /\ d.isPersisting = tabs[t].isPersisting
  BY <1>1, Zenon DEF Tab, SameWork
<1>5. \/ /\ ~tabs[t].isPersisting
         /\ tabs' = [tabs EXCEPT ![t] = TakeQueue(tabs[t])]
         /\ transactions' = Append(transactions,
              IF tabs[t].shouldDoFullDBWrite
                THEN StoreSnapshot(t, tabs[t].store)
                ELSE StoreChanges(t, SquashedQueue(tabs[t])))
      \/ tabs' = [tabs EXCEPT ![t] = d] /\ UNCHANGED transactions
  BY DEF PersistTimer
<1> HIDE DEF d
<1> QED BY <1>3, <1>4, <1>5

\* A transaction is done: the tab that waits for it goes on.
LEMMA CommitIs ==
    ASSUME TabsTypeOK, Commit
    PROVE  LET tx == Head(transactions)
           IN  /\ transactions # <<>> /\ tx \in Transaction
               /\ db' = Write(db, tx) /\ db' \in Records
               /\ transactions' = Tail(transactions)
               /\ tabs' \in [Tabs -> Tab]
               /\ \A u \in Tabs :
                    /\ u # tx.tab => tabs'[u] = tabs[u]
                    /\ u = tx.tab /\ tx.type = "load" =>
                         /\ tabs'[u].state = "read" /\ tabs'[u].store = db
                         /\ Idle(tabs[u]) => Idle(tabs'[u])
                    /\ u = tx.tab /\ tx.type # "load" =>
                         SameWork(tabs[u], tabs'[u])
<1> DEFINE tx == Head(transactions)
           read(u) == [tabs[u] EXCEPT !.state = "read", !.store = db]
<1>1. transactions # <<>> /\ tx \in Transaction
  <2>1. transactions # <<>> /\ transactions \in Seq(Transaction)
    BY DEF Commit, TabsTypeOK
  <2> QED BY <2>1
<1>2. /\ db' = Write(db, tx) /\ transactions' = Tail(transactions)
      /\ tabs' = [u \in Tabs |-> IF tx.tab # u THEN tabs[u]
                                 ELSE IF tx.type = "load" THEN read(u)
                                 ELSE Persisted(tabs[u])]
  BY DEF Commit
<1> HIDE DEF tx
<1>3. db' \in Records
  BY <1>1, <1>2, ApplyChangesType DEF Write, Transaction, TabsTypeOK
<1>4. ASSUME NEW u \in Tabs
      PROVE  /\ tabs[u] \in Tab
             /\ read(u) \in Tab /\ read(u).state = "read"
             /\ read(u).store = db
             /\ Idle(tabs[u]) => Idle(read(u))
             /\ Persisted(tabs[u]) \in Tab
             /\ SameWork(tabs[u], Persisted(tabs[u]))
  <2>1. tabs[u] \in Tab /\ db \in Records
    BY DEF TabsTypeOK
  <2>2. /\ Persisted(tabs[u]) \in Tab
        /\ SameWork(tabs[u], Persisted(tabs[u]))
    BY <2>1, PersistedIs
  <2>3. /\ read(u) \in Tab /\ read(u).state = "read"
        /\ read(u).store = db /\ read(u).inbox = tabs[u].inbox
        /\ read(u).scheduled = tabs[u].scheduled
        /\ read(u).history = tabs[u].history
        /\ read(u).shouldDoFullDBWrite = tabs[u].shouldDoFullDBWrite
    BY <2>1, Zenon DEF Tab
  <2> HIDE DEF read
  <2>4. Idle(tabs[u]) => Idle(read(u))
    BY <2>3 DEF Idle
  <2> QED BY <2>1, <2>2, <2>3, <2>4
<1> HIDE DEF read
<1>5. \A u \in Tabs : /\ tx.tab # u => tabs'[u] = tabs[u]
                      /\ tx.tab = u /\ tx.type = "load" => tabs'[u] = read(u)
                      /\ tx.tab = u /\ tx.type # "load" =>
                           tabs'[u] = Persisted(tabs[u])
  BY <1>2
<1>6. tabs' \in [Tabs -> Tab]
  <2>1. DOMAIN tabs' = Tabs /\ tabs' = [u \in Tabs |-> tabs'[u]]
    BY <1>2
  <2>2. \A u \in Tabs : tabs'[u] \in Tab
    BY <1>4, <1>5
  <2> QED BY <2>1, <2>2
<1> QED BY <1>1, <1>2, <1>3, <1>4, <1>5, <1>6 DEF tx

-----------------------------------------------------------------------------
(***************************************************************************)
(* Transactions and the tabs that wait for them.                           *)
(***************************************************************************)
\* A step that starts and ends no transaction, opens and closes no tab.
LEMMA ShapeKept ==
    ASSUME TabsShape, tabs' \in [Tabs -> Tab], UNCHANGED <<db, transactions>>,
           \A u \in Tabs : /\ tabs'[u].state = tabs[u].state
                           /\ tabs'[u].isPersisting = tabs[u].isPersisting
                           /\ ~IsOpen(u) => tabs'[u] = tabs[u]
    PROVE  TabsShape'
<1>1. TabsTypeOK'
  BY DEF TabsShape, TabsTypeOK
<1>2. OneTransactionEach'
  BY DEF TabsShape, OneTransactionEach
<1>3. IdleUnlessOpen'
  BY DEF TabsShape, IdleUnlessOpen, IsOpen
<1> QED BY <1>1, <1>2, <1>3 DEF TabsShape

\* A sequence without one of its elements.
LEMMA RemoveAtIs ==
    ASSUME NEW T, NEW seq \in Seq(T), NEW i \in 1..Len(seq)
    PROVE  /\ RemoveAt(seq, i) \in Seq(T)
           /\ Len(RemoveAt(seq, i)) = Len(seq) - 1
           /\ \A j \in 1..Len(seq) - 1 :
                RemoveAt(seq, i)[j] = seq[IF j < i THEN j ELSE j + 1]
<1> DEFINE front == SubSeq(seq, 1, i - 1)
           back == SubSeq(seq, i + 1, Len(seq))
<1>1. /\ front \in Seq(T) /\ Len(front) = i - 1
      /\ \A j \in 1..i - 1 : front[j] = seq[j]
  OBVIOUS
<1>2. /\ back \in Seq(T) /\ Len(back) = Len(seq) - i
      /\ \A j \in 1..Len(seq) - i : back[j] = seq[i + j]
  OBVIOUS
<1> HIDE DEF front, back
<1>3. /\ front \o back \in Seq(T) /\ Len(front \o back) = Len(seq) - 1
  BY <1>1, <1>2
<1>4. ASSUME NEW j \in 1..Len(seq) - 1
      PROVE  (front \o back)[j] = seq[IF j < i THEN j ELSE j + 1]
  <2>1. CASE j < i
    BY <1>1, <1>2, <2>1
  <2>2. CASE ~(j < i)
    <3>1. /\ j - Len(front) \in 1..Len(seq) - i
          /\ i + (j - Len(front)) = j + 1
      BY <1>1, <2>2
    <3>2. (front \o back)[j] = back[j - Len(front)]
      BY <1>1, <1>2, <2>2
    <3> QED BY <1>2, <2>2, <3>1, <3>2
  <2> QED BY <2>1, <2>2
<1> QED BY <1>3, <1>4 DEF RemoveAt, front, back

\* An edit keeps the shape of the tabs.
LEMMA EditShape ==
    ASSUME TabsShape, NEW t \in Tabs, NEW id \in Ids,
           NEW value \in Vals \cup {Absent}, Edit(t, id, value)
    PROVE  TabsShape'
<1>1. IsOpen(t) /\ UNCHANGED <<db, transactions>>
  BY DEF Edit
<1>2. PICK d \in Tab : /\ tabs' = [tabs EXCEPT ![t] = d]
                       /\ d.state = tabs[t].state
                       /\ d.isPersisting = tabs[t].isPersisting
  <2>1. TabsTypeOK
    BY DEF TabsShape
  <2>2. PICK d \in Tab : \E other \in Records :
          /\ tabs' = [tabs EXCEPT ![t] = d]
          /\ d.state = tabs[t].state
          /\ d.isPersisting = tabs[t].isPersisting
    BY <2>1, EditIs, Zenon
  <2> QED BY <2>2
<1>3. /\ tabs' \in [Tabs -> Tab]
      /\ \A u \in Tabs : /\ tabs'[u].state = tabs[u].state
                         /\ tabs'[u].isPersisting = tabs[u].isPersisting
                         /\ ~IsOpen(u) => tabs'[u] = tabs[u]
  BY <1>1, <1>2 DEF TabsShape, TabsTypeOK
<1> QED BY <1>1, <1>3, ShapeKept

\* A message from another tab keeps the shape of the tabs.
LEMMA ReceiveShape ==
    ASSUME TabsShape, NEW t \in Tabs, Receive(t)
    PROVE  TabsShape'
<1>1. /\ tabs' = [tabs EXCEPT ![t] = Received(tabs[t])]
      /\ tabs[t] \in Tab /\ tabs[t].inbox # <<>>
  BY ReceiveIs DEF TabsShape
<1>2. IsOpen(t) /\ UNCHANGED <<db, transactions>>
  BY <1>1 DEF Receive, TabsShape, IdleUnlessOpen, Idle
<1>3. /\ Received(tabs[t]) \in Tab
      /\ Received(tabs[t]).state = tabs[t].state
      /\ Received(tabs[t]).isPersisting = tabs[t].isPersisting
  BY <1>1, ReceivedIs
<1>4. /\ tabs' \in [Tabs -> Tab]
      /\ \A u \in Tabs : /\ tabs'[u].state = tabs[u].state
                         /\ tabs'[u].isPersisting = tabs[u].isPersisting
                         /\ ~IsOpen(u) => tabs'[u] = tabs[u]
  BY <1>1, <1>2, <1>3 DEF TabsShape, TabsTypeOK
<1> QED BY <1>2, <1>4, ShapeKept

\* A frame keeps the shape of the tabs.
LEMMA FlushShape ==
    ASSUME TabsShape, NEW t \in Tabs, NEW session, FlushHistory(t, session)
    PROVE  TabsShape'
<1>1. IsOpen(t) /\ UNCHANGED <<db, transactions>>
  BY DEF FlushHistory
<1> DEFINE diffs == Heard(tabs[t].history)
<1>2. /\ tabs' \in [Tabs -> Tab]
      /\ tabs'[t].state = tabs[t].state
      /\ tabs'[t].isPersisting = tabs[t].isPersisting
      /\ \A u \in Tabs \ {t} :
           IF IsOpen(u)
           THEN /\ tabs'[u].state = tabs[u].state
                /\ tabs'[u].isPersisting = tabs[u].isPersisting
                /\ tabs'[u].history = tabs[u].history
                /\ tabs'[u].store = tabs[u].store
                /\ tabs'[u].inbox = tabs[u].inbox \o diffs
           ELSE tabs'[u] = tabs[u]
  BY FlushIs DEF TabsShape
<1> HIDE DEF diffs
<1>3. \A u \in Tabs : /\ tabs'[u].state = tabs[u].state
                      /\ tabs'[u].isPersisting = tabs[u].isPersisting
                      /\ ~IsOpen(u) => tabs'[u] = tabs[u]
  BY <1>1, <1>2
<1> QED BY <1>1, <1>2, <1>3, ShapeKept

\* A tab that opens its own door waits for nothing.
LEMMA LoadedShape ==
    ASSUME TabsShape, NEW t \in Tabs, Loaded(t)
    PROVE  TabsShape'
<1>1. PICK d \in Tab : tabs' = [tabs EXCEPT ![t] = d] /\ d.state = "open"
  BY LoadedIs DEF TabsShape
<1>2. tabs[t].state = "read" /\ UNCHANGED <<db, transactions>>
  BY DEF Loaded
<1>3. /\ tabs'[t] = d /\ \A u \in Tabs \ {t} : tabs'[u] = tabs[u]
  BY <1>1 DEF TabsShape, TabsTypeOK
<1>4. TabsTypeOK'
  BY <1>1, <1>2 DEF TabsShape, TabsTypeOK
<1>5. OneTransactionEach'
  BY <1>2, <1>3 DEF TabsShape, OneTransactionEach
<1>6. IdleUnlessOpen'
  BY <1>1, <1>3 DEF TabsShape, IdleUnlessOpen, IsOpen
<1> QED BY <1>4, <1>5, <1>6 DEF TabsShape

\* A transaction that starts: the tab has no other.
LEMMA TransactionStarts ==
    ASSUME TabsShape, NEW t \in Tabs, NEW tx \in Transaction, tx.tab = t,
           NEW d \in Tab, tabs' = [tabs EXCEPT ![t] = d], db' = db,
           transactions' = Append(transactions, tx),
           \A i \in DOMAIN transactions : transactions[i].tab # t,
           IF tx.type = "load" THEN d.state = "loading"
           ELSE d.state = "open" /\ d.isPersisting,
           d.state # "open" => Idle(d)
    PROVE  TabsShape'
<1>1. /\ tabs'[t] = d /\ \A u \in Tabs \ {t} : tabs'[u] = tabs[u]
      /\ transactions \in Seq(Transaction)
  BY DEF TabsShape, TabsTypeOK
<1>2. TabsTypeOK'
  BY DEF TabsShape, TabsTypeOK
<1>3. /\ DOMAIN transactions' = 1..Len(transactions) + 1
      /\ DOMAIN transactions = 1..Len(transactions)
      /\ transactions'[Len(transactions) + 1] = tx
      /\ \A i \in 1..Len(transactions) : transactions'[i] = transactions[i]
  BY <1>1
<1>4. Len(transactions) \in Nat
  BY <1>1
<1>5. OneTransactionEach'
  BY <1>1, <1>3, <1>4 DEF TabsShape, OneTransactionEach
<1>6. IdleUnlessOpen'
  BY <1>1 DEF TabsShape, IdleUnlessOpen, IsOpen
<1> QED BY <1>2, <1>5, <1>6 DEF TabsShape

\* Opening a tab keeps the shape of the tabs.
LEMMA OpenShape ==
    ASSUME TabsShape, NEW t \in Tabs, Open(t)
    PROVE  TabsShape'
<1>1. /\ tabs' = [tabs EXCEPT ![t] = Opened] /\ db' = db
      /\ transactions' = Append(transactions, Load(t))
      /\ tabs[t].state = "closed"
  BY DEF Open
<1>2. \A i \in DOMAIN transactions : transactions[i].tab # t
  BY <1>1 DEF TabsShape, OneTransactionEach
<1>3. Load(t) \in Transaction /\ Load(t).tab = t /\ Load(t).type = "load"
  BY DEF Load, Transaction
<1> QED BY <1>1, <1>2, <1>3, ClosedIs, TransactionStarts

\* The persist timer keeps the shape of the tabs.
LEMMA PersistTimerShape ==
    ASSUME TabsShape, NEW t \in Tabs, PersistTimer(t)
    PROVE  TabsShape'
<1>1. IsOpen(t) /\ db' = db /\ tabs[t] \in Tab
  BY DEF PersistTimer, TabsShape, IdleUnlessOpen, Idle, TabsTypeOK
<1>2. ASSUME NEW tx \in Transaction, ~tabs[t].isPersisting,
             tabs' = [tabs EXCEPT ![t] = TakeQueue(tabs[t])],
             transactions' = Append(transactions, tx), tx.tab = t,
             tx = IF tabs[t].shouldDoFullDBWrite
                    THEN StoreSnapshot(t, tabs[t].store)
                    ELSE StoreChanges(t, SquashedQueue(tabs[t]))
      PROVE  TabsShape'
  <2>1. \A i \in DOMAIN transactions : transactions[i].tab # t
    BY <1>1, <1>2 DEF TabsShape, OneTransactionEach, IsOpen
  <2>2. tx.type # "load"
    BY <1>2 DEF StoreSnapshot, StoreChanges
  <2>3. /\ TakeQueue(tabs[t]) \in Tab /\ TakeQueue(tabs[t]).isPersisting
        /\ TakeQueue(tabs[t]).state = "open"
    BY <1>1, TakeQueueIs DEF IsOpen
  <2> QED BY <1>1, <1>2, <2>1, <2>2, <2>3, TransactionStarts
<1>3. ASSUME NEW d \in Tab, tabs' = [tabs EXCEPT ![t] = d],
             UNCHANGED transactions, SameWork(tabs[t], d),
             d.isPersisting = tabs[t].isPersisting
      PROVE  TabsShape'
  <2>1. /\ tabs' \in [Tabs -> Tab]
        /\ \A u \in Tabs : /\ tabs'[u].state = tabs[u].state
                           /\ tabs'[u].isPersisting = tabs[u].isPersisting
                           /\ ~IsOpen(u) => tabs'[u] = tabs[u]
    BY <1>1, <1>3 DEF TabsShape, TabsTypeOK, SameWork
  <2> QED BY <1>1, <1>3, <2>1, ShapeKept
<1> QED BY <1>2, <1>3, PersistTimerIs DEF TabsShape

\* A commit keeps the shape of the tabs.
LEMMA CommitShape ==
    ASSUME TabsShape, Commit
    PROVE  TabsShape'
<1> DEFINE tx == Head(transactions)
<1>1. /\ transactions # <<>> /\ db' \in Records
      /\ transactions' = Tail(transactions) /\ tabs' \in [Tabs -> Tab]
      /\ \A u \in Tabs :
           /\ u # tx.tab => tabs'[u] = tabs[u]
           /\ u = tx.tab /\ tx.type = "load" =>
                (Idle(tabs[u]) => Idle(tabs'[u]))
           /\ u = tx.tab /\ tx.type # "load" => SameWork(tabs[u], tabs'[u])
  BY CommitIs DEF TabsShape
<1>2. transactions \in Seq(Transaction)
  BY DEF TabsShape, TabsTypeOK
<1>3. /\ Tail(transactions) \in Seq(Transaction)
      /\ tx = transactions[1] /\ Len(transactions) \in Nat \ {0}
      /\ DOMAIN transactions = 1..Len(transactions)
      /\ DOMAIN Tail(transactions) = 1..Len(transactions) - 1
      /\ \A i \in 1..Len(transactions) - 1 :
           Tail(transactions)[i] = transactions[i + 1]
  BY <1>1, <1>2
<1> HIDE DEF tx
<1>4. TabsTypeOK'
  BY <1>1, <1>3 DEF TabsTypeOK
<1>5. ASSUME NEW i \in DOMAIN transactions'
      PROVE  /\ i + 1 \in DOMAIN transactions
             /\ transactions'[i] = transactions[i + 1]
             /\ transactions'[i].tab \in Tabs =>
                  /\ transactions'[i].tab # tx.tab
                  /\ tabs'[transactions'[i].tab] = tabs[transactions'[i].tab]
  <2>1. /\ i + 1 \in DOMAIN transactions /\ 1 \in DOMAIN transactions
        /\ i + 1 # 1 /\ transactions'[i] = transactions[i + 1]
    BY <1>1, <1>3
  <2>2. transactions'[i].tab \in Tabs => transactions'[i].tab # tx.tab
    BY <1>3, <2>1 DEF TabsShape, OneTransactionEach
  <2> QED BY <1>1, <2>1, <2>2
<1>6. OneTransactionEach'
  <2>1. ASSUME NEW i \in DOMAIN transactions', transactions'[i].tab \in Tabs
        PROVE  IF transactions'[i].type = "load"
               THEN tabs'[transactions'[i].tab].state = "loading"
               ELSE /\ tabs'[transactions'[i].tab].state = "open"
                    /\ tabs'[transactions'[i].tab].isPersisting
    BY <1>5, <2>1 DEF TabsShape, OneTransactionEach
  <2>2. ASSUME NEW i \in DOMAIN transactions', NEW j \in DOMAIN transactions',
               transactions'[i].tab = transactions'[j].tab,
               transactions'[i].tab \in Tabs
        PROVE  i = j
    <3>1. i + 1 = j + 1
      BY <1>5, <2>2 DEF TabsShape, OneTransactionEach
    <3>2. i \in Int /\ j \in Int
      BY <1>1, <1>3
    <3> QED BY <3>1, <3>2
  <2> QED BY <2>1, <2>2 DEF OneTransactionEach
<1>7. IdleUnlessOpen'
  <2>1. ASSUME NEW u \in Tabs, tx.tab = u, tx.type = "load" PROVE ~IsOpen(u)
    <3>1. 1 \in DOMAIN transactions
      BY <1>3
    <3> QED BY <1>3, <2>1, <3>1 DEF TabsShape, OneTransactionEach, IsOpen
  <2>2. ASSUME NEW u \in Tabs, tx.tab = u, tx.type # "load" PROVE IsOpen(u)
    <3>1. 1 \in DOMAIN transactions
      BY <1>3
    <3> QED BY <1>3, <2>2, <3>1 DEF TabsShape, OneTransactionEach, IsOpen
  <2> QED BY <1>1, <2>1, <2>2 DEF TabsShape, IdleUnlessOpen, IsOpen, SameWork
<1> QED BY <1>4, <1>6, <1>7 DEF TabsShape

\* Closing a tab keeps the shape of the tabs.
LEMMA CloseShape ==
    ASSUME TabsShape, NEW t \in Tabs, Close(t)
    PROVE  TabsShape'
<1>1. /\ tabs' = [tabs EXCEPT ![t] = Closed] /\ db' = db
      /\ transactions \in Seq(Transaction) /\ tabs \in [Tabs -> Tab]
      /\ db \in Records
  BY DEF Close, TabsShape, TabsTypeOK
<1>2. /\ tabs'[t] = Closed /\ \A u \in Tabs \ {t} : tabs'[u] = tabs[u]
      /\ tabs' \in [Tabs -> Tab]
  BY <1>1, ClosedIs
<1>3. IdleUnlessOpen'
  BY <1>2, ClosedIs DEF TabsShape, IdleUnlessOpen, IsOpen
<1>4. CASE transactions' = Orphaned(t)
  <2>1. \A tx \in Transaction : /\ [tx EXCEPT !.tab = Gone] \in Transaction
                                /\ [tx EXCEPT !.tab = Gone].tab = Gone
    BY DEF Transaction
  <2>2. /\ DOMAIN transactions' = DOMAIN transactions
        /\ Orphaned(t) \in Seq(Transaction)
        /\ \A i \in DOMAIN transactions :
             IF transactions[i].tab = t THEN transactions'[i].tab = Gone
             ELSE transactions'[i] = transactions[i]
    <3>1. \A i \in DOMAIN transactions : transactions[i] \in Transaction
      BY <1>1
    <3>2. Len(transactions) \in Nat /\ DOMAIN transactions = 1..Len(transactions)
      BY <1>1
    <3>3. Orphaned(t) \in [1..Len(transactions) -> Transaction]
      BY <2>1, <3>1, <3>2 DEF Orphaned
    <3> QED BY <1>4, <2>1, <3>1, <3>2, <3>3 DEF Orphaned
  <2>3. Gone \notin Tabs
    BY TabsAssumption
  <2>4. \A i \in DOMAIN transactions' : transactions'[i].tab \in Tabs =>
          /\ transactions'[i].tab # t
          /\ transactions'[i] = transactions[i]
    BY <2>2, <2>3
  <2>5. OneTransactionEach'
    BY <1>2, <2>2, <2>4 DEF TabsShape, OneTransactionEach
  <2>6. TabsTypeOK'
    BY <1>1, <1>2, <1>4, <2>2 DEF TabsTypeOK
  <2> QED BY <1>3, <2>5, <2>6 DEF TabsShape
<1>5. ASSUME NEW i \in DOMAIN transactions, transactions[i].tab = t,
             transactions' = RemoveAt(transactions, i)
      PROVE  TabsShape'
  <2>1. /\ i \in 1..Len(transactions) /\ Len(transactions) \in Nat
        /\ DOMAIN transactions = 1..Len(transactions)
    BY <1>1
  <2> DEFINE old(j) == IF j < i THEN j ELSE j + 1
  <2>2. /\ transactions' \in Seq(Transaction)
        /\ DOMAIN transactions' = 1..Len(transactions) - 1
        /\ \A j \in 1..Len(transactions) - 1 :
             transactions'[j] = transactions[old(j)]
    <3> DEFINE rest == RemoveAt(transactions, i)
    <3>1. /\ rest \in Seq(Transaction) /\ Len(rest) = Len(transactions) - 1
          /\ \A j \in 1..Len(transactions) - 1 : rest[j] = transactions[old(j)]
      BY <1>1, <2>1, RemoveAtIs
    <3> HIDE DEF rest, old
    <3>2. DOMAIN rest = 1..Len(transactions) - 1
      BY <3>1
    <3> QED BY <1>5, <3>1, <3>2 DEF rest
  <2>3. /\ \A j \in DOMAIN transactions' :
             old(j) \in DOMAIN transactions /\ old(j) # i
        /\ \A j, k \in DOMAIN transactions' : old(j) = old(k) => j = k
    BY <2>1, <2>2
  <2> HIDE DEF old
  <2>4. \A j \in DOMAIN transactions' : transactions'[j].tab # t
    BY <1>5, <2>2, <2>3 DEF TabsShape, OneTransactionEach
  <2>5. OneTransactionEach'
    BY <1>2, <2>2, <2>3, <2>4 DEF TabsShape, OneTransactionEach
  <2>6. TabsTypeOK'
    BY <1>1, <1>2, <2>2 DEF TabsTypeOK
  <2> QED BY <1>3, <2>5, <2>6 DEF TabsShape
<1> QED BY <1>4, <1>5 DEF Close

\* A write that fails leaves no other transaction of its tab.
LEMMA WriteFailsShape ==
    ASSUME TabsShape, WriteFails
    PROVE  TabsShape'
<1> DEFINE tx == Head(transactions)
           t == tx.tab
<1>1. /\ transactions # <<>> /\ t # Gone /\ db' = db
      /\ tabs' = [tabs EXCEPT ![t] = Opened]
      /\ transactions' = Append(Tail(transactions), Load(t))
  BY DEF WriteFails
<1>2. transactions \in Seq(Transaction) /\ tabs \in [Tabs -> Tab] /\ db \in Records
  BY DEF TabsShape, TabsTypeOK
<1>3. /\ Tail(transactions) \in Seq(Transaction)
      /\ tx = transactions[1] /\ tx \in Transaction
      /\ Len(transactions) \in Nat \ {0}
      /\ DOMAIN transactions = 1..Len(transactions)
      /\ Len(Tail(transactions)) = Len(transactions) - 1
      /\ \A i \in 1..Len(transactions) - 1 :
           Tail(transactions)[i] = transactions[i + 1]
  BY <1>1, <1>2
<1> HIDE DEF tx
<1>4. t \in Tabs
  BY <1>1, <1>3 DEF Transaction
<1> HIDE DEF t
<1>5. Load(t) \in Transaction /\ Load(t).tab = t /\ Load(t).type = "load"
  BY <1>4 DEF Load, Transaction
<1>6. /\ transactions' \in Seq(Transaction)
      /\ DOMAIN transactions' = 1..Len(transactions)
      /\ transactions'[Len(transactions)] = Load(t)
      /\ \A i \in 1..Len(transactions) - 1 :
           transactions'[i] = transactions[i + 1]
  BY <1>1, <1>3, <1>5
<1>7. /\ tabs'[t] = Opened /\ \A u \in Tabs \ {t} : tabs'[u] = tabs[u]
      /\ tabs' \in [Tabs -> Tab]
  BY <1>1, <1>2, <1>4, ClosedIs
<1>8. TabsTypeOK'
  BY <1>1, <1>2, <1>6, <1>7 DEF TabsTypeOK
<1>9. IdleUnlessOpen'
  BY <1>7, ClosedIs DEF TabsShape, IdleUnlessOpen, IsOpen
<1>10. \A i \in 1..Len(transactions) - 1 : transactions'[i].tab # t
  <2> SUFFICES ASSUME NEW i \in 1..Len(transactions) - 1
               PROVE  transactions'[i].tab # t
    OBVIOUS
  <2>1. 1 \in DOMAIN transactions /\ i + 1 \in DOMAIN transactions /\ i + 1 # 1
    BY <1>3
  <2> QED BY <1>3, <1>4, <1>6, <2>1 DEF TabsShape, OneTransactionEach, t
<1>11. OneTransactionEach'
  <2>1. ASSUME NEW i \in DOMAIN transactions', transactions'[i].tab \in Tabs
        PROVE  IF transactions'[i].type = "load"
               THEN tabs'[transactions'[i].tab].state = "loading"
               ELSE /\ tabs'[transactions'[i].tab].state = "open"
                    /\ tabs'[transactions'[i].tab].isPersisting
    <3>1. CASE i = Len(transactions)
      BY <1>5, <1>6, <1>7, <3>1, ClosedIs
    <3>2. CASE i \in 1..Len(transactions) - 1
      <4>1. i + 1 \in DOMAIN transactions
        BY <1>3, <3>2
      <4> QED BY <1>6, <1>7, <1>10, <2>1, <3>2, <4>1
              DEF TabsShape, OneTransactionEach
    <3> QED BY <1>3, <1>6, <3>1, <3>2
  <2>2. ASSUME NEW i \in DOMAIN transactions', NEW j \in DOMAIN transactions',
               transactions'[i].tab = transactions'[j].tab,
               transactions'[i].tab \in Tabs
        PROVE  i = j
    <3>1. CASE i = Len(transactions) \/ j = Len(transactions)
      BY <1>3, <1>5, <1>6, <1>10, <2>2, <3>1
    <3>2. CASE i \in 1..Len(transactions) - 1 /\ j \in 1..Len(transactions) - 1
      <4>1. i + 1 \in DOMAIN transactions /\ j + 1 \in DOMAIN transactions
        BY <1>3, <3>2
      <4>2. i + 1 = j + 1
        BY <1>6, <2>2, <3>2, <4>1 DEF TabsShape, OneTransactionEach
      <4> QED BY <3>2, <4>2
    <3> QED BY <1>3, <1>6, <3>1, <3>2
  <2> QED BY <2>1, <2>2 DEF OneTransactionEach
<1> QED BY <1>8, <1>9, <1>11 DEF TabsShape

\* Every step keeps the shape of the tabs.
LEMMA NextShape ==
    ASSUME TabsShape, [TabsNext]_tabsVars
    PROVE  TabsShape'
<1>1. CASE UNCHANGED tabsVars
  BY <1>1 DEF tabsVars, TabsShape, TabsTypeOK, OneTransactionEach,
              IdleUnlessOpen, Idle, IsOpen
<1>2. ASSUME NEW t \in Tabs, NEW id \in Ids, NEW value \in Vals \cup {Absent},
             Edit(t, id, value)
      PROVE  TabsShape'
  BY <1>2, EditShape
<1> QED BY <1>1, <1>2, OpenShape, LoadedShape, CloseShape, PersistTimerShape,
           FlushShape, ReceiveShape, CommitShape, WriteFailsShape
        DEF TabsNext

\* The tabs begin in shape.
LEMMA InitShape == ASSUME TabsInit PROVE TabsShape
<1>1. /\ db = InitialRecords /\ transactions = <<>>
      /\ tabs = [t \in Tabs |-> Closed]
  BY DEF TabsInit
<1>2. TabsTypeOK
  BY <1>1, ClosedIs, TabsAssumption DEF TabsTypeOK, Records
<1>3. OneTransactionEach
  BY <1>1 DEF OneTransactionEach
<1>4. IdleUnlessOpen
  BY <1>1, ClosedIs DEF IdleUnlessOpen, IsOpen
<1> QED BY <1>2, <1>3, <1>4 DEF TabsShape

-----------------------------------------------------------------------------

-----------------------------------------------------------------------------
(***************************************************************************)
(* A lone tab.  Of each record: history leads from a value that the client *)
(* was told to what the store shows; and unless the table is to be written *)
(* in full, the queue leads to that value from the one that the table will *)
(* have, or would have if no full write had found in history more than was *)
(* told.                                                                   *)
(***************************************************************************)
Lone(tab, records) ==
    \A id \in Ids : \E told :
      /\ LeadAll(id, told, tab.history, tab.store[id])
      /\ ~tab.shouldDoFullDBWrite =>
           \E base : /\ Leads(id, base, SquashedQueue(tab), told)
                     /\ id \notin tab.early => records[id] = base

\* A tab that is open alone hears nothing, and what it has to write and to tell
\* leads from what the table will contain to what it shows.
AloneOK ==
    alone =>
      /\ \A t, u \in Tabs :
           tabs[t].state # "closed" /\ tabs[u].state # "closed" => t = u
      /\ \A t \in Tabs : tabs[t].inbox = <<>>
      /\ \A t \in Tabs : IsOpen(t) => Lone(tabs[t], AfterTransactions)

\* The table when all transactions are done is a fold, and records.
LEMMA AfterTransactionsIs ==
    /\ AfterTransactions = Writing!Fold(db, transactions)
    /\ AfterTransactions' = Writing!Fold(db', transactions')
    /\ TabsTypeOK => AfterTransactions \in Records
<1>1. /\ AfterTransactions = Writing!Fold(db, transactions)
      /\ AfterTransactions' = Writing!Fold(db', transactions')
  BY DEF AfterTransactions, FoldLeft, MapThenFoldSet, Max, Writing!Fold,
         Writing!MapThenFoldSet, Writing!Greatest
<1>2. ASSUME NEW records \in Records, NEW tx \in Transaction
      PROVE  Write(records, tx) \in Records
  BY ApplyChangesType DEF Write, Transaction
<1>3. ASSUME TabsTypeOK PROVE AfterTransactions \in Records
  <2>1. db \in Records /\ transactions \in Seq(Transaction)
    BY <1>3 DEF TabsTypeOK
  <2>2. \A records \in Records, tx \in Transaction : Write(records, tx) \in Records
    BY <1>2
  <2>3. Writing!Fold(db, transactions) \in Records
    BY <2>1, <2>2, Writing!FoldKeeps
  <2> QED BY <1>1, <2>3
<1> QED BY <1>1, <1>3

\* Diffs that follow those of a queue, squashed into it.
LEMMA SquashMore ==
    ASSUME NEW first \in StoreDiff, NEW ds \in Seq(StoreDiff), NEW id, NEW x,
           NEW y, NEW z, Leads(id, x, first, y), LeadAll(id, y, ds, z)
    PROVE  Leads(id, x, Squashing!Fold(first, ds), z)
<1>1. PICK v : v[0] = y /\ v[Len(ds)] = z /\ Walks(TRUE, id, v, ds)
  BY DEF LeadAll
<1>2. Leads(id, x, first, v[0])
  BY <1>1
<1>3. Leads(id, x, SquashAll(first, ds), v[Len(ds)])
  BY <1>1, <1>2, SquashAllLeads
<1>4. SquashAll(first, ds) = Squashing!Fold(first, ds)
  BY DEF SquashAll, FoldLeft, MapThenFoldSet, Max, Squashing!Fold,
         Squashing!MapThenFoldSet, Squashing!Greatest
<1> QED BY <1>1, <1>3, <1>4

\* An edit is one more entry of history.
LEMMA EditLone ==
    ASSUME NEW tab \in Tab, NEW records, Lone(tab, records),
           NEW d \in Tab, NEW shown \in Records,
           Between(tab.store, shown) \in StoreDiff,
           d.history = WithEntry(tab.history, Between(tab.store, shown)),
           d.store = shown, d.queue = tab.queue, d.early = tab.early,
           d.shouldDoFullDBWrite = tab.shouldDoFullDBWrite
    PROVE  Lone(d, records)
<1>1. tab.history \in Seq(StoreDiff) /\ tab.store \in Records
  BY DEF Tab
<1>2. DOMAIN tab.store = Ids /\ DOMAIN shown = Ids
  BY <1>1 DEF Records
<1>3. SquashedQueue(d) = SquashedQueue(tab)
  BY DEF SquashedQueue
<1>4. ASSUME NEW id \in Ids, NEW told,
             LeadAll(id, told, tab.history, tab.store[id])
      PROVE  LeadAll(id, told, d.history, d.store[id])
  <2>1. Leads(id, tab.store[id], Between(tab.store, shown), shown[id])
    BY <1>2, BetweenAtLeads
  <2> QED BY <1>1, <1>4, <2>1, EntryLeads
<1> QED BY <1>3, <1>4 DEF Lone

\* A frame: what was in history is in the queue.
LEMMA FlushLone ==
    ASSUME NEW tab \in Tab, NEW records, Lone(tab, records),
           NEW d, d.history = <<>>, d.store = tab.store, d.early = tab.early,
           d.shouldDoFullDBWrite = tab.shouldDoFullDBWrite,
           NEW rest \in Seq(StoreDiff), \A i \in DOMAIN rest : rest[i] = NoChanges,
           d.queue = tab.queue \o (Heard(tab.history) \o rest)
    PROVE  Lone(d, records)
<1> DEFINE diffs == Heard(tab.history)
           first == SquashedQueue(tab)
           more == Squashing!Fold(first, diffs)
<1>1. tab.history \in Seq(StoreDiff) /\ tab.queue \in Seq(StoreDiff)
  BY DEF Tab
<1>2. diffs \in Seq(StoreDiff)
  BY <1>1, HeardTouches
<1>3. first \in StoreDiff /\ first = Squashing!Fold(NoChanges, tab.queue)
  BY <1>1, SquashedQueueIs
<1>4. more \in StoreDiff
  <2>1. \A a, b \in StoreDiff : Squash(a, b) \in StoreDiff
    BY SquashInDiffs DEF StoreDiff
  <2> QED BY <1>2, <1>3, <2>1, Squashing!FoldKeeps
<1>5. SquashedQueue(d) = Squashing!Fold(more, rest)
  <2> HIDE DEF diffs
  <2>1. diffs \o rest \in Seq(StoreDiff)
    BY <1>2
  <2>2. Squashing!Fold(NoChanges, tab.queue \o (diffs \o rest))
          = Squashing!Fold(Squashing!Fold(NoChanges, tab.queue), diffs \o rest)
    BY <1>1, <2>1, Squashing!FoldConcat
  <2>3. Squashing!Fold(first, diffs \o rest)
          = Squashing!Fold(Squashing!Fold(first, diffs), rest)
    BY <1>2, Squashing!FoldConcat
  <2>4. SquashedQueue(d) = Squashing!Fold(NoChanges, d.queue)
    BY SquashedQueueIs
  <2> QED BY <1>3, <2>2, <2>3, <2>4 DEF diffs
<1> HIDE DEF first, more
<1>6. ASSUME NEW id \in Ids, NEW base, NEW told, Leads(id, base, first, told),
             LeadAll(id, told, tab.history, tab.store[id])
      PROVE  Leads(id, base, SquashedQueue(d), tab.store[id])
  <2> DEFINE shows == tab.store[id]
  <2>1. LeadAll(id, told, diffs, shows)
    BY <1>1, <1>6, HeardLeads
  <2> HIDE DEF shows, diffs
  <2>2. Leads(id, base, more, shows)
    BY <1>2, <1>3, <1>6, <2>1, SquashMore DEF more
  <2>3. id \notin TouchedBy(rest)
    BY NoChangesTouch DEF TouchedBy
  <2>4. LeadAll(id, shows, rest, shows)
    BY <2>3, LeftAlone
  <2>5. Leads(id, base, Squashing!Fold(more, rest), shows)
    BY <1>4, <2>2, <2>4, SquashMore
  <2> QED BY <1>5, <2>5 DEF shows
<1>7. \A id \in Ids : LeadAll(id, tab.store[id], d.history, d.store[id])
  BY NoDiffsLead
<1>8. ASSUME NEW id \in Ids
      PROVE  \E told : /\ LeadAll(id, told, d.history, d.store[id])
                       /\ ~d.shouldDoFullDBWrite =>
                            \E base : /\ Leads(id, base, SquashedQueue(d), told)
                                      /\ id \notin d.early => records[id] = base
  <2>1. PICK told :
          /\ LeadAll(id, told, tab.history, tab.store[id])
          /\ ~tab.shouldDoFullDBWrite =>
               \E base : /\ Leads(id, base, SquashedQueue(tab), told)
                         /\ id \notin tab.early => records[id] = base
    BY DEF Lone
  <2>2. ASSUME ~tab.shouldDoFullDBWrite
        PROVE  \E base : /\ Leads(id, base, SquashedQueue(d), tab.store[id])
                         /\ id \notin tab.early => records[id] = base
    BY <1>6, <2>1, <2>2 DEF first
  <2> QED BY <1>7, <2>2
<1> QED BY <1>8 DEF Lone

\* A write: what was in the queue is in the transaction.
LEMMA TakeQueueLone ==
    ASSUME NEW tab \in Tab, NEW records \in Records, Lone(tab, records),
           NEW after, after = IF tab.shouldDoFullDBWrite THEN tab.store
                              ELSE ApplyChanges(records, SquashedQueue(tab))
    PROVE  Lone(TakeQueue(tab), after)
<1> DEFINE d == TakeQueue(tab)
           diff == SquashedQueue(tab)
<1>1. tab.history \in Seq(StoreDiff) /\ tab.store \in Records
  BY DEF Tab
<1>2. /\ d.store = tab.store /\ d.history = tab.history /\ d.queue = <<>>
      /\ d.early = IF tab.shouldDoFullDBWrite THEN TouchedBy(tab.history)
                   ELSE tab.early \ Touched(diff)
  BY TakeQueueIs
<1>3. SquashedQueue(d) = NoChanges
  BY <1>2, SquashedQueueIs, Squashing!FoldEmpty
<1> HIDE DEF d, diff
<1>4. ASSUME NEW id \in Ids
      PROVE  \E told : /\ LeadAll(id, told, d.history, d.store[id])
                       /\ Leads(id, told, NoChanges, told)
                       /\ id \notin d.early => after[id] = told
  <2>1. PICK told :
          /\ LeadAll(id, told, tab.history, tab.store[id])
          /\ ~tab.shouldDoFullDBWrite =>
               \E base : /\ Leads(id, base, diff, told)
                         /\ id \notin tab.early => records[id] = base
    BY DEF Lone, diff
  <2>2. Leads(id, told, NoChanges, told)
    BY NoChangesTouch
  <2>3. ASSUME id \notin d.early PROVE after[id] = told
    <3>1. CASE tab.shouldDoFullDBWrite
      <4>1. id \notin TouchedBy(tab.history)
        BY <1>2, <2>3, <3>1
      <4>2. told = tab.store[id]
        BY <1>1, <2>1, <4>1, LeadAllApplies
      <4> QED BY <3>1, <4>2
    <3>2. CASE ~tab.shouldDoFullDBWrite
      <4>1. PICK base : /\ Leads(id, base, diff, told)
                        /\ id \notin tab.early => records[id] = base
        BY <2>1, <3>2
      <4>2. after = ApplyChanges(records, diff) /\ id \in DOMAIN records
        BY <3>2 DEF diff, Records
      <4>3. CASE id \in Touched(diff)
        BY <4>1, <4>2, <4>3, TouchedApplies
      <4>4. CASE id \notin Touched(diff)
        <5>1. Leads(id, records[id], diff, told)
          BY <1>2, <2>3, <3>2, <4>1, <4>4
        <5> QED BY <4>2, <5>1, ApplyLeads
      <4> QED BY <4>3, <4>4
    <3> QED BY <3>1, <3>2
  <2> QED BY <1>2, <2>1, <2>2, <2>3
<1> QED BY <1>3, <1>4 DEF Lone, d

\* What a lone tab shows is what the table will contain with the queue and
\* history.
LEMMA LoneShows ==
    ASSUME NEW tab \in Tab, NEW records \in Records, Lone(tab, records),
           ~tab.shouldDoFullDBWrite, NEW id \in Ids \ Left(tab)
    PROVE  FoldLeft(ApplyChanges, ApplyChanges(records, SquashedQueue(tab)),
                    tab.history)[id] = tab.store[id]
<1> DEFINE diff == SquashedQueue(tab)
           queued == ApplyChanges(records, diff)
<1>1. tab.history \in Seq(StoreDiff) /\ tab.queue \in Seq(StoreDiff)
  BY DEF Tab
<1>2. queued \in Records
  BY <1>1, SquashedQueueIs, ApplyChangesType
<1>3. PICK told :
        /\ LeadAll(id, told, tab.history, tab.store[id])
        /\ \E base : /\ Leads(id, base, diff, told)
                     /\ id \notin tab.early => records[id] = base
  BY DEF Lone
<1> HIDE DEF diff
<1>4. CASE id \in TouchedBy(tab.history)
  <2>1. Applying!Fold(queued, tab.history)[id] = tab.store[id]
    BY <1>1, <1>2, <1>3, <1>4, LeadAllApplies
  <2>2. FoldLeft(ApplyChanges, queued, tab.history)
          = Applying!Fold(queued, tab.history)
    BY DEF FoldLeft, MapThenFoldSet, Max, Applying!Fold,
           Applying!MapThenFoldSet, Applying!Greatest
  <2> QED BY <2>1, <2>2 DEF diff
<1>5. CASE id \notin TouchedBy(tab.history)
  <2>1. PICK base : /\ Leads(id, base, diff, told)
                    /\ id \notin tab.early => records[id] = base
    BY <1>3
  <2>2. id \in DOMAIN records
    BY DEF Records
  <2>3. queued[id] = told
    <3>1. CASE id \in Touched(diff)
      BY <2>1, <2>2, <3>1, TouchedApplies
    <3>2. CASE id \notin Touched(diff)
      <4>1. Leads(id, records[id], diff, told)
        BY <1>5, <2>1, <3>2 DEF Left, diff
      <4> QED BY <2>2, <4>1, ApplyLeads
    <3> QED BY <3>1, <3>2
  <2>4. PICK v : /\ v[0] = told /\ v[Len(tab.history)] = tab.store[id]
                 /\ Walks(TRUE, id, v, tab.history)
    BY <1>3 DEF LeadAll
  <2> HIDE DEF queued
  <2>5. id \in Ids /\ queued[id] = v[0]
    BY <2>3, <2>4
  <2>6. FoldLeft(ApplyChanges, queued, tab.history)[id] = v[Len(tab.history)]
    BY <1>1, <1>2, <2>4, <2>5, ApplyAllLeads, Zenon
  <2> QED BY <2>4, <2>6 DEF queued, diff
<1> QED BY <1>4, <1>5

\* What a lone tab has to write and to tell is all that is said of it.
LEMMA SameWorkLone ==
    ASSUME NEW tab, NEW records, Lone(tab, records), NEW d, SameWork(tab, d)
    PROVE  Lone(d, records)
<1>1. /\ d.store = tab.store /\ d.history = tab.history
      /\ d.queue = tab.queue /\ d.early = tab.early
      /\ d.shouldDoFullDBWrite = tab.shouldDoFullDBWrite
  BY DEF SameWork
<1>2. SquashedQueue(d) = SquashedQueue(tab)
  BY <1>1 DEF SquashedQueue
<1> QED BY <1>1, <1>2 DEF Lone

\* A tab that has just loaded has nothing to tell, and writes in full.
LEMMA IdleLone ==
    ASSUME NEW tab, Idle(tab), NEW records
    PROVE  Lone(tab, records)
<1>1. tab.history = <<>> /\ tab.shouldDoFullDBWrite
  BY DEF Idle
<1>2. \A id \in Ids : LeadAll(id, tab.store[id], tab.history, tab.store[id])
  BY <1>1, NoDiffsLead
<1> QED BY <1>1, <1>2 DEF Lone

\* A step that does not write, and leaves the open tabs as they should be.
LEMMA AloneKept ==
    ASSUME AloneOK, alone' = alone, AfterTransactions' = AfterTransactions,
           alone => \A u \in Tabs :
             /\ tabs[u].state = "closed" => tabs'[u].state = "closed"
             /\ tabs'[u].inbox = <<>>
             /\ tabs'[u].state = "open" =>
                  \/ Lone(tabs'[u], AfterTransactions)
                  \/ IsOpen(u) /\ SameWork(tabs[u], tabs'[u])
    PROVE  AloneOK'
<1> SUFFICES ASSUME alone
             PROVE  /\ \A t, u \in Tabs :
                         tabs'[t].state # "closed" /\ tabs'[u].state # "closed"
                           => t = u
                    /\ \A t \in Tabs : tabs'[t].inbox = <<>>
                    /\ \A t \in Tabs : tabs'[t].state = "open" =>
                         Lone(tabs'[t], AfterTransactions)
  BY DEF AloneOK, IsOpen
<1>1. \A t, u \in Tabs :
        tabs'[t].state # "closed" /\ tabs'[u].state # "closed" => t = u
  BY DEF AloneOK
<1>2. ASSUME NEW t \in Tabs, tabs'[t].state = "open"
      PROVE  Lone(tabs'[t], AfterTransactions)
  <2>1. CASE IsOpen(t) /\ SameWork(tabs[t], tabs'[t])
    BY <2>1, SameWorkLone DEF AloneOK
  <2> QED BY <1>2, <2>1
<1> QED BY <1>1, <1>2

\* An edit keeps a lone tab and the table together.
LEMMA EditAlone ==
    ASSUME TabsShape, AloneOK, NEW t \in Tabs, NEW id \in Ids,
           NEW value \in Vals \cup {Absent}, Edit(t, id, value)
    PROVE  AloneOK'
<1>1. /\ TabsTypeOK /\ tabs \in [Tabs -> Tab] /\ IsOpen(t) /\ alone' = alone
      /\ UNCHANGED <<db, transactions>>
  BY DEF Edit, TabsShape, TabsTypeOK
<1>2. PICK d \in Tab : \E shown \in Records :
        /\ tabs' = [tabs EXCEPT ![t] = d]
        /\ shown = [tabs[t].store EXCEPT ![id] = value]
        /\ Between(tabs[t].store, shown) \in StoreDiff
        /\ d.state = tabs[t].state /\ d.isPersisting = tabs[t].isPersisting
        /\ d.shouldDoFullDBWrite = tabs[t].shouldDoFullDBWrite
        /\ d.queue = tabs[t].queue /\ d.inbox = tabs[t].inbox
        /\ d.early = tabs[t].early /\ d.store = shown
        /\ d.history
             = WithEntry(tabs[t].history, Between(tabs[t].store, shown))
  BY <1>1, EditIs, Zenon
<1>3. AfterTransactions' = AfterTransactions
  BY <1>1, AfterTransactionsIs
<1>4. ASSUME alone PROVE Lone(d, AfterTransactions)
  <2>1. tabs[t] \in Tab /\ Lone(tabs[t], AfterTransactions)
    BY <1>1, <1>4 DEF AloneOK
  <2>2. PICK shown \in Records :
          /\ Between(tabs[t].store, shown) \in StoreDiff
          /\ d.shouldDoFullDBWrite = tabs[t].shouldDoFullDBWrite
          /\ d.queue = tabs[t].queue /\ d.early = tabs[t].early
          /\ d.store = shown
          /\ d.history
               = WithEntry(tabs[t].history, Between(tabs[t].store, shown))
    BY <1>2, Zenon
  <2> QED BY <2>1, <2>2, EditLone, Zenon
<1>5. tabs'[t] = d /\ \A u \in Tabs \ {t} : tabs'[u] = tabs[u]
  BY <1>1, <1>2
<1>6. ASSUME alone, NEW u \in Tabs \ {t} PROVE tabs[u].state = "closed"
  BY <1>1, <1>6 DEF AloneOK, IsOpen
<1>7. ASSUME alone, NEW u \in Tabs
      PROVE  /\ tabs[u].state = "closed" => tabs'[u].state = "closed"
             /\ tabs'[u].inbox = <<>>
             /\ tabs'[u].state = "open" => Lone(tabs'[u], AfterTransactions)
  <2>1. CASE u = t
    BY <1>1, <1>2, <1>4, <1>5, <1>7, <2>1 DEF AloneOK, IsOpen
  <2>2. CASE u # t
    <3>1. tabs[u].state = "closed" /\ tabs'[u] = tabs[u]
      BY <1>5, <1>6, <1>7, <2>2
    <3> QED BY <1>7, <3>1 DEF AloneOK
  <2> QED BY <2>1, <2>2
<1> QED BY <1>1, <1>3, <1>7, AloneKept

\* So does a frame.
LEMMA FlushAlone ==
    ASSUME TabsShape, AloneOK, NEW t \in Tabs, NEW session,
           FlushHistory(t, session)
    PROVE  AloneOK'
<1>1. /\ TabsTypeOK /\ tabs[t] \in Tab /\ IsOpen(t) /\ alone' = alone
      /\ UNCHANGED <<db, transactions>>
  BY DEF FlushHistory, TabsShape, TabsTypeOK
<1> DEFINE diffs == Heard(tabs[t].history)
<1>2. /\ tabs'[t].shouldDoFullDBWrite = tabs[t].shouldDoFullDBWrite
      /\ tabs'[t].inbox = tabs[t].inbox
      /\ tabs'[t].store = tabs[t].store
      /\ tabs'[t].early = tabs[t].early
      /\ tabs'[t].history = <<>>
      /\ \E rest \in Seq(StoreDiff) :
           /\ \A i \in DOMAIN rest : rest[i] = NoChanges
           /\ tabs'[t].queue = tabs[t].queue \o (diffs \o rest)
      /\ \A u \in Tabs \ {t} : ~IsOpen(u) => tabs'[u] = tabs[u]
  BY <1>1, FlushIs
<1>3. AfterTransactions' = AfterTransactions
  BY <1>1, AfterTransactionsIs
<1>4. ASSUME alone PROVE Lone(tabs'[t], AfterTransactions)
  <2>1. Lone(tabs[t], AfterTransactions)
    BY <1>1, <1>4 DEF AloneOK
  <2>2. PICK rest \in Seq(StoreDiff) :
          /\ \A i \in DOMAIN rest : rest[i] = NoChanges
          /\ tabs'[t].queue = tabs[t].queue \o (diffs \o rest)
    BY <1>2
  <2> QED BY <1>1, <1>2, <2>1, <2>2, FlushLone, Zenon
<1> HIDE DEF diffs
<1>5. ASSUME alone, NEW u \in Tabs \ {t} PROVE tabs[u].state = "closed"
  BY <1>1, <1>5 DEF AloneOK, IsOpen
<1>6. ASSUME alone, NEW u \in Tabs
      PROVE  /\ tabs[u].state = "closed" => tabs'[u].state = "closed"
             /\ tabs'[u].inbox = <<>>
             /\ tabs'[u].state = "open" => Lone(tabs'[u], AfterTransactions)
  <2>1. CASE u = t
    BY <1>1, <1>2, <1>4, <1>6, <2>1 DEF AloneOK, IsOpen
  <2>2. CASE u # t
    <3>1. tabs[u].state = "closed" /\ tabs'[u] = tabs[u]
      BY <1>2, <1>5, <1>6, <2>2 DEF IsOpen
    <3> QED BY <1>6, <3>1 DEF AloneOK
  <2> QED BY <2>1, <2>2
<1> QED BY <1>1, <1>3, <1>6, AloneKept

\* So does the persist timer: what it takes is in the transaction.
LEMMA PersistTimerAlone ==
    ASSUME TabsShape, AloneOK, NEW t \in Tabs, PersistTimer(t)
    PROVE  AloneOK'
<1>1. /\ IsOpen(t) /\ UNCHANGED <<db, alone>> /\ tabs[t] \in Tab
      /\ tabs \in [Tabs -> Tab] /\ transactions \in Seq(Transaction)
      /\ TabsTypeOK
  BY DEF PersistTimer, TabsShape, IdleUnlessOpen, Idle, TabsTypeOK
<1>2. ASSUME NEW tx \in Transaction,
             tabs' = [tabs EXCEPT ![t] = TakeQueue(tabs[t])],
             transactions' = Append(transactions, tx),
             tx = IF tabs[t].shouldDoFullDBWrite
                    THEN StoreSnapshot(t, tabs[t].store)
                    ELSE StoreChanges(t, SquashedQueue(tabs[t])),
             alone
      PROVE  AloneOK'
  <2>1. AfterTransactions' = Write(AfterTransactions, tx)
    <3>1. Writing!Fold(db, Append(transactions, tx))
            = Write(Writing!Fold(db, transactions), tx)
      BY <1>1, Writing!FoldAppend
    <3> QED BY <1>1, <1>2, <3>1, AfterTransactionsIs
  <2>2. AfterTransactions'
          = IF tabs[t].shouldDoFullDBWrite THEN tabs[t].store
            ELSE ApplyChanges(AfterTransactions, SquashedQueue(tabs[t]))
    BY <1>2, <2>1 DEF Write, StoreSnapshot, StoreChanges
  <2> DEFINE d == TakeQueue(tabs[t])
  <2>3. d.state = tabs[t].state /\ d.inbox = tabs[t].inbox
    BY <1>1, TakeQueueIs
  <2>4. tabs'[t] = d /\ \A u \in Tabs \ {t} : tabs'[u] = tabs[u]
    BY <1>1, <1>2
  <2>5. Lone(d, AfterTransactions')
    <3>1. Lone(tabs[t], AfterTransactions) /\ AfterTransactions \in Records
      BY <1>1, <1>2, AfterTransactionsIs DEF AloneOK
    <3> QED BY <1>1, <2>2, <3>1, TakeQueueLone
  <2> HIDE DEF d
  <2>6. \A u \in Tabs \ {t} : tabs'[u].state = "closed"
    BY <1>1, <1>2, <2>4 DEF AloneOK, IsOpen
  <2>7. \A u \in Tabs : tabs'[u].inbox = <<>>
    BY <1>2, <2>3, <2>4 DEF AloneOK
  <2> QED BY <2>4, <2>5, <2>6, <2>7 DEF AloneOK, IsOpen
<1>3. ASSUME NEW d \in Tab, tabs' = [tabs EXCEPT ![t] = d],
             UNCHANGED transactions, SameWork(tabs[t], d)
      PROVE  AloneOK'
  <2>1. AfterTransactions' = AfterTransactions
    BY <1>1, <1>3, AfterTransactionsIs
  <2>2. tabs'[t] = d /\ \A u \in Tabs \ {t} : tabs'[u] = tabs[u]
    BY <1>1, <1>3
  <2>3. ASSUME alone, NEW u \in Tabs
        PROVE  /\ tabs[u].state = "closed" => tabs'[u].state = "closed"
               /\ tabs'[u].inbox = <<>>
               /\ tabs'[u].state = "open" =>
                    IsOpen(u) /\ SameWork(tabs[u], tabs'[u])
    BY <1>1, <1>3, <2>2, <2>3 DEF AloneOK, IsOpen, SameWork
  <2> QED BY <1>1, <2>1, <2>3, AloneKept
<1>4. CASE ~alone
  BY <1>1, <1>4 DEF AloneOK
<1> QED BY <1>1, <1>2, <1>3, <1>4, PersistTimerIs

\* So does a commit: what it writes is no longer queued.
LEMMA CommitAlone ==
    ASSUME TabsShape, AloneOK, Commit
    PROVE  AloneOK'
<1> DEFINE tx == Head(transactions)
<1>1. /\ transactions # <<>> /\ db' = Write(db, tx)
      /\ transactions' = Tail(transactions)
      /\ \A u \in Tabs :
           /\ u # tx.tab => tabs'[u] = tabs[u]
           /\ u = tx.tab /\ tx.type = "load" =>
                /\ Idle(tabs[u]) => Idle(tabs'[u])
                /\ tabs'[u].state = "read"
           /\ u = tx.tab /\ tx.type # "load" => SameWork(tabs[u], tabs'[u])
  BY CommitIs DEF TabsShape
<1>2. transactions \in Seq(Transaction) /\ alone' = alone
  BY DEF Commit, TabsShape, TabsTypeOK
<1>3. AfterTransactions' = AfterTransactions
  <2>1. Writing!Fold(db, transactions)
          = Writing!Fold(Write(db, Head(transactions)), Tail(transactions))
    BY <1>1, <1>2, Writing!FoldTail
  <2> QED BY <1>1, <2>1, AfterTransactionsIs
<1>4. tx = transactions[1] /\ 1 \in DOMAIN transactions
  BY <1>1, <1>2
<1> HIDE DEF tx
<1>5. ASSUME NEW u \in Tabs, u = tx.tab PROVE tabs[u].state # "closed"
  BY <1>4, <1>5 DEF TabsShape, OneTransactionEach
<1>6. ASSUME NEW u \in Tabs, u = tx.tab, tx.type = "load"
      PROVE  tabs'[u].inbox = <<>>
  <2>1. ~IsOpen(u)
    BY <1>4, <1>6 DEF TabsShape, OneTransactionEach, IsOpen
  <2> QED BY <1>1, <1>6, <2>1 DEF TabsShape, IdleUnlessOpen, Idle
<1>7. ASSUME alone, NEW u \in Tabs
      PROVE  /\ tabs[u].state = "closed" => tabs'[u].state = "closed"
             /\ tabs'[u].inbox = <<>>
             /\ tabs'[u].state = "open" =>
                  IsOpen(u) /\ SameWork(tabs[u], tabs'[u])
  BY <1>1, <1>5, <1>6, <1>7 DEF AloneOK, IsOpen, SameWork
<1> QED BY <1>2, <1>3, <1>7, AloneKept

\* A step after which open tabs have nothing to tell, and write in full.
LEMMA AllIdle ==
    ASSUME alone' = alone,
           alone =>
             /\ \A t, u \in Tabs :
                  tabs'[t].state # "closed" /\ tabs'[u].state # "closed" => t = u
             /\ \A u \in Tabs : /\ tabs'[u].inbox = <<>>
                                /\ tabs'[u].state # "open" \/ Idle(tabs'[u])
    PROVE  AloneOK'
<1>1. \A u \in Tabs : Idle(tabs'[u]) => Lone(tabs'[u], AfterTransactions')
  BY IdleLone
<1> QED BY <1>1 DEF AloneOK, IsOpen

\* So do opening, loading, closing and receiving.
LEMMA OtherStepsAlone ==
    ASSUME TabsShape, AloneOK, NEW t \in Tabs,
           Open(t) \/ Loaded(t) \/ Close(t) \/ Receive(t)
    PROVE  AloneOK'
<1>1. tabs \in [Tabs -> Tab]
  BY DEF TabsShape, TabsTypeOK
<1>2. CASE Open(t)
  <2>1. /\ tabs' = [tabs EXCEPT ![t] = Opened] /\ alone' = alone
        /\ alone => \A u \in Tabs : tabs[u].state = "closed"
    BY <1>2 DEF Open
  <2> QED BY <1>1, <2>1, ClosedIs, AllIdle DEF AloneOK, Idle
<1>3. CASE Loaded(t)
  <2>1. PICK d \in Tab : /\ tabs' = [tabs EXCEPT ![t] = d]
                         /\ Idle(tabs[t]) => Idle(d)
    BY <1>3, LoadedIs DEF TabsShape
  <2>2. tabs[t].state = "read" /\ alone' = alone
    BY <1>3 DEF Loaded
  <2>3. Idle(d)
    BY <2>1, <2>2 DEF TabsShape, IdleUnlessOpen, IsOpen
  <2>4. ASSUME alone, NEW u \in Tabs \ {t} PROVE tabs[u].state = "closed"
    BY <2>2, <2>4 DEF AloneOK
  <2>5. d.inbox = <<>>
    BY <2>3 DEF Idle
  <2> QED BY <1>1, <2>1, <2>2, <2>3, <2>4, <2>5, AllIdle DEF AloneOK
<1>4. CASE Close(t)
  <2>1. /\ tabs' = [tabs EXCEPT ![t] = Closed] /\ alone' = alone
        /\ tabs[t].state # "closed"
    BY <1>4 DEF Close
  <2>2. ASSUME alone, NEW u \in Tabs \ {t} PROVE tabs[u].state = "closed"
    BY <2>1, <2>2 DEF AloneOK
  <2> QED BY <1>1, <2>1, <2>2, ClosedIs, AllIdle DEF AloneOK, Idle
<1>5. CASE Receive(t)
  <2>1. tabs[t].inbox # <<>> /\ alone' = alone
    BY <1>5 DEF Receive
  <2> QED BY <2>1 DEF AloneOK
<1> QED BY <1>2, <1>3, <1>4, <1>5

\* So does a write that fails: its tab begins again.
LEMMA WriteFailsAlone ==
    ASSUME TabsShape, AloneOK, WriteFails
    PROVE  AloneOK'
<1> DEFINE tx == Head(transactions)
           t == tx.tab
<1>1. /\ transactions # <<>> /\ t # Gone /\ alone' = alone
      /\ tabs' = [tabs EXCEPT ![t] = Opened]
  BY DEF WriteFails
<1>2. transactions \in Seq(Transaction) /\ tabs \in [Tabs -> Tab]
  BY DEF TabsShape, TabsTypeOK
<1>3. tx = transactions[1] /\ 1 \in DOMAIN transactions /\ tx \in Transaction
  BY <1>1, <1>2
<1> HIDE DEF tx
<1>4. t \in Tabs
  BY <1>1, <1>3 DEF Transaction
<1>5. tabs[t].state # "closed"
  BY <1>3, <1>4 DEF TabsShape, OneTransactionEach
<1> HIDE DEF t
<1>6. ASSUME alone, NEW u \in Tabs \ {t} PROVE tabs[u].state = "closed"
  BY <1>4, <1>5, <1>6 DEF AloneOK
<1> QED BY <1>1, <1>2, <1>4, <1>6, ClosedIs, AllIdle DEF AloneOK, Idle

\* Every step keeps a lone tab and the database together.
LEMMA NextAlone ==
    ASSUME TabsShape, AloneOK, [TabsNext]_tabsVars
    PROVE  AloneOK'
<1>1. CASE UNCHANGED tabsVars
  <2>1. AfterTransactions' = AfterTransactions
    BY <1>1, AfterTransactionsIs DEF tabsVars
  <2> QED BY <1>1, <2>1 DEF tabsVars, AloneOK, IsOpen
<1>2. ASSUME NEW t \in Tabs, NEW id \in Ids, NEW value \in Vals \cup {Absent},
             Edit(t, id, value)
      PROVE  AloneOK'
  BY <1>2, EditAlone
<1> QED BY <1>1, <1>2, OtherStepsAlone, PersistTimerAlone, FlushAlone,
           CommitAlone, WriteFailsAlone DEF TabsNext

\* What a tab that is open alone shows is written, under way or queued.
THEOREM WrittenOrQueuedCorrect == TabsSpec => []WrittenOrQueued
<1>1. TabsInit => TabsShape /\ AloneOK
  <2> SUFFICES ASSUME TabsInit PROVE AloneOK
    BY InitShape
  <2>1. tabs = [t \in Tabs |-> Closed]
    BY DEF TabsInit
  <2> QED BY <2>1, ClosedIs DEF AloneOK, Idle, IsOpen
<1>2. TabsShape /\ AloneOK /\ [TabsNext]_tabsVars => TabsShape' /\ AloneOK'
  BY NextShape, NextAlone
<1>3. TabsShape /\ AloneOK => WrittenOrQueued
  <2> SUFFICES ASSUME TabsShape, AloneOK, alone, NEW t \in Tabs, IsOpen(t),
                      ~tabs[t].shouldDoFullDBWrite,
                      NEW id \in Ids \ Left(tabs[t])
               PROVE  FoldLeft(ApplyChanges,
                        ApplyChanges(AfterTransactions, SquashedQueue(tabs[t])),
                        tabs[t].history)[id] = tabs[t].store[id]
    BY DEF WrittenOrQueued
  <2>1. /\ tabs[t] \in Tab /\ AfterTransactions \in Records
        /\ Lone(tabs[t], AfterTransactions)
    BY AfterTransactionsIs DEF TabsShape, TabsTypeOK, AloneOK
  <2> QED BY <2>1, LoneShows
<1> QED BY <1>1, <1>2, <1>3, PTL DEF TabsSpec

-----------------------------------------------------------------------------
(***************************************************************************)
(* Tabs that have sent and received everything.  Of a record that is not   *)
(* contested there is a value that all tabs will show, but for the one, if *)
(* any, whose history leads from it to another.                            *)
(***************************************************************************)
TabAgrees(tab, id, base) ==
    /\ tab.state = "read" => tab.store[id] = base
    /\ tab.state = "open" =>
         IF id \in TouchedBy(tab.history)
         THEN /\ LeadAll(id, base, tab.history, tab.store[id])
              /\ id \notin TouchedBy(tab.inbox)
         ELSE Applying!Fold(tab.store, tab.inbox)[id] = base

\* At most one of the tabs f has a change of the record to tell.
OneTells(f, id) ==
    \A t, u \in Tabs :
      id \in TouchedBy(f[t].history) /\ id \in TouchedBy(f[u].history) => t = u

Agreed ==
    \A id \in Ids \ contested :
      \E base : OneTells(tabs, id) /\ \A t \in Tabs : TabAgrees(tabs[t], id, base)

\* What a tab shows in the end is a fold.
LEMMA InTheEndIs ==
    ASSUME NEW t
    PROVE  InTheEnd(t) = Applying!Fold(tabs[t].store, tabs[t].inbox)
BY DEF InTheEnd, FoldLeft, MapThenFoldSet, Max, Applying!Fold,
       Applying!MapThenFoldSet, Applying!Greatest

\* A tab's diffs and stores have their types.
LEMMA TabParts ==
    ASSUME TabsTypeOK, NEW t \in Tabs
    PROVE  /\ tabs[t] \in Tab /\ tabs[t].store \in Records
           /\ tabs[t].history \in Seq(StoreDiff)
           /\ tabs[t].inbox \in Seq(StoreDiff)
           /\ Applying!Fold(tabs[t].store, tabs[t].inbox) \in Records
<1>1. /\ tabs[t] \in Tab /\ tabs[t].store \in Records
      /\ tabs[t].history \in Seq(StoreDiff)
      /\ tabs[t].inbox \in Seq(StoreDiff)
  BY DEF TabsTypeOK, Tab
<1>2. \A r \in Records, e \in StoreDiff : ApplyChanges(r, e) \in Records
  BY ApplyChangesType
<1>3. Applying!Fold(tabs[t].store, tabs[t].inbox) \in Records
  BY <1>1, <1>2, Applying!FoldKeeps
<1> QED BY <1>1, <1>3

\* Diffs that do not name a record leave it alone.
LEMMA FoldUntouched ==
    ASSUME NEW records \in Records, NEW ds \in Seq(StoreDiff), NEW id \in Ids,
           id \notin TouchedBy(ds)
    PROVE  Applying!Fold(records, ds)[id] = records[id]
<1>1. PICK v : /\ v[0] = records[id] /\ v[Len(ds)] = records[id]
               /\ Walks(TRUE, id, v, ds)
  BY LeftAlone DEF LeadAll
<1>2. FoldLeft(ApplyChanges, records, ds)[id] = v[Len(ds)]
  BY <1>1, ApplyAllLeads
<1>3. FoldLeft(ApplyChanges, records, ds) = Applying!Fold(records, ds)
  BY DEF FoldLeft, MapThenFoldSet, Max, Applying!Fold,
         Applying!MapThenFoldSet, Applying!Greatest
<1> QED BY <1>1, <1>2, <1>3

\* What becomes of a record does not depend on the others.
LEMMA FoldAgrees ==
    ASSUME NEW r \in Records, NEW s \in Records, NEW inbox \in Seq(StoreDiff),
           NEW id \in Ids, r[id] = s[id]
    PROVE  Applying!Fold(r, inbox)[id] = Applying!Fold(s, inbox)[id]
<1>1. PICK a : /\ a[0] = r
               /\ \A i \in 1..Len(inbox) : a[i] = ApplyChanges(a[i - 1], inbox[i])
               /\ Applying!Fold(r, inbox) = a[Len(inbox)]
  BY Applying!FoldTrace
<1>2. PICK b : /\ b[0] = s
               /\ \A i \in 1..Len(inbox) : b[i] = ApplyChanges(b[i - 1], inbox[i])
               /\ Applying!Fold(s, inbox) = b[Len(inbox)]
  BY Applying!FoldTrace
<1> DEFINE S == {i \in Nat : i <= Len(inbox) =>
                   /\ a[i] \in Records /\ b[i] \in Records
                   /\ a[i][id] = b[i][id]}
<1>3. 0 \in S
  BY <1>1, <1>2
<1>4. ASSUME NEW i \in Nat, i \in S PROVE i + 1 \in S
  <2> SUFFICES ASSUME i + 1 <= Len(inbox)
               PROVE  /\ a[i + 1] \in Records /\ b[i + 1] \in Records
                      /\ a[i + 1][id] = b[i + 1][id]
    OBVIOUS
  <2>1. /\ a[i] \in Records /\ b[i] \in Records /\ a[i][id] = b[i][id]
        /\ i + 1 \in 1..Len(inbox) /\ (i + 1) - 1 = i
        /\ inbox[i + 1] \in StoreDiff
    BY <1>4
  <2>2. /\ a[i + 1] = ApplyChanges(a[i], inbox[i + 1])
        /\ b[i + 1] = ApplyChanges(b[i], inbox[i + 1])
    BY <1>1, <1>2, <2>1
  <2>3. a[i + 1] \in Records /\ b[i + 1] \in Records
    BY <2>1, <2>2, ApplyChangesType
  <2>4. /\ id \in DOMAIN a[i] /\ id \in DOMAIN b[i]
    BY <2>1 DEF Records
  <2>5. a[i + 1][id] = b[i + 1][id]
    BY <2>1, <2>2, <2>4 DEF ApplyChanges
  <2> QED BY <2>3, <2>5
<1> HIDE DEF S
<1>5. Nat \subseteq S
  BY <1>3, <1>4, Applying!SetInduction
<1>6. Len(inbox) \in S /\ Len(inbox) <= Len(inbox)
  BY <1>5
<1> QED BY <1>1, <1>2, <1>6 DEF S

\* What the diff of a change says of a record that it does not change: nothing.
LEMMA BetweenLeaves ==
    ASSUME NEW old \in Records, NEW new \in Records, NEW id \in Ids,
           old[id] = new[id]
    PROVE  id \notin Touched(Between(old, new))
BY DEF Between, Touched, Records

\* A change of a record of which the tab knows what the others do.
LEMMA EditedAgrees ==
    ASSUME NEW tab \in Tab, NEW d \in Tab, NEW shown \in Records,
           Between(tab.store, shown) \in StoreDiff,
           d.history = WithEntry(tab.history, Between(tab.store, shown)),
           d.store = shown, d.inbox = tab.inbox, d.state = "open",
           NEW id \in Ids, NEW base, id \notin TouchedBy(tab.inbox),
           LeadAll(id, base, tab.history, tab.store[id])
    PROVE  TabAgrees(d, id, base)
<1>1. /\ tab.history \in Seq(StoreDiff) /\ tab.store \in Records
      /\ tab.inbox \in Seq(StoreDiff) /\ d.history \in Seq(StoreDiff)
  BY DEF Tab
<1>2. DOMAIN tab.store = Ids /\ DOMAIN shown = Ids
  BY <1>1 DEF Records
<1>3. Leads(id, tab.store[id], Between(tab.store, shown), shown[id])
  BY <1>2, BetweenAtLeads
<1>4. LeadAll(id, base, d.history, shown[id])
  BY <1>1, <1>3, EntryLeads
<1>5. ASSUME id \notin TouchedBy(d.history)
      PROVE  Applying!Fold(d.store, d.inbox)[id] = base
  <2>1. base = shown[id]
    BY <1>1, <1>4, <1>5, LeadAllApplies
  <2>2. Applying!Fold(shown, tab.inbox)[id] = shown[id]
    BY <1>1, FoldUntouched
  <2> QED BY <2>1, <2>2
<1> QED BY <1>4, <1>5 DEF TabAgrees

\* A change of another record.
LEMMA OtherEditAgrees ==
    ASSUME NEW tab \in Tab, NEW d \in Tab, NEW shown \in Records,
           Between(tab.store, shown) \in StoreDiff,
           d.history = WithEntry(tab.history, Between(tab.store, shown)),
           d.store = shown, d.inbox = tab.inbox, d.state = "open",
           tab.state = "open", NEW id \in Ids, NEW base,
           shown[id] = tab.store[id], TabAgrees(tab, id, base)
    PROVE  /\ TabAgrees(d, id, base)
           /\ id \in TouchedBy(d.history) <=> id \in TouchedBy(tab.history)
<1>1. /\ tab.history \in Seq(StoreDiff) /\ tab.store \in Records
      /\ tab.inbox \in Seq(StoreDiff)
  BY DEF Tab
<1>2. id \notin Touched(Between(tab.store, shown))
  BY <1>1, BetweenLeaves
<1>3. id \in TouchedBy(d.history) <=> id \in TouchedBy(tab.history)
  BY <1>1, <1>2, EntryTouches
<1>4. ASSUME id \in TouchedBy(tab.history) PROVE TabAgrees(d, id, base)
  <2>1. /\ LeadAll(id, base, tab.history, tab.store[id])
        /\ id \notin TouchedBy(tab.inbox)
    BY <1>4 DEF TabAgrees
  <2> QED BY <2>1, EditedAgrees
<1>5. ASSUME id \notin TouchedBy(tab.history) PROVE TabAgrees(d, id, base)
  <2>1. Applying!Fold(tab.store, tab.inbox)[id] = base
    BY <1>5 DEF TabAgrees
  <2>2. Applying!Fold(shown, tab.inbox)[id] = Applying!Fold(tab.store, tab.inbox)[id]
    BY <1>1, FoldAgrees
  <2> QED BY <1>3, <1>5, <2>1, <2>2 DEF TabAgrees
<1> QED BY <1>3, <1>4, <1>5

\* An edit keeps the tabs agreed.
LEMMA EditAgrees ==
    ASSUME TabsShape, Agreed, NEW t \in Tabs, NEW id \in Ids,
           NEW value \in Vals \cup {Absent}, Edit(t, id, value)
    PROVE  Agreed'
<1>1. /\ TabsTypeOK /\ tabs \in [Tabs -> Tab] /\ tabs[t].state = "open"
      /\ contested' = IF ChangedElsewhere(t, id) THEN contested \cup {id}
                      ELSE contested
  BY DEF Edit, TabsShape, TabsTypeOK, IsOpen
<1>2. PICK d \in Tab : \E other \in Records :
        /\ tabs' = [tabs EXCEPT ![t] = d]
        /\ other = [tabs[t].store EXCEPT ![id] = value]
        /\ Between(tabs[t].store, other) \in StoreDiff
        /\ d.state = tabs[t].state /\ d.isPersisting = tabs[t].isPersisting
        /\ d.shouldDoFullDBWrite = tabs[t].shouldDoFullDBWrite
        /\ d.queue = tabs[t].queue /\ d.inbox = tabs[t].inbox
        /\ d.early = tabs[t].early /\ d.store = other
        /\ d.history
             = WithEntry(tabs[t].history, Between(tabs[t].store, other))
  BY <1>1, EditIs, Zenon
<1>3. PICK shown \in Records :
        /\ tabs' = [tabs EXCEPT ![t] = d]
        /\ shown = [tabs[t].store EXCEPT ![id] = value]
        /\ Between(tabs[t].store, shown) \in StoreDiff
        /\ d.state = tabs[t].state /\ d.inbox = tabs[t].inbox
        /\ d.store = shown
        /\ d.history
             = WithEntry(tabs[t].history, Between(tabs[t].store, shown))
  BY <1>2, Zenon
<1>4. tabs'[t] = d /\ \A u \in Tabs \ {t} : tabs'[u] = tabs[u]
  BY <1>1, <1>3
<1>5. ASSUME NEW x \in Ids \ contested', NEW base, OneTells(tabs, x),
             \A u \in Tabs : TabAgrees(tabs[u], x, base)
      PROVE  OneTells(tabs', x) /\ TabAgrees(d, x, base)
  <2>1. CASE x = id
    <3>1. /\ id \notin TouchedBy(tabs[t].inbox)
          /\ \A u \in Tabs \ {t} : id \notin TouchedBy(tabs[u].history)
      BY <1>1, <1>5, <2>1 DEF ChangedElsewhere
    <3>2. LeadAll(id, base, tabs[t].history, tabs[t].store[id])
      <4>1. CASE id \in TouchedBy(tabs[t].history)
        BY <1>1, <1>5, <2>1, <4>1 DEF TabAgrees
      <4>2. CASE id \notin TouchedBy(tabs[t].history)
        <5>1. Applying!Fold(tabs[t].store, tabs[t].inbox)[id] = base
          BY <1>1, <1>5, <2>1, <4>2 DEF TabAgrees
        <5>2. tabs[t].store[id] = base
          BY <1>1, <3>1, <5>1, TabParts, FoldUntouched
        <5> QED BY <1>1, <4>2, <5>2, TabParts, LeftAlone
      <4> QED BY <4>1, <4>2
    <3>3. TabAgrees(d, id, base)
      BY <1>1, <1>3, <3>1, <3>2, TabParts, EditedAgrees
    <3> QED BY <1>4, <2>1, <3>1, <3>3 DEF OneTells
  <2>2. CASE x # id
    <3>1. shown[x] = tabs[t].store[x]
      BY <1>1, <1>3, <2>2, TabParts DEF Records
    <3>2. TabAgrees(tabs[t], x, base)
      BY <1>5
    <3>3. /\ TabAgrees(d, x, base)
          /\ x \in TouchedBy(d.history) <=> x \in TouchedBy(tabs[t].history)
      BY <1>1, <1>3, <3>1, <3>2, TabParts, OtherEditAgrees
    <3>4. OneTells(tabs', x)
      BY <1>4, <1>5, <3>3 DEF OneTells
    <3> QED BY <3>3, <3>4
  <2> QED BY <2>1, <2>2
<1>6. ASSUME NEW x \in Ids \ contested'
      PROVE  \E base : /\ OneTells(tabs', x)
                       /\ \A u \in Tabs : TabAgrees(tabs'[u], x, base)
  <2>1. PICK base : /\ OneTells(tabs, x)
                    /\ \A u \in Tabs : TabAgrees(tabs[u], x, base)
    BY <1>1, <1>6 DEF Agreed
  <2> QED BY <1>4, <1>5, <1>6, <2>1
<1> QED BY <1>6 DEF Agreed

\* So does a frame: the others will show what the tab shows that tells.
LEMMA FlushAgrees ==
    ASSUME TabsShape, Agreed, NEW t \in Tabs, NEW session,
           FlushHistory(t, session)
    PROVE  Agreed'
<1> DEFINE diffs == Heard(tabs[t].history)
<1>1. /\ TabsTypeOK /\ tabs \in [Tabs -> Tab] /\ tabs[t].state = "open"
      /\ contested' = IF \E u \in Tabs : tabs[u].state = "read"
                        THEN contested \cup TouchedBy(diffs) ELSE contested
  BY DEF FlushHistory, TabsShape, TabsTypeOK, IsOpen
<1>2. /\ tabs'[t].state = tabs[t].state
      /\ tabs'[t].inbox = tabs[t].inbox
      /\ tabs'[t].store = tabs[t].store
      /\ tabs'[t].history = <<>>
      /\ \A u \in Tabs \ {t} :
           IF tabs[u].state = "open"
           THEN /\ tabs'[u].state = tabs[u].state
                /\ tabs'[u].history = tabs[u].history
                /\ tabs'[u].store = tabs[u].store
                /\ tabs'[u].inbox = tabs[u].inbox \o diffs
           ELSE tabs'[u] = tabs[u]
  BY <1>1, FlushIs DEF IsOpen
<1>3. diffs \in Seq(StoreDiff) /\ TouchedBy(diffs) = TouchedBy(tabs[t].history)
  BY <1>1, TabParts, HeardTouches
<1>4. ASSUME NEW id, NEW x, NEW y, LeadAll(id, x, tabs[t].history, y)
      PROVE  LeadAll(id, x, diffs, y)
  BY <1>1, <1>4, TabParts, HeardLeads
<1> HIDE DEF diffs
<1>5. TouchedBy(<<>>) = {}
  BY DEF TouchedBy
<1>6. \A u \in Tabs \ {t} : /\ tabs'[u].state = tabs[u].state
                            /\ tabs'[u].history = tabs[u].history
                            /\ tabs'[u].store = tabs[u].store
  BY <1>2
<1>7. ASSUME NEW u \in Tabs \ {t}, tabs[u].state = "open"
      PROVE  /\ Applying!Fold(tabs'[u].store, tabs'[u].inbox)
                  = Applying!Fold(Applying!Fold(tabs[u].store, tabs[u].inbox),
                                  diffs)
             /\ TouchedBy(tabs'[u].inbox)
                  = TouchedBy(tabs[u].inbox) \cup TouchedBy(diffs)
  <2>1. tabs[u].inbox \in Seq(StoreDiff)
    BY <1>1, TabParts
  <2>2. Applying!Fold(tabs[u].store, tabs[u].inbox \o diffs)
          = Applying!Fold(Applying!Fold(tabs[u].store, tabs[u].inbox), diffs)
    BY <1>3, <2>1, Applying!FoldConcat
  <2>3. TouchedBy(tabs[u].inbox \o diffs)
          = TouchedBy(tabs[u].inbox) \cup TouchedBy(diffs)
    BY <1>3, <2>1, BothTouched
  <2>4. tabs'[u].store = tabs[u].store /\ tabs'[u].inbox = tabs[u].inbox \o diffs
    BY <1>2, <1>7
  <2> QED BY <2>2, <2>3, <2>4
<1>8. ASSUME NEW id \in Ids \ contested', NEW base, OneTells(tabs, id),
             \A u \in Tabs : TabAgrees(tabs[u], id, base)
      PROVE  \E next : \A u \in Tabs : TabAgrees(tabs'[u], id, next)
  <2>1. CASE id \in TouchedBy(tabs[t].history)
    <3> DEFINE next == tabs[t].store[id]
    <3>1. /\ LeadAll(id, base, tabs[t].history, next)
          /\ id \notin TouchedBy(tabs[t].inbox)
      BY <1>1, <1>8, <2>1 DEF TabAgrees
    <3>2. Applying!Fold(tabs[t].store, tabs[t].inbox)[id] = next
      BY <1>1, <3>1, TabParts, FoldUntouched
    <3>3. LeadAll(id, base, diffs, next)
      BY <1>4, <3>1
    <3> HIDE DEF next
    <3>4. TabAgrees(tabs'[t], id, next)
      BY <1>1, <1>2, <1>5, <3>2 DEF TabAgrees
    <3>5. ASSUME NEW u \in Tabs \ {t} PROVE TabAgrees(tabs'[u], id, next)
      <4>1. tabs[u].state # "read"
        BY <1>1, <1>3, <1>8, <2>1
      <4>2. ASSUME tabs[u].state = "open"
            PROVE  Applying!Fold(tabs'[u].store, tabs'[u].inbox)[id] = next
        <5>1. Applying!Fold(tabs[u].store, tabs[u].inbox) \in Records
          BY <1>1, TabParts
        <5>2. \A r \in Records : Applying!Fold(r, diffs)[id] = next
          BY <1>3, <2>1, <3>3, LeadAllApplies
        <5> QED BY <1>7, <4>2, <5>1, <5>2
      <4>3. id \notin TouchedBy(tabs'[u].history)
        BY <1>6, <1>8, <2>1 DEF OneTells
      <4> QED BY <1>6, <4>1, <4>2, <4>3 DEF TabAgrees
    <3> QED BY <3>4, <3>5
  <2>2. CASE id \notin TouchedBy(tabs[t].history)
    <3>1. TabAgrees(tabs'[t], id, base)
      BY <1>1, <1>2, <1>5, <1>8, <2>2 DEF TabAgrees
    <3>2. ASSUME NEW u \in Tabs \ {t} PROVE TabAgrees(tabs'[u], id, base)
      <4>1. CASE tabs[u].state = "open"
        <5>1. CASE id \in TouchedBy(tabs[u].history)
          <6>1. /\ LeadAll(id, base, tabs[u].history, tabs[u].store[id])
                /\ id \notin TouchedBy(tabs[u].inbox)
            BY <1>8, <4>1, <5>1 DEF TabAgrees
          <6>2. id \notin TouchedBy(tabs'[u].inbox)
            BY <1>3, <1>7, <2>2, <4>1, <6>1
          <6> QED BY <1>6, <4>1, <5>1, <6>1, <6>2 DEF TabAgrees
        <5>2. CASE id \notin TouchedBy(tabs[u].history)
          <6> DEFINE end == Applying!Fold(tabs[u].store, tabs[u].inbox)
          <6>1. end[id] = base /\ end \in Records
            BY <1>1, <1>8, <4>1, <5>2, TabParts DEF TabAgrees
          <6>2. Applying!Fold(tabs'[u].store, tabs'[u].inbox)
                  = Applying!Fold(end, diffs)
            BY <1>7, <4>1
          <6> HIDE DEF end
          <6>3. Applying!Fold(end, diffs)[id] = end[id]
            BY <1>3, <2>2, <6>1, FoldUntouched
          <6> QED BY <1>6, <4>1, <5>2, <6>1, <6>2, <6>3 DEF TabAgrees
        <5> QED BY <5>1, <5>2
      <4>2. CASE tabs[u].state # "open"
        <5>1. tabs'[u] = tabs[u]
          BY <1>2, <4>2
        <5> QED BY <1>8, <5>1
      <4> QED BY <4>1, <4>2
    <3> QED BY <3>1, <3>2
  <2> QED BY <2>1, <2>2
<1>9. ASSUME NEW id \in Ids \ contested'
      PROVE  \E next : /\ OneTells(tabs', id)
                       /\ \A u \in Tabs : TabAgrees(tabs'[u], id, next)
  <2>1. PICK base : /\ OneTells(tabs, id)
                    /\ \A u \in Tabs : TabAgrees(tabs[u], id, base)
    BY <1>1, <1>9 DEF Agreed
  <2>2. \E next : \A u \in Tabs : TabAgrees(tabs'[u], id, next)
    BY <1>8, <1>9, <2>1
  <2>3. \A u \in Tabs : id \in TouchedBy(tabs'[u].history) =>
                          id \in TouchedBy(tabs[u].history)
    BY <1>2, <1>5, <1>6
  <2>4. OneTells(tabs', id)
    BY <2>1, <2>3 DEF OneTells
  <2> QED BY <2>2, <2>4
<1> QED BY <1>9 DEF Agreed

\* A step in which one tab at most changes, and agrees with the others as before.
LEMMA OneStepAgrees ==
    ASSUME TabsTypeOK, Agreed, contested \subseteq contested', NEW t \in Tabs,
           NEW d, tabs' = [tabs EXCEPT ![t] = d],
           \A id \in Ids : \A base : TabAgrees(tabs[t], id, base) =>
             TabAgrees(d, id, base),
           TouchedBy(d.history) \subseteq TouchedBy(tabs[t].history)
    PROVE  Agreed'
<1>1. tabs'[t] = d /\ \A u \in Tabs \ {t} : tabs'[u] = tabs[u]
  BY DEF TabsTypeOK
<1>2. ASSUME NEW id \in Ids \ contested'
      PROVE  \E base : /\ OneTells(tabs', id)
                       /\ \A u \in Tabs : TabAgrees(tabs'[u], id, base)
  <2>1. PICK base : /\ OneTells(tabs, id)
                    /\ \A u \in Tabs : TabAgrees(tabs[u], id, base)
    BY <1>2 DEF Agreed
  <2>2. \A u \in Tabs : TabAgrees(tabs'[u], id, base)
    BY <1>1, <2>1
  <2>3. OneTells(tabs', id)
    BY <1>1, <2>1 DEF OneTells
  <2> QED BY <2>2, <2>3
<1> QED BY <1>2 DEF Agreed

\* So does a message from another tab: what was due has come.
LEMMA ReceiveAgrees ==
    ASSUME TabsShape, Agreed, NEW t \in Tabs, Receive(t)
    PROVE  Agreed'
<1> DEFINE tab == tabs[t]
           d == Received(tab)
           diff == Head(tab.inbox)
<1>1. /\ tabs' = [tabs EXCEPT ![t] = d] /\ tab.inbox # <<>>
      /\ TabsTypeOK /\ contested' = contested
  BY ReceiveIs DEF TabsShape, Receive
<1>2. tab.state = "open"
  BY <1>1 DEF TabsShape, IdleUnlessOpen, Idle, IsOpen
<1>3. /\ tab \in Tab /\ tab.inbox \in Seq(StoreDiff)
      /\ tab.history \in Seq(StoreDiff) /\ tab.store \in Records
  BY <1>1, TabParts
<1>4. /\ d.state = tab.state /\ d.inbox = Tail(tab.inbox)
      /\ d.store = ApplyChanges(tab.store, diff)
      /\ d.history = tab.history \/ d.history = Append(tab.history, NoChanges)
  BY <1>1, <1>3, ReceivedIs
<1> HIDE DEF d, tab
<1>5. TouchedBy(d.history) = TouchedBy(tab.history)
  <2>1. TouchedBy(Append(tab.history, NoChanges))
          = TouchedBy(tab.history) \cup Touched(NoChanges)
    BY <1>3, OneMoreTouched, NoChangesTouch
  <2>2. TouchedBy(Append(tab.history, NoChanges)) = TouchedBy(tab.history)
    BY <2>1, NoChangesTouch
  <2> QED BY <1>4, <2>2, Zenon
<1>6. /\ diff \in StoreDiff
      /\ TouchedBy(tab.inbox) = Touched(diff) \cup TouchedBy(Tail(tab.inbox))
  <2>1. /\ DOMAIN tab.inbox = 1..Len(tab.inbox) /\ Len(tab.inbox) \in Nat \ {0}
        /\ DOMAIN Tail(tab.inbox) = 1..Len(tab.inbox) - 1
        /\ \A i \in 1..Len(tab.inbox) - 1 : Tail(tab.inbox)[i] = tab.inbox[i + 1]
        /\ diff = tab.inbox[1] /\ diff \in StoreDiff
    BY <1>1, <1>3 DEF tab
  <2> HIDE DEF diff
  <2>2. ASSUME NEW i \in 1..Len(tab.inbox)
        PROVE  i = 1 \/ (i - 1 \in 1..Len(tab.inbox) - 1 /\ (i - 1) + 1 = i)
    BY <2>1
  <2>3. ASSUME NEW id, id \in TouchedBy(tab.inbox)
        PROVE  id \in Touched(diff) \cup TouchedBy(Tail(tab.inbox))
    <3>1. PICK i \in 1..Len(tab.inbox) : id \in Touched(tab.inbox[i])
      BY <2>1, <2>3 DEF TouchedBy
    <3>2. CASE i = 1
      BY <2>1, <3>1, <3>2
    <3>3. CASE i - 1 \in 1..Len(tab.inbox) - 1 /\ (i - 1) + 1 = i
      <4>1. id \in Touched(Tail(tab.inbox)[i - 1])
        BY <2>1, <3>1, <3>3
      <4> QED BY <2>1, <3>3, <4>1 DEF TouchedBy
    <3> QED BY <2>2, <3>2, <3>3
  <2>4. ASSUME NEW id, id \in Touched(diff) \cup TouchedBy(Tail(tab.inbox))
        PROVE  id \in TouchedBy(tab.inbox)
    <3>1. CASE id \in Touched(diff)
      <4>1. 1 \in DOMAIN tab.inbox
        BY <2>1
      <4> QED BY <2>1, <3>1, <4>1 DEF TouchedBy
    <3>2. CASE id \in TouchedBy(Tail(tab.inbox))
      <4>1. PICK i \in 1..Len(tab.inbox) - 1 : id \in Touched(Tail(tab.inbox)[i])
        BY <2>1, <3>2 DEF TouchedBy
      <4>2. i + 1 \in DOMAIN tab.inbox /\ id \in Touched(tab.inbox[i + 1])
        BY <2>1, <4>1
      <4> QED BY <4>2 DEF TouchedBy
    <3> QED BY <2>4, <3>1, <3>2
  <2> QED BY <2>1, <2>3, <2>4
<1>7. Applying!Fold(d.store, d.inbox) = Applying!Fold(tab.store, tab.inbox)
  <2>1. Applying!Fold(tab.store, tab.inbox)
          = Applying!Fold(ApplyChanges(tab.store, Head(tab.inbox)),
                          Tail(tab.inbox))
    BY <1>1, <1>3, Applying!FoldTail DEF tab
  <2> QED BY <1>4, <2>1
<1>8. ASSUME NEW id \in Ids, NEW base, TabAgrees(tab, id, base)
      PROVE  TabAgrees(d, id, base)
  <2>1. CASE id \in TouchedBy(tab.history)
    <3>1. /\ LeadAll(id, base, tab.history, tab.store[id])
          /\ id \notin TouchedBy(tab.inbox)
      BY <1>2, <1>8, <2>1 DEF TabAgrees, tab
    <3>2. d.store[id] = tab.store[id]
      BY <1>3, <1>4, <1>6, <3>1 DEF ApplyChanges, Touched, Records
    <3>3. LeadAll(id, base, d.history, d.store[id])
      <4>1. Leads(id, tab.store[id], NoChanges, tab.store[id])
        BY NoChangesTouch
      <4>2. LeadAll(id, base, Append(tab.history, NoChanges), tab.store[id])
        BY <1>3, <3>1, <4>1, LeadOn, NoChangesTouch
      <4> QED BY <1>4, <3>1, <3>2, <4>2
    <3>4. id \notin TouchedBy(d.inbox)
      BY <1>4, <1>6, <3>1
    <3> QED BY <1>2, <1>4, <1>5, <2>1, <3>3, <3>4 DEF TabAgrees, tab
  <2>2. CASE id \notin TouchedBy(tab.history)
    BY <1>2, <1>4, <1>5, <1>7, <1>8, <2>2 DEF TabAgrees, tab
  <2> QED BY <2>1, <2>2
<1> QED BY <1>1, <1>5, <1>8, OneStepAgrees DEF tab

\* So does a tab that begins to listen: nothing was on its way to it.
LEMMA LoadedAgrees ==
    ASSUME TabsShape, Agreed, NEW t \in Tabs, Loaded(t)
    PROVE  Agreed'
<1>1. /\ TabsTypeOK /\ contested' = contested /\ tabs[t].state = "read"
  BY DEF TabsShape, Loaded
<1>2. PICK d \in Tab : /\ tabs' = [tabs EXCEPT ![t] = d]
                       /\ d.state = "open" /\ d.store = tabs[t].store
                       /\ d.inbox = tabs[t].inbox
                       /\ d.history = tabs[t].history
  BY <1>1, LoadedIs
<1>3. tabs[t].inbox = <<>> /\ tabs[t].history = <<>>
  BY <1>1 DEF TabsShape, IdleUnlessOpen, Idle, IsOpen
<1>4. Applying!Fold(d.store, d.inbox) = d.store
  BY <1>2, <1>3, Applying!FoldEmpty
<1>5. TouchedBy(d.history) = {}
  BY <1>2, <1>3 DEF TouchedBy
<1>6. \A id \in Ids : \A base : TabAgrees(tabs[t], id, base) => TabAgrees(d, id, base)
  BY <1>1, <1>2, <1>4, <1>5 DEF TabAgrees
<1> QED BY <1>1, <1>2, <1>5, <1>6, OneStepAgrees

\* So does a tab that has read the table: the others have the same record.
LEMMA CommitAgrees ==
    ASSUME TabsShape, Agreed, Commit
    PROVE  Agreed'
<1> DEFINE tx == Head(transactions)
<1>1. /\ TabsTypeOK /\ transactions # <<>> /\ tx \in Transaction
      /\ transactions \in Seq(Transaction)
  BY CommitIs DEF TabsShape, TabsTypeOK
<1>2. /\ \A u \in Tabs :
           /\ u # tx.tab => tabs'[u] = tabs[u]
           /\ u = tx.tab /\ tx.type = "load" =>
                /\ tabs'[u].state = "read" /\ tabs'[u].store = db
                /\ Idle(tabs[u]) => Idle(tabs'[u])
           /\ u = tx.tab /\ tx.type # "load" => SameWork(tabs[u], tabs'[u])
      /\ contested' = IF tx.tab \in Tabs /\ tx.type = "load"
                        THEN contested \cup ReadOtherwise ELSE contested
  BY <1>1, CommitIs DEF Commit
<1>3. tx = transactions[1] /\ 1 \in DOMAIN transactions
  BY <1>1
<1> HIDE DEF tx
<1>4. ASSUME NEW u \in Tabs, u = tx.tab, tx.type = "load"
      PROVE  tabs'[u].history = <<>>
  <2>1. ~IsOpen(u)
    BY <1>3, <1>4 DEF TabsShape, OneTransactionEach, IsOpen
  <2>2. Idle(tabs'[u])
    BY <1>2, <1>4, <2>1 DEF TabsShape, IdleUnlessOpen
  <2> QED BY <2>2 DEF Idle
<1>5. \A u \in Tabs : TouchedBy(tabs'[u].history) \subseteq TouchedBy(tabs[u].history)
  <2> SUFFICES ASSUME NEW u \in Tabs
               PROVE  TouchedBy(tabs'[u].history) \subseteq TouchedBy(tabs[u].history)
    OBVIOUS
  <2>1. CASE u # tx.tab
    BY <1>2, <2>1
  <2>2. CASE u = tx.tab /\ tx.type # "load"
    BY <1>2, <2>2 DEF SameWork
  <2>3. CASE u = tx.tab /\ tx.type = "load"
    BY <1>4, <2>3 DEF TouchedBy
  <2> QED BY <2>1, <2>2, <2>3
<1>6. ASSUME NEW id \in Ids \ contested', OneTells(tabs, id)
      PROVE  OneTells(tabs', id)
  BY <1>5, <1>6 DEF OneTells
<1>7. CASE tx.tab \in Tabs /\ tx.type = "load"
  <2>1. ASSUME NEW id \in Ids \ contested', NEW u \in Tabs
        PROVE  TabAgrees(tabs'[u], id, db[id])
    <3>1. id \notin ReadOtherwise
      BY <1>2, <1>7
    <3>2. CASE u = tx.tab
      BY <1>2, <1>7, <3>2 DEF TabAgrees
    <3>3. CASE u # tx.tab
      <4>1. /\ tabs[u].state = "read" => tabs[u].store[id] = db[id]
            /\ tabs[u].state = "open" => InTheEnd(u)[id] = db[id]
            /\ id \notin TouchedBy(tabs[u].history)
        BY <3>1 DEF ReadOtherwise, IsOpen
      <4> QED BY <1>2, <3>3, <4>1, InTheEndIs DEF TabAgrees
    <3> QED BY <3>2, <3>3
  <2>2. ASSUME NEW id \in Ids \ contested'
        PROVE  \E base : /\ OneTells(tabs', id)
                         /\ \A u \in Tabs : TabAgrees(tabs'[u], id, base)
    <3>1. OneTells(tabs, id)
      BY <1>2, <1>7, <2>2 DEF Agreed
    <3> QED BY <1>6, <2>1, <2>2, <3>1
  <2> QED BY <2>2 DEF Agreed
<1>8. CASE ~(tx.tab \in Tabs /\ tx.type = "load")
  <2>1. ASSUME NEW u \in Tabs, NEW id, NEW base, TabAgrees(tabs[u], id, base)
        PROVE  TabAgrees(tabs'[u], id, base)
    <3>1. CASE u # tx.tab
      BY <1>2, <2>1, <3>1
    <3>2. CASE u = tx.tab
      <4>1. SameWork(tabs[u], tabs'[u])
        BY <1>2, <1>8, <3>2
      <4> QED BY <2>1, <4>1 DEF SameWork, TabAgrees
    <3> QED BY <3>1, <3>2
  <2>2. ASSUME NEW id \in Ids \ contested'
        PROVE  \E base : /\ OneTells(tabs', id)
                         /\ \A u \in Tabs : TabAgrees(tabs'[u], id, base)
    <3>1. PICK base : /\ OneTells(tabs, id)
                      /\ \A u \in Tabs : TabAgrees(tabs[u], id, base)
      BY <1>2, <1>8, <2>2 DEF Agreed
    <3> QED BY <1>6, <2>1, <2>2, <3>1
  <2> QED BY <2>2 DEF Agreed
<1> QED BY <1>7, <1>8

\* So do opening, closing, a write that fails and the timer.
LEMMA OtherStepsAgree ==
    ASSUME TabsShape, Agreed,
           WriteFails \/ \E t \in Tabs : Open(t) \/ Close(t) \/ PersistTimer(t)
    PROVE  Agreed'
<1>1. TabsTypeOK /\ contested' = contested
  BY DEF TabsShape, WriteFails, Open, Close, PersistTimer
<1>2. ASSUME NEW t \in Tabs, NEW d, tabs' = [tabs EXCEPT ![t] = d],
             d.state \notin {"read", "open"}, d.history = <<>>
      PROVE  Agreed'
  <2>1. \A id \in Ids : \A base : TabAgrees(d, id, base)
    BY <1>2 DEF TabAgrees
  <2>2. TouchedBy(d.history) = {}
    BY <1>2 DEF TouchedBy
  <2> QED BY <1>1, <1>2, <2>1, <2>2, OneStepAgrees
<1>3. ASSUME NEW t \in Tabs, Open(t) PROVE Agreed'
  BY <1>2, <1>3, ClosedIs DEF Open, Idle
<1>4. ASSUME NEW t \in Tabs, Close(t) PROVE Agreed'
  BY <1>2, <1>4, ClosedIs DEF Close, Idle
<1>5. ASSUME WriteFails PROVE Agreed'
  <2> DEFINE tx == Head(transactions)
  <2>1. /\ tabs' = [tabs EXCEPT ![tx.tab] = Opened] /\ tx.tab # Gone
        /\ transactions # <<>> /\ transactions \in Seq(Transaction)
    BY <1>1, <1>5 DEF WriteFails, TabsTypeOK
  <2>2. tx \in Transaction
    BY <2>1
  <2> HIDE DEF tx
  <2>3. tx.tab \in Tabs
    BY <2>1, <2>2 DEF Transaction
  <2> QED BY <1>2, <2>1, <2>3, ClosedIs DEF Idle
<1>6. ASSUME NEW t \in Tabs, PersistTimer(t) PROVE Agreed'
  <2>1. PICK d : /\ tabs' = [tabs EXCEPT ![t] = d] /\ d.state = tabs[t].state
                 /\ d.store = tabs[t].store /\ d.history = tabs[t].history
                 /\ d.inbox = tabs[t].inbox
    <3>1. tabs[t] \in Tab
      BY <1>1, TabParts
    <3>2. /\ TakeQueue(tabs[t]).state = tabs[t].state
          /\ TakeQueue(tabs[t]).store = tabs[t].store
          /\ TakeQueue(tabs[t]).history = tabs[t].history
          /\ TakeQueue(tabs[t]).inbox = tabs[t].inbox
      BY <3>1, TakeQueueIs
    <3> QED BY <1>1, <1>6, <3>2, PersistTimerIs DEF SameWork
  <2>2. \A id \in Ids : \A base :
          TabAgrees(tabs[t], id, base) => TabAgrees(d, id, base)
    BY <2>1 DEF TabAgrees
  <2> QED BY <1>1, <2>1, <2>2, OneStepAgrees
<1> QED BY <1>3, <1>4, <1>5, <1>6

\* Every step keeps the tabs agreed.
LEMMA NextAgrees ==
    ASSUME TabsShape, Agreed, [TabsNext]_tabsVars
    PROVE  Agreed'
<1>1. CASE UNCHANGED tabsVars
  BY <1>1 DEF tabsVars, Agreed
<1>2. ASSUME NEW t \in Tabs, NEW id \in Ids, NEW value \in Vals \cup {Absent},
             Edit(t, id, value)
      PROVE  Agreed'
  BY <1>2, EditAgrees
<1>3. ASSUME NEW t \in Tabs, NEW session \in BOOLEAN, FlushHistory(t, session)
      PROVE  Agreed'
  BY <1>3, FlushAgrees
<1> QED BY <1>1, <1>2, <1>3, LoadedAgrees, ReceiveAgrees, CommitAgrees,
           OtherStepsAgree DEF TabsNext

\* Open tabs that have sent and received everything show the same records, but
\* for the contested ones: the frames, the timing of the channel and that of
\* writes do not matter.
THEOREM TabsAgreeCorrect == TabsSpec => []TabsAgree
<1>1. TabsInit => TabsShape /\ Agreed
  <2> SUFFICES ASSUME TabsInit PROVE Agreed
    BY InitShape
  <2>1. tabs = [t \in Tabs |-> Closed]
    BY DEF TabsInit
  <2>2. \A t \in Tabs : TouchedBy(tabs[t].history) = {}
    BY <2>1, ClosedIs DEF Idle, TouchedBy
  <2>3. \A t \in Tabs : \A id, base : TabAgrees(tabs[t], id, base)
    BY <2>1, ClosedIs DEF TabAgrees
  <2> QED BY <2>2, <2>3 DEF Agreed, OneTells
<1>2. TabsShape /\ Agreed /\ [TabsNext]_tabsVars => TabsShape' /\ Agreed'
  BY NextShape, NextAgrees
<1>3. Agreed => TabsAgree
  <2>1. ASSUME NEW t \in Tabs, UpToDate(t), NEW id, NEW base,
               TabAgrees(tabs[t], id, base)
        PROVE  tabs[t].store[id] = base
    <3>1. /\ tabs[t].state = "open" /\ tabs[t].inbox = <<>>
          /\ tabs[t].history = <<>>
      BY <2>1 DEF UpToDate, IsOpen
    <3>2. id \notin TouchedBy(tabs[t].history)
      BY <3>1 DEF TouchedBy
    <3>3. Applying!Fold(tabs[t].store, tabs[t].inbox) = tabs[t].store
      BY <3>1, Applying!FoldEmpty
    <3> QED BY <2>1, <3>1, <3>2, <3>3 DEF TabAgrees
  <2>2. ASSUME Agreed, NEW t \in Tabs, NEW u \in Tabs, NEW id \in Ids \ contested,
               UpToDate(t), UpToDate(u)
        PROVE  tabs[t].store[id] = tabs[u].store[id]
    <3>1. PICK base : \A v \in Tabs : TabAgrees(tabs[v], id, base)
      BY <2>2 DEF Agreed
    <3> QED BY <2>1, <2>2, <3>1
  <2> QED BY <2>2 DEF TabsAgree
<1> QED BY <1>1, <1>2, <1>3, PTL DEF TabsSpec
==============================================================================
