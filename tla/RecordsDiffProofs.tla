-------------------------- MODULE RecordsDiffProofs --------------------------
(* Theorems about RecordsDiff: squashing composes, reversing inverts. *)
EXTENDS RecordsDiff, TLAPS

OnlyAdded(added) == [NoChanges EXCEPT !.added = added]
OnlyUpdated(updated) == [NoChanges EXCEPT !.updated = updated]
OnlyRemoved(removed) == [NoChanges EXCEPT !.removed = removed]

\* An applicable diff names a record in one of its parts only.
LEMMA PartsDisjoint ==
    ASSUME NEW store, NEW diff, Applicable(store, diff)
    PROVE  /\ DOMAIN diff.added \cap DOMAIN diff.updated = {}
           /\ DOMAIN diff.added \cap DOMAIN diff.removed = {}
           /\ DOMAIN diff.updated \cap DOMAIN diff.removed = {}
BY DEF Applicable

\* What a record becomes, by the part of the diff that names it.
LEMMA AppliedValue ==
    ASSUME NEW store, NEW diff, Applicable(store, diff), NEW id \in DOMAIN store
    PROVE  /\ id \in DOMAIN diff.added =>
                ApplyChanges(store, diff)[id] = diff.added[id]
           /\ id \in DOMAIN diff.updated =>
                ApplyChanges(store, diff)[id] = diff.updated[id].to
           /\ id \in DOMAIN diff.removed =>
                ApplyChanges(store, diff)[id] = Absent
           /\ id \notin Touched(diff) =>
                ApplyChanges(store, diff)[id] = store[id]
BY PartsDisjoint DEF ApplyChanges, Touched

\* Two results that agree on every record are the same.
LEMMA SameResult ==
    ASSUME NEW store, NEW one, NEW other, NEW diff, DOMAIN other = DOMAIN store,
           \A id \in DOMAIN store :
               ApplyChanges(store, one)[id] = ApplyChanges(other, diff)[id]
    PROVE  ApplyChanges(store, one) = ApplyChanges(other, diff)
BY DEF ApplyChanges

\* The three loops of squashRecordDiffsMutable, one after the other.
LEMMA AddedSquashes ==
    ASSUME NEW store, NEW target, NEW added, Applicable(store, target),
           Applicable(ApplyChanges(store, target), OnlyAdded(added))
    PROVE  /\ Applicable(store, SquashAdded(target, added))
           /\ ApplyChanges(store, SquashAdded(target, added))
                = ApplyChanges(ApplyChanges(store, target), OnlyAdded(added))
<1> DEFINE middle == ApplyChanges(store, target)
           squash == SquashAdded(target, added)
<1>1. DOMAIN middle = DOMAIN store
  BY DEF ApplyChanges
<1>2. /\ OnlyAdded(added).added = added
      /\ DOMAIN OnlyAdded(added).updated = {}
      /\ DOMAIN OnlyAdded(added).removed = {}
  BY DEF OnlyAdded, NoChanges, NoRecords
<1>3. \A id \in DOMAIN added : /\ id \in DOMAIN store
                               /\ middle[id] = Absent
                               /\ added[id] # Absent
  BY <1>1, <1>2 DEF Applicable, Touched
<1>4. \A id \in DOMAIN added : /\ id \notin DOMAIN target.added
                               /\ id \notin DOMAIN target.updated
                               /\ id \in DOMAIN target.removed \/ store[id] = Absent
  BY <1>3, AppliedValue DEF Applicable, Touched
<1> DEFINE revived == DOMAIN added \cap DOMAIN target.removed
           changed == {id \in revived : target.removed[id] # added[id]}
<1>5. /\ squash.added = [id \in DOMAIN target.added \cup (DOMAIN added \ revived) |->
             IF id \in DOMAIN added \ revived THEN added[id] ELSE target.added[id]]
      /\ squash.updated = [id \in DOMAIN target.updated \cup changed |->
             IF id \in changed THEN Update(target.removed[id], added[id])
             ELSE target.updated[id]]
      /\ squash.removed = [id \in DOMAIN target.removed \ revived |->
             target.removed[id]]
  BY DEF SquashAdded, Overlay, Without
<1> HIDE DEF squash
<1>6. Applicable(store, squash)
  <2>1. Touched(squash) \subseteq DOMAIN store
    BY <1>3, <1>5 DEF Applicable, Touched
  <2>2. DOMAIN squash.updated \cap DOMAIN squash.removed = {}
    BY <1>5 DEF Applicable
  <2>3. \A id \in DOMAIN squash.added :
          store[id] = Absent /\ squash.added[id] # Absent
    BY <1>3, <1>4, <1>5 DEF Applicable
  <2>4. \A id \in DOMAIN squash.updated :
          /\ store[id] = squash.updated[id].from
          /\ squash.updated[id]
               = Update(squash.updated[id].from, squash.updated[id].to)
          /\ Absent \notin {squash.updated[id].from, squash.updated[id].to}
    <3> SUFFICES ASSUME NEW id \in DOMAIN squash.updated
                 PROVE  /\ store[id] = squash.updated[id].from
                        /\ squash.updated[id]
                             = Update(squash.updated[id].from, squash.updated[id].to)
                        /\ Absent \notin {squash.updated[id].from, squash.updated[id].to}
      OBVIOUS
    <3>1. CASE id \in changed
      <4>1. squash.updated[id] = Update(target.removed[id], added[id])
        BY <1>5, <3>1
      <4>2. QED
        BY <1>3, <3>1, <4>1 DEF Applicable, Update
    <3>2. CASE id \notin changed
      <4>1. id \in DOMAIN target.updated /\ squash.updated[id] = target.updated[id]
        BY <1>5, <3>2
      <4>2. QED
        BY <4>1 DEF Applicable
    <3>3. QED
      BY <3>1, <3>2
  <2>5. \A id \in DOMAIN squash.removed :
          store[id] = squash.removed[id] /\ store[id] # Absent
    BY <1>5 DEF Applicable
  <2>6. QED
    BY <2>1, <2>2, <2>3, <2>4, <2>5 DEF Applicable
<1>7. \A id \in DOMAIN store :
        ApplyChanges(store, squash)[id]
            = ApplyChanges(middle, OnlyAdded(added))[id]
  <2> SUFFICES ASSUME NEW id \in DOMAIN store
               PROVE  ApplyChanges(store, squash)[id]
                        = ApplyChanges(middle, OnlyAdded(added))[id]
    OBVIOUS
  <2>1. CASE id \in changed
    <3>1. id \in DOMAIN squash.updated /\ squash.updated[id].to = added[id]
      BY <1>5, <2>1 DEF Update
    <3>2. ApplyChanges(store, squash)[id] = added[id]
      BY <3>1, <1>6, AppliedValue
    <3>3. ApplyChanges(middle, OnlyAdded(added))[id] = added[id]
      BY <1>1, <1>2, <2>1, AppliedValue
    <3>4. QED
      BY <3>2, <3>3
  <2>2. CASE id \in revived \ changed
    <3>1. id \notin Touched(squash) /\ store[id] = added[id]
      BY <1>4, <1>5, <2>2, PartsDisjoint DEF Touched, Applicable
    <3>2. ApplyChanges(store, squash)[id] = added[id]
      BY <3>1, <1>6, AppliedValue
    <3>3. ApplyChanges(middle, OnlyAdded(added))[id] = added[id]
      BY <1>1, <1>2, <2>2, AppliedValue
    <3>4. QED
      BY <3>2, <3>3
  <2>3. CASE id \in DOMAIN added \ revived
    <3>1. id \in DOMAIN squash.added /\ squash.added[id] = added[id]
      BY <1>5, <2>3
    <3>2. ApplyChanges(store, squash)[id] = added[id]
      BY <3>1, <1>6, AppliedValue
    <3>3. ApplyChanges(middle, OnlyAdded(added))[id] = added[id]
      BY <1>1, <1>2, <2>3, AppliedValue
    <3>4. QED
      BY <3>2, <3>3
  <2>4. CASE id \notin DOMAIN added
    <3>1. ApplyChanges(middle, OnlyAdded(added))[id] = middle[id]
      BY <1>1, <1>2, <2>4 DEF ApplyChanges
    <3>2. ApplyChanges(store, squash)[id] = middle[id]
      BY <1>5, <2>4 DEF ApplyChanges
    <3>3. QED
      BY <3>1, <3>2
  <2>5. QED
    BY <2>1, <2>2, <2>3, <2>4
<1>8. ApplyChanges(store, squash) = ApplyChanges(middle, OnlyAdded(added))
  BY <1>1, <1>7, SameResult
<1>9. QED
  BY <1>6, <1>8 DEF squash

\* What squashing makes of a second diff that only updates a record.
LEMMA UpdatedSquashes ==
    ASSUME NEW store, NEW target, NEW updated, Applicable(store, target),
           Applicable(ApplyChanges(store, target), OnlyUpdated(updated))
    PROVE  /\ Applicable(store, SquashUpdated(target, updated))
           /\ ApplyChanges(store, SquashUpdated(target, updated))
                = ApplyChanges(ApplyChanges(store, target), OnlyUpdated(updated))
<1> DEFINE middle == ApplyChanges(store, target)
           squash == SquashUpdated(target, updated)
           fresh == DOMAIN updated \cap DOMAIN target.added
           First(id) == IF id \in DOMAIN target.updated
                          THEN target.updated[id].from ELSE updated[id].from
<1>1. DOMAIN middle = DOMAIN store
  BY DEF ApplyChanges
<1>2. /\ OnlyUpdated(updated).updated = updated
      /\ DOMAIN OnlyUpdated(updated).added = {}
      /\ DOMAIN OnlyUpdated(updated).removed = {}
  BY DEF OnlyUpdated, NoChanges, NoRecords
<1>3. \A id \in DOMAIN updated :
        /\ id \in DOMAIN store
        /\ middle[id] = updated[id].from
        /\ updated[id].from # Absent
        /\ updated[id].to # Absent
  BY <1>1, <1>2 DEF Applicable, Touched
<1>4. \A id \in DOMAIN updated :
        /\ id \notin DOMAIN target.removed
        /\ id \notin Touched(target) => store[id] = updated[id].from
  BY <1>3, AppliedValue DEF Applicable, Touched
<1>5. /\ squash.added = [id \in DOMAIN target.added |->
             IF id \in fresh THEN updated[id].to ELSE target.added[id]]
      /\ squash.updated =
             [id \in DOMAIN target.updated \cup (DOMAIN updated \ fresh) |->
                IF id \in DOMAIN updated THEN Update(First(id), updated[id].to)
                ELSE target.updated[id]]
      /\ squash.removed = [id \in DOMAIN target.removed |-> target.removed[id]]
  <2>1. DOMAIN target.added \cap DOMAIN target.updated = {}
    BY PartsDisjoint
  <2>2. squash.added = [id \in DOMAIN target.added |->
             IF id \in fresh THEN updated[id].to ELSE target.added[id]]
    BY DEF SquashUpdated, Overlay
  <2>3. squash.updated =
             [id \in DOMAIN target.updated \cup (DOMAIN updated \ fresh) |->
                IF id \in DOMAIN updated THEN Update(First(id), updated[id].to)
                ELSE target.updated[id]]
    BY <2>1 DEF SquashUpdated, Overlay, Without
  <2>4. squash.removed = [id \in DOMAIN target.removed |-> target.removed[id]]
    BY <1>4 DEF SquashUpdated, Without
  <2>5. QED
    BY <2>2, <2>3, <2>4
<1> HIDE DEF squash
<1>6. Applicable(store, squash)
  <2>1. Touched(squash) \subseteq DOMAIN store
    BY <1>3, <1>5 DEF Applicable, Touched
  <2>2. DOMAIN squash.updated \cap DOMAIN squash.removed = {}
    BY <1>4, <1>5 DEF Applicable
  <2>3. \A id \in DOMAIN squash.added :
          store[id] = Absent /\ squash.added[id] # Absent
    BY <1>3, <1>5 DEF Applicable
  <2>4. \A id \in DOMAIN squash.updated :
          /\ store[id] = squash.updated[id].from
          /\ squash.updated[id]
               = Update(squash.updated[id].from, squash.updated[id].to)
          /\ Absent \notin {squash.updated[id].from, squash.updated[id].to}
    <3> SUFFICES ASSUME NEW id \in DOMAIN squash.updated
                 PROVE  /\ store[id] = squash.updated[id].from
                        /\ squash.updated[id]
                             = Update(squash.updated[id].from, squash.updated[id].to)
                        /\ Absent \notin {squash.updated[id].from, squash.updated[id].to}
      OBVIOUS
    <3>1. CASE id \in DOMAIN updated
      <4>1. squash.updated[id] = Update(First(id), updated[id].to)
        BY <1>5, <3>1
      <4>2. First(id) = store[id] /\ First(id) # Absent
        BY <1>3, <1>4, <1>5, <3>1 DEF Applicable, Touched
      <4>3. QED
        BY <1>3, <3>1, <4>1, <4>2 DEF Update
    <3>2. CASE id \notin DOMAIN updated
      <4>1. id \in DOMAIN target.updated /\ squash.updated[id] = target.updated[id]
        BY <1>5, <3>2
      <4>2. QED
        BY <4>1 DEF Applicable
    <3>3. QED
      BY <3>1, <3>2
  <2>5. \A id \in DOMAIN squash.removed :
          store[id] = squash.removed[id] /\ store[id] # Absent
    BY <1>5 DEF Applicable
  <2>6. QED
    BY <2>1, <2>2, <2>3, <2>4, <2>5 DEF Applicable
<1>7. \A id \in DOMAIN store :
        ApplyChanges(store, squash)[id]
            = ApplyChanges(middle, OnlyUpdated(updated))[id]
  <2> SUFFICES ASSUME NEW id \in DOMAIN store
               PROVE  ApplyChanges(store, squash)[id]
                        = ApplyChanges(middle, OnlyUpdated(updated))[id]
    OBVIOUS
  <2>1. CASE id \in DOMAIN updated
    <3>1. \/ id \in DOMAIN squash.added /\ squash.added[id] = updated[id].to
          \/ id \in DOMAIN squash.updated /\ squash.updated[id].to = updated[id].to
      BY <1>5, <2>1 DEF Update
    <3>2. ApplyChanges(store, squash)[id] = updated[id].to
      BY <3>1, <1>6, AppliedValue
    <3>3. ApplyChanges(middle, OnlyUpdated(updated))[id] = updated[id].to
      BY <1>1, <1>2, <2>1, AppliedValue
    <3>4. QED
      BY <3>2, <3>3
  <2>2. CASE id \notin DOMAIN updated
    <3>1. ApplyChanges(middle, OnlyUpdated(updated))[id] = middle[id]
      BY <1>1, <1>2, <2>2 DEF ApplyChanges
    <3>2. ApplyChanges(store, squash)[id] = middle[id]
      BY <1>5, <2>2 DEF ApplyChanges
    <3>3. QED
      BY <3>1, <3>2
  <2>3. QED
    BY <2>1, <2>2
<1>8. ApplyChanges(store, squash) = ApplyChanges(middle, OnlyUpdated(updated))
  BY <1>1, <1>7, SameResult
<1>9. QED
  BY <1>6, <1>8 DEF squash

\* What squashing makes of a second diff that only removes a record.
LEMMA RemovedSquashes ==
    ASSUME NEW store, NEW target, NEW removed, Applicable(store, target),
           Applicable(ApplyChanges(store, target), OnlyRemoved(removed))
    PROVE  /\ Applicable(store, SquashRemoved(target, removed))
           /\ ApplyChanges(store, SquashRemoved(target, removed))
                = ApplyChanges(ApplyChanges(store, target), OnlyRemoved(removed))
<1> DEFINE middle == ApplyChanges(store, target)
           squash == SquashRemoved(target, removed)
           gone == DOMAIN removed \ DOMAIN target.added
           First(id) == IF id \in DOMAIN target.updated
                          THEN target.updated[id].from ELSE removed[id]
<1>1. DOMAIN middle = DOMAIN store
  BY DEF ApplyChanges
<1>2. /\ OnlyRemoved(removed).removed = removed
      /\ DOMAIN OnlyRemoved(removed).added = {}
      /\ DOMAIN OnlyRemoved(removed).updated = {}
  BY DEF OnlyRemoved, NoChanges, NoRecords
<1>3. \A id \in DOMAIN removed : /\ id \in DOMAIN store
                                 /\ middle[id] = removed[id]
                                 /\ removed[id] # Absent
  BY <1>1, <1>2 DEF Applicable, Touched
<1>4. \A id \in DOMAIN removed :
        /\ id \notin DOMAIN target.removed
        /\ id \notin Touched(target) => store[id] = removed[id]
  BY <1>3, AppliedValue DEF Applicable, Touched
<1>5. /\ squash.added = [id \in DOMAIN target.added \ DOMAIN removed |->
             target.added[id]]
      /\ squash.updated = [id \in DOMAIN target.updated \ gone |->
             target.updated[id]]
      /\ squash.removed = [id \in DOMAIN target.removed \cup gone |->
             IF id \in gone THEN First(id) ELSE target.removed[id]]
  BY DEF SquashRemoved, Overlay, Without
<1> HIDE DEF squash
<1>6. \A id \in gone : First(id) = store[id] /\ store[id] # Absent
  BY <1>3, <1>4 DEF Applicable, Touched
<1>7. Applicable(store, squash)
  BY <1>3, <1>5, <1>6 DEF Applicable, Touched
<1>8. \A id \in DOMAIN store :
        ApplyChanges(store, squash)[id]
            = ApplyChanges(middle, OnlyRemoved(removed))[id]
  <2> SUFFICES ASSUME NEW id \in DOMAIN store
               PROVE  ApplyChanges(store, squash)[id]
                        = ApplyChanges(middle, OnlyRemoved(removed))[id]
    OBVIOUS
  <2>1. CASE id \in DOMAIN removed
    <3>1. \/ id \in DOMAIN squash.removed
          \/ id \notin Touched(squash) /\ store[id] = Absent
      BY <1>4, <1>5, <2>1, PartsDisjoint DEF Applicable, Touched
    <3>2. ApplyChanges(store, squash)[id] = Absent
      BY <3>1, <1>7, AppliedValue
    <3>3. ApplyChanges(middle, OnlyRemoved(removed))[id] = Absent
      BY <1>1, <1>2, <2>1, AppliedValue
    <3>4. QED
      BY <3>2, <3>3
  <2>2. CASE id \notin DOMAIN removed
    <3>1. ApplyChanges(middle, OnlyRemoved(removed))[id] = middle[id]
      BY <1>1, <1>2, <2>2 DEF ApplyChanges
    <3>2. ApplyChanges(store, squash)[id] = middle[id]
      BY <1>5, <2>2 DEF ApplyChanges
    <3>3. QED
      BY <3>1, <3>2
  <2>3. QED
    BY <2>1, <2>2
<1>9. ApplyChanges(store, squash) = ApplyChanges(middle, OnlyRemoved(removed))
  BY <1>1, <1>8, SameResult
<1>10. QED
  BY <1>7, <1>9 DEF squash

\* A diff is applied part by part.
LEMMA AppliedInParts ==
    ASSUME NEW store, NEW diff, Applicable(store, diff)
    PROVE  LET afterAdded == ApplyChanges(store, OnlyAdded(diff.added))
               afterUpdated == ApplyChanges(afterAdded, OnlyUpdated(diff.updated))
           IN  /\ Applicable(store, OnlyAdded(diff.added))
               /\ Applicable(afterAdded, OnlyUpdated(diff.updated))
               /\ Applicable(afterUpdated, OnlyRemoved(diff.removed))
               /\ ApplyChanges(afterUpdated, OnlyRemoved(diff.removed))
                    = ApplyChanges(store, diff)
<1> DEFINE afterAdded == ApplyChanges(store, OnlyAdded(diff.added))
           afterUpdated == ApplyChanges(afterAdded, OnlyUpdated(diff.updated))
<1>1. /\ afterAdded = [id \in DOMAIN store |->
             IF id \in DOMAIN diff.added THEN diff.added[id] ELSE store[id]]
      /\ OnlyAdded(diff.added).added = diff.added
      /\ DOMAIN OnlyAdded(diff.added).updated = {}
      /\ DOMAIN OnlyAdded(diff.added).removed = {}
  BY DEF ApplyChanges, OnlyAdded, NoChanges, NoRecords
<1>2. /\ afterUpdated = [id \in DOMAIN store |->
             IF id \in DOMAIN diff.updated THEN diff.updated[id].to
             ELSE afterAdded[id]]
      /\ OnlyUpdated(diff.updated).updated = diff.updated
      /\ DOMAIN OnlyUpdated(diff.updated).added = {}
      /\ DOMAIN OnlyUpdated(diff.updated).removed = {}
  BY <1>1 DEF ApplyChanges, OnlyUpdated, NoChanges, NoRecords
<1>3. /\ OnlyRemoved(diff.removed).removed = diff.removed
      /\ DOMAIN OnlyRemoved(diff.removed).added = {}
      /\ DOMAIN OnlyRemoved(diff.removed).updated = {}
  BY DEF OnlyRemoved, NoChanges, NoRecords
<1> HIDE DEF afterAdded, afterUpdated
<1>4. Applicable(store, OnlyAdded(diff.added))
  BY <1>1 DEF Applicable, Touched
<1>5. Applicable(afterAdded, OnlyUpdated(diff.updated))
  BY <1>1, <1>2, PartsDisjoint DEF Applicable, Touched
<1>6. Applicable(afterUpdated, OnlyRemoved(diff.removed))
  BY <1>1, <1>2, <1>3, PartsDisjoint DEF Applicable, Touched
<1>7. DOMAIN afterUpdated = DOMAIN store
  BY <1>2
<1>8. \A id \in DOMAIN afterUpdated :
        ApplyChanges(afterUpdated, OnlyRemoved(diff.removed))[id]
            = ApplyChanges(store, diff)[id]
  BY <1>1, <1>2, <1>3, PartsDisjoint DEF ApplyChanges
<1>9. ApplyChanges(afterUpdated, OnlyRemoved(diff.removed))
        = ApplyChanges(store, diff)
  BY <1>7, <1>8, SameResult
<1>10. QED
  BY <1>4, <1>5, <1>6, <1>9 DEF afterUpdated, afterAdded

-----------------------------------------------------------------------------
\* squashRecordDiffs: for every store and every two diffs made one after the
\* other, the squash can be applied to the store and does what both do.  The
\* speculative changes of the sync client and the undo stack rest on it.
THEOREM SquashComposes ==
    ASSUME NEW store, NEW one, NEW two, Applicable(store, one),
           Applicable(ApplyChanges(store, one), two)
    PROVE  /\ Applicable(store, Squash(one, two))
           /\ ApplyChanges(store, Squash(one, two))
                = ApplyChanges(ApplyChanges(store, one), two)
<1> DEFINE middle == ApplyChanges(store, one)
           afterAdded == ApplyChanges(middle, OnlyAdded(two.added))
           afterUpdated == ApplyChanges(afterAdded, OnlyUpdated(two.updated))
           first == SquashAdded(one, two.added)
           second == SquashUpdated(first, two.updated)
<1>1. /\ Applicable(middle, OnlyAdded(two.added))
      /\ Applicable(afterAdded, OnlyUpdated(two.updated))
      /\ Applicable(afterUpdated, OnlyRemoved(two.removed))
      /\ ApplyChanges(afterUpdated, OnlyRemoved(two.removed))
           = ApplyChanges(middle, two)
  BY AppliedInParts
<1>2. Applicable(store, first) /\ ApplyChanges(store, first) = afterAdded
  BY <1>1, AddedSquashes
<1> HIDE DEF first, afterAdded
<1>3. Applicable(store, second) /\ ApplyChanges(store, second) = afterUpdated
  BY <1>1, <1>2, UpdatedSquashes
<1> HIDE DEF second, afterUpdated
<1>4. /\ Applicable(store, SquashRemoved(second, two.removed))
      /\ ApplyChanges(store, SquashRemoved(second, two.removed))
           = ApplyChanges(middle, two)
  BY <1>1, <1>3, RemovedSquashes
<1>5. SquashRemoved(second, two.removed) = Squash(one, two)
  BY DEF Squash, second, first
<1>6. QED
  BY <1>4, <1>5

\* reverseRecordsDiff: undoing a diff that was applied gives the store back, and
\* can itself be undone.  The rebase and undo rest on it.
THEOREM ReverseInverts ==
    ASSUME NEW store, store = [id \in DOMAIN store |-> store[id]],
           NEW diff, Applicable(store, diff)
    PROVE  /\ Applicable(ApplyChanges(store, diff), ReverseRecordsDiff(diff))
           /\ ApplyChanges(ApplyChanges(store, diff), ReverseRecordsDiff(diff))
                = store
<1> DEFINE after == ApplyChanges(store, diff)
           reverse == ReverseRecordsDiff(diff)
<1>1. DOMAIN after = DOMAIN store
  BY DEF ApplyChanges
<1>2. /\ reverse.added = diff.removed
      /\ reverse.removed = diff.added
      /\ DOMAIN reverse.updated = DOMAIN diff.updated
      /\ \A id \in DOMAIN diff.updated :
           /\ reverse.updated[id] = Update(diff.updated[id].to, diff.updated[id].from)
           /\ reverse.updated[id].from = diff.updated[id].to
           /\ reverse.updated[id].to = diff.updated[id].from
  BY DEF ReverseRecordsDiff, Update
<1>3. \A id \in DOMAIN store :
        /\ id \in DOMAIN diff.added => after[id] = diff.added[id]
        /\ id \in DOMAIN diff.updated => after[id] = diff.updated[id].to
        /\ id \in DOMAIN diff.removed => after[id] = Absent
        /\ id \notin Touched(diff) => after[id] = store[id]
  BY AppliedValue
<1> HIDE DEF after, reverse
<1>4. Applicable(after, reverse)
  <2>1. /\ Touched(reverse) \subseteq DOMAIN after
        /\ DOMAIN reverse.updated \cap DOMAIN reverse.removed = {}
    BY <1>1, <1>2, PartsDisjoint DEF Applicable, Touched
  <2>2. \A id \in DOMAIN reverse.added :
          after[id] = Absent /\ reverse.added[id] # Absent
    BY <1>2, <1>3 DEF Applicable, Touched
  <2>3. \A id \in DOMAIN reverse.updated :
          /\ after[id] = reverse.updated[id].from
          /\ reverse.updated[id]
               = Update(reverse.updated[id].from, reverse.updated[id].to)
          /\ Absent \notin {reverse.updated[id].from, reverse.updated[id].to}
    BY <1>2, <1>3 DEF Applicable, Touched
  <2>4. \A id \in DOMAIN reverse.removed :
          after[id] = reverse.removed[id] /\ after[id] # Absent
    BY <1>2, <1>3 DEF Applicable, Touched
  <2>5. QED
    BY <2>1, <2>2, <2>3, <2>4 DEF Applicable
<1>5. \A id \in DOMAIN store : ApplyChanges(after, reverse)[id] = store[id]
  <2> SUFFICES ASSUME NEW id \in DOMAIN store
               PROVE  ApplyChanges(after, reverse)[id] = store[id]
    OBVIOUS
  <2>1. /\ id \in DOMAIN reverse.added =>
             ApplyChanges(after, reverse)[id] = reverse.added[id]
        /\ id \in DOMAIN reverse.updated =>
             ApplyChanges(after, reverse)[id] = reverse.updated[id].to
        /\ id \in DOMAIN reverse.removed =>
             ApplyChanges(after, reverse)[id] = Absent
        /\ id \notin Touched(reverse) =>
             ApplyChanges(after, reverse)[id] = after[id]
    BY <1>1, <1>4, AppliedValue
  <2>2. QED
    BY <1>2, <1>3, <2>1 DEF Applicable, Touched
<1>6. ApplyChanges(after, reverse) = [id \in DOMAIN store |-> store[id]]
  BY <1>1, <1>5 DEF ApplyChanges
<1>7. QED
  BY <1>4, <1>6 DEF after, reverse

\* The entry that a put or a removal records is applicable to the store before
\* it, and leads to the store after it.
LEMMA BetweenLeads ==
    ASSUME NEW before, NEW after, DOMAIN after = DOMAIN before,
           after = [id \in DOMAIN before |-> after[id]]
    PROVE  /\ Applicable(before, Between(before, after))
           /\ ApplyChanges(before, Between(before, after)) = after
<1> DEFINE diff == Between(before, after)
           changed == {id \in DOMAIN before : before[id] # after[id]}
<1>1. /\ diff.added = [id \in {i \in changed : before[i] = Absent} |-> after[id]]
      /\ diff.updated = [id \in {i \in changed : /\ before[i] # Absent
                                                 /\ after[i] # Absent} |->
                           Update(before[id], after[id])]
      /\ diff.removed = [id \in {i \in changed : after[i] = Absent} |-> before[id]]
  BY DEF Between
<1> HIDE DEF diff
<1>2. Applicable(before, diff)
  BY <1>1 DEF Applicable, Touched, Update
<1>3. \A id \in DOMAIN before : ApplyChanges(before, diff)[id] = after[id]
  <2> SUFFICES ASSUME NEW id \in DOMAIN before
               PROVE  ApplyChanges(before, diff)[id] = after[id]
    OBVIOUS
  <2>1. CASE id \in DOMAIN diff.added
    BY <1>1, <1>2, <2>1, AppliedValue
  <2>2. CASE id \in DOMAIN diff.updated
    BY <1>1, <1>2, <2>2, AppliedValue DEF Update
  <2>3. CASE id \in DOMAIN diff.removed
    BY <1>1, <1>2, <2>3, AppliedValue
  <2>4. CASE id \notin Touched(diff)
    <3>1. before[id] = after[id]
      BY <1>1, <2>4 DEF Touched
    <3>2. QED
      BY <1>2, <2>4, <3>1, AppliedValue
  <2>5. QED
    BY <2>1, <2>2, <2>3, <2>4 DEF Touched
<1>4. ApplyChanges(before, diff) = [id \in DOMAIN before |-> after[id]]
  BY <1>3 DEF ApplyChanges
<1>5. QED
  BY <1>2, <1>4 DEF diff

-----------------------------------------------------------------------------
(***************************************************************************)
(* The diffs of the records with ids in I and values in V: what squashing, *)
(* reversing and comparing stores gives are such diffs.                    *)
(***************************************************************************)
PartOf(I, T) == UNION {[ids -> T] : ids \in SUBSET I}

DiffsOver(I, V) ==
    [added : PartOf(I, V), updated : PartOf(I, [from : V, to : V]),
     removed : PartOf(I, V)]

\* A part of a diff, by its values.
LEMMA PartIs ==
    ASSUME NEW I, NEW T, NEW f
    PROVE  f \in PartOf(I, T) <=> /\ f = [id \in DOMAIN f |-> f[id]]
                                  /\ DOMAIN f \subseteq I
                                  /\ \A id \in DOMAIN f : f[id] \in T
<1>1. ASSUME f \in PartOf(I, T)
      PROVE  /\ f = [id \in DOMAIN f |-> f[id]] /\ DOMAIN f \subseteq I
             /\ \A id \in DOMAIN f : f[id] \in T
  <2>1. PICK ids \in SUBSET I : f \in [ids -> T]
    BY <1>1 DEF PartOf
  <2> QED BY <2>1
<1>2. ASSUME f = [id \in DOMAIN f |-> f[id]], DOMAIN f \subseteq I,
             \A id \in DOMAIN f : f[id] \in T
      PROVE  f \in PartOf(I, T)
  <2>1. f \in [DOMAIN f -> T]
    BY <1>2
  <2>2. DOMAIN f \in SUBSET I
    BY <1>2
  <2> QED BY <2>1, <2>2 DEF PartOf
<1> QED BY <1>1, <1>2

\* The values of a part.
LEMMA PartHas ==
    ASSUME NEW I, NEW T, NEW f \in PartOf(I, T)
    PROVE  DOMAIN f \subseteq I /\ \A id \in DOMAIN f : f[id] \in T
BY PartIs

\* Laying one part over another.
LEMMA OverlayInPart ==
    ASSUME NEW I, NEW T, NEW f \in PartOf(I, T), NEW g \in PartOf(I, T)
    PROVE  Overlay(f, g) \in PartOf(I, T)
<1> DEFINE h == Overlay(f, g)
<1>1. /\ h = [id \in DOMAIN h |-> h[id]] /\ DOMAIN h \subseteq I
      /\ \A id \in DOMAIN h : h[id] \in T
  BY PartIs DEF Overlay
<1> HIDE DEF h
<1>2. h \in PartOf(I, T)
  BY <1>1, PartIs
<1> QED BY <1>2 DEF h

\* Leaving records out of a part.
LEMMA WithoutInPart ==
    ASSUME NEW I, NEW T, NEW f \in PartOf(I, T), NEW ids
    PROVE  Without(f, ids) \in PartOf(I, T)
<1> DEFINE h == Without(f, ids)
<1>1. /\ h = [id \in DOMAIN h |-> h[id]] /\ DOMAIN h \subseteq I
      /\ \A id \in DOMAIN h : h[id] \in T
  BY PartIs DEF Without
<1> HIDE DEF h
<1>2. h \in PartOf(I, T)
  BY <1>1, PartIs
<1> QED BY <1>2 DEF h

\* Each step of a squash makes a diff: the additions,
LEMMA AddedInDiffs ==
    ASSUME NEW I, NEW V,
           NEW d \in DiffsOver(I, V), NEW added \in PartOf(I, V)
    PROVE  SquashAdded(d, added) \in DiffsOver(I, V)
<1> DEFINE revived == DOMAIN added \cap DOMAIN d.removed
           changed == {id \in revived : d.removed[id] # added[id]}
           news == [id \in changed |-> Update(d.removed[id], added[id])]
<1>1. /\ d.added \in PartOf(I, V) /\ d.removed \in PartOf(I, V)
      /\ d.updated \in PartOf(I, [from : V, to : V])
  BY DEF DiffsOver
<1>2. news \in PartOf(I, [from : V, to : V])
  <2>1. /\ \A id \in DOMAIN added : added[id] \in V
        /\ \A id \in DOMAIN d.removed : d.removed[id] \in V
        /\ DOMAIN added \subseteq I
    BY <1>1, PartHas
  <2>2. /\ news = [id \in DOMAIN news |-> news[id]] /\ DOMAIN news \subseteq I
        /\ \A id \in DOMAIN news : news[id] \in [from : V, to : V]
    BY <2>1 DEF Update
  <2> HIDE DEF news
  <2> QED BY <2>2, PartIs
<1>3. /\ Overlay(d.added, Without(added, revived)) \in PartOf(I, V)
      /\ Overlay(d.updated, news) \in PartOf(I, [from : V, to : V])
      /\ Without(d.removed, revived) \in PartOf(I, V)
  <2> HIDE DEF news, revived
  <2> QED BY <1>1, <1>2, OverlayInPart, WithoutInPart
<1> QED BY <1>3 DEF SquashAdded, DiffsOver

\* the updates,
LEMMA UpdatedInDiffs ==
    ASSUME NEW I, NEW V,
           NEW d \in DiffsOver(I, V), NEW updated \in PartOf(I, [from : V, to : V])
    PROVE  SquashUpdated(d, updated) \in DiffsOver(I, V)
<1> DEFINE fresh == DOMAIN updated \cap DOMAIN d.added
           First(id) == IF id \in DOMAIN d.updated
                          THEN d.updated[id].from ELSE updated[id].from
           adds == [id \in fresh |-> updated[id].to]
           news == [id \in DOMAIN updated \ fresh |->
                      Update(First(id), updated[id].to)]
<1>1. /\ d.added \in PartOf(I, V) /\ d.removed \in PartOf(I, V)
      /\ d.updated \in PartOf(I, [from : V, to : V])
  BY DEF DiffsOver
<1>2. /\ \A id \in DOMAIN updated : updated[id] \in [from : V, to : V]
      /\ \A id \in DOMAIN d.updated : d.updated[id] \in [from : V, to : V]
      /\ DOMAIN updated \subseteq I
  <2> DEFINE T == [from : V, to : V]
  <2>1. updated \in PartOf(I, T) /\ d.updated \in PartOf(I, T)
    BY <1>1
  <2> HIDE DEF T
  <2>2. /\ DOMAIN updated \subseteq I
        /\ \A id \in DOMAIN updated : updated[id] \in T
    BY <2>1, PartHas
  <2>3. \A id \in DOMAIN d.updated : d.updated[id] \in T
    BY <2>1, PartHas
  <2> QED BY <2>2, <2>3 DEF T
<1>3. adds \in PartOf(I, V)
  <2>1. /\ adds = [id \in DOMAIN adds |-> adds[id]] /\ DOMAIN adds \subseteq I
        /\ \A id \in DOMAIN adds : adds[id] \in V
    BY <1>2
  <2> HIDE DEF adds
  <2> QED BY <2>1, PartIs
<1>4. news \in PartOf(I, [from : V, to : V])
  <2>1. \A id \in DOMAIN updated : First(id) \in V
    BY <1>2
  <2> HIDE DEF First
  <2>2. /\ news = [id \in DOMAIN news |-> news[id]] /\ DOMAIN news \subseteq I
        /\ \A id \in DOMAIN news : news[id] \in [from : V, to : V]
    BY <1>2, <2>1 DEF Update
  <2> HIDE DEF news
  <2> QED BY <2>2, PartIs
<1>5. /\ Overlay(d.added, adds) \in PartOf(I, V)
      /\ Overlay(Without(d.updated, fresh), news)
           \in PartOf(I, [from : V, to : V])
      /\ Without(d.removed, DOMAIN updated) \in PartOf(I, V)
  <2> HIDE DEF adds, news, fresh
  <2> QED BY <1>1, <1>3, <1>4, OverlayInPart, WithoutInPart
<1> QED BY <1>5 DEF SquashUpdated, DiffsOver

\* and the removals.
LEMMA RemovedInDiffs ==
    ASSUME NEW I, NEW V,
           NEW d \in DiffsOver(I, V), NEW removed \in PartOf(I, V)
    PROVE  SquashRemoved(d, removed) \in DiffsOver(I, V)
<1> DEFINE fresh == DOMAIN removed \cap DOMAIN d.added
           gone == DOMAIN removed \ fresh
           news == [id \in gone |-> IF id \in DOMAIN d.updated
                                     THEN d.updated[id].from ELSE removed[id]]
<1>1. /\ d.added \in PartOf(I, V) /\ d.removed \in PartOf(I, V)
      /\ d.updated \in PartOf(I, [from : V, to : V])
  BY DEF DiffsOver
<1>2. news \in PartOf(I, V)
  <2>1. /\ \A id \in DOMAIN removed : removed[id] \in V
        /\ \A id \in DOMAIN d.updated :
             d.updated[id] \in [from : V, to : V]
        /\ DOMAIN removed \subseteq I
    <3> DEFINE T == [from : V, to : V]
    <3>1. d.updated \in PartOf(I, T)
      BY <1>1
    <3> HIDE DEF T
    <3>2. \A id \in DOMAIN d.updated : d.updated[id] \in T
      BY <3>1, PartHas
    <3>3. /\ DOMAIN removed \subseteq I
          /\ \A id \in DOMAIN removed : removed[id] \in V
      BY PartHas
    <3> QED BY <3>2, <3>3 DEF T
  <2>2. /\ news = [id \in DOMAIN news |-> news[id]] /\ DOMAIN news \subseteq I
        /\ \A id \in DOMAIN news : news[id] \in V
    BY <2>1
  <2> HIDE DEF news
  <2> QED BY <2>2, PartIs
<1>3. /\ Without(d.added, fresh) \in PartOf(I, V)
      /\ Without(d.updated, gone) \in PartOf(I, [from : V, to : V])
      /\ Overlay(d.removed, news) \in PartOf(I, V)
  <2> HIDE DEF news, fresh, gone
  <2> QED BY <1>1, <1>2, OverlayInPart, WithoutInPart
<1> QED BY <1>3 DEF SquashRemoved, DiffsOver

\* So two diffs are squashed into one.
LEMMA SquashInDiffs ==
    ASSUME NEW I, NEW V,
           NEW d \in DiffsOver(I, V), NEW e \in DiffsOver(I, V)
    PROVE  Squash(d, e) \in DiffsOver(I, V)
<1>1. /\ e.added \in PartOf(I, V) /\ e.removed \in PartOf(I, V)
      /\ e.updated \in PartOf(I, [from : V, to : V])
  BY DEF DiffsOver
<1> QED BY <1>1, AddedInDiffs, UpdatedInDiffs, RemovedInDiffs DEF Squash

\* No changes are a diff.
LEMMA NoChangesInDiffs ==
    ASSUME NEW I, NEW V
    PROVE  NoChanges \in DiffsOver(I, V)
<1>1. ASSUME NEW T PROVE NoRecords \in PartOf(I, T)
  <2>1. /\ NoRecords = [id \in DOMAIN NoRecords |-> NoRecords[id]]
        /\ DOMAIN NoRecords = {}
    BY DEF NoRecords
  <2> QED BY <2>1, PartIs
<1> QED BY <1>1 DEF NoChanges, DiffsOver

\* The diff between two tables.
LEMMA BetweenInDiffs ==
    ASSUME NEW I, NEW V,
           NEW old \in [I -> V \cup {Absent}], NEW new \in [I -> V \cup {Absent}]
    PROVE  Between(old, new) \in DiffsOver(I, V)
<1> DEFINE changed == {id \in DOMAIN old : old[id] # new[id]}
           added == [id \in {i \in changed : old[i] = Absent} |-> new[id]]
           updated == [id \in {i \in changed : /\ old[i] # Absent
                                               /\ new[i] # Absent} |->
                         Update(old[id], new[id])]
           removed == [id \in {i \in changed : new[i] = Absent} |-> old[id]]
<1>1. /\ DOMAIN old = I
      /\ \A id \in I : /\ old[id] \in V \cup {Absent}
                         /\ new[id] \in V \cup {Absent}
  OBVIOUS
<1>2. added \in PartOf(I, V)
  <2>1. /\ added = [id \in DOMAIN added |-> added[id]] /\ DOMAIN added \subseteq I
        /\ \A id \in DOMAIN added : added[id] \in V
    BY <1>1
  <2> HIDE DEF added
  <2> QED BY <2>1, PartIs
<1>3. updated \in PartOf(I, [from : V, to : V])
  <2>1. /\ updated = [id \in DOMAIN updated |-> updated[id]]
        /\ DOMAIN updated \subseteq I
        /\ \A id \in DOMAIN updated : updated[id] \in [from : V, to : V]
    BY <1>1 DEF Update
  <2> HIDE DEF updated
  <2> QED BY <2>1, PartIs
<1>4. removed \in PartOf(I, V)
  <2>1. /\ removed = [id \in DOMAIN removed |-> removed[id]]
        /\ DOMAIN removed \subseteq I
        /\ \A id \in DOMAIN removed : removed[id] \in V
    BY <1>1
  <2> HIDE DEF removed
  <2> QED BY <2>1, PartIs
<1> QED BY <1>2, <1>3, <1>4 DEF Between, DiffsOver

\* A table after a diff.
LEMMA ApplyInStores ==
    ASSUME NEW I, NEW V,
           NEW records \in [I -> V \cup {Absent}], NEW diff \in DiffsOver(I, V)
    PROVE  ApplyChanges(records, diff) \in [I -> V \cup {Absent}]
<1>1. /\ diff.added \in PartOf(I, V) /\ diff.removed \in PartOf(I, V)
      /\ diff.updated \in PartOf(I, [from : V, to : V])
  BY DEF DiffsOver
<1>2. /\ \A id \in DOMAIN diff.added : diff.added[id] \in V
      /\ \A id \in DOMAIN diff.updated :
           diff.updated[id] \in [from : V, to : V]
  BY <1>1, PartHas
<1> QED BY <1>2 DEF ApplyChanges

\* A diff turned round.
LEMMA ReverseInDiffs ==
    ASSUME NEW I, NEW V, NEW diff \in DiffsOver(I, V)
    PROVE  ReverseRecordsDiff(diff) \in DiffsOver(I, V)
<1> DEFINE back == [id \in DOMAIN diff.updated |->
                      Update(diff.updated[id].to, diff.updated[id].from)]
<1>1. /\ diff.added \in PartOf(I, V) /\ diff.removed \in PartOf(I, V)
      /\ diff.updated \in PartOf(I, [from : V, to : V])
  BY DEF DiffsOver
<1>2. back \in PartOf(I, [from : V, to : V])
  <2>1. /\ DOMAIN diff.updated \subseteq I
        /\ \A id \in DOMAIN diff.updated : diff.updated[id] \in [from : V, to : V]
    <3> DEFINE T == [from : V, to : V]
    <3>1. diff.updated \in PartOf(I, T)
      BY <1>1
    <3> HIDE DEF T
    <3>2. /\ DOMAIN diff.updated \subseteq I
          /\ \A id \in DOMAIN diff.updated : diff.updated[id] \in T
      BY <3>1, PartHas
    <3> QED BY <3>2 DEF T
  <2>2. /\ back = [id \in DOMAIN back |-> back[id]] /\ DOMAIN back \subseteq I
        /\ \A id \in DOMAIN back : back[id] \in [from : V, to : V]
    BY <2>1 DEF Update
  <2> HIDE DEF back
  <2> QED BY <2>2, PartIs
<1> QED BY <1>1, <1>2 DEF ReverseRecordsDiff, DiffsOver
=============================================================================
