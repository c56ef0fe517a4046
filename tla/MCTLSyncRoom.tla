----------------------------- MODULE MCTLSyncRoom ----------------------------
(* Instances of TLSyncRoom for TLC. *)
EXTENDS TLSyncRoom, TLC

CONSTANTS s1, s2, p1, p2, p3, a, b, f, v1, v2

\* Two records with one property, or one with two.
Rec(v) == [x \in Fields |-> v]
Diff(id, op) == [i \in {id} |-> op]
Patch(v) == PatchOp([x \in {f} |-> v])

NoDocs == [id \in Ids |-> Absent]
AllDocs(v) == [id \in Ids |-> Rec(v)]

\* A record is put, changed and removed.
DocDiffs ==
    UNION {{Diff(id, PutOp(Rec(v1))), Diff(id, Patch(v2)), Diff(id, RemoveOp)} :
             id \in Ids}

\* Record a is changed and removed; at b, which does not take v2, a push fails
\* after it removed a.
ChangeRemoveAndFail ==
    {Diff(a, PutOp(Rec(v1))), Diff(a, RemoveOp),
     [i \in {a, b} |-> IF i = a THEN RemoveOp ELSE Patch(v2)]}

\* Validators that do not take v2.
RecordsWithV2 == {r \in Record : \E x \in Fields : r[x] = v2}

OnlyEmpty == {NoDocs}
OnlyFull == {AllDocs(v1)}

\* The updater puts or removes a, and leaves b alone or removes it.
ValidTargets == [Ids -> {Rec(v1), Absent}]

PutMove == {PutOp(Rec(v1))}
Moves == {PutOp(Rec(v1)), Patch(v2)}

Symmetry == Permutations(SessionIds) \cup Permutations(PresenceIds)
SessionSymmetry == Permutations(SessionIds)
=============================================================================
