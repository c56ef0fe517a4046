------------------------------- MODULE MCTLSync -------------------------------
(* Instances of TLSync for TLC. *)
EXTENDS TLSync, TLC

CONSTANTS s1, s2, p1, p2, p3, a, b, f, g, v1, v2

Rec(v) == [x \in Fields |-> v]
Only(x) == [Rec(v1) EXCEPT ![x] = v2]

\* Validators take a change of either property, but not of both.
BothChanged == {Rec(v2)}

JustA(r) == [id \in Ids |-> IF id = a THEN r ELSE Absent]
OnlyEmpty == {JustA(Absent)}
OnlyFull == {JustA(Rec(v1))}
EmptyFullOrHalf == OnlyEmpty \cup OnlyFull \cup {JustA(Only(f))}
BothFull == {[id \in Ids |-> Rec(v1)]}
SyncInitialDocs == EmptyFullOrHalf \cup BothFull

\* Every user edits record a.
AllEditA(records) ==
    [s \in SessionIds |-> [id \in Ids |-> IF id = a THEN records ELSE {}]]

OneAndOne == [s \in SessionIds |-> 1]
TwoAndNone == [s \in SessionIds |-> IF s = s1 THEN 2 ELSE 0]
NoneAndTwo == [s \in SessionIds |-> IF s = s1 THEN 0 ELSE 2]
TwoAndOne == [s \in SessionIds |-> IF s = s1 THEN 2 ELSE 1]

\* Two users create, delete or change a record in any way that validators take,
\* and one of them connects twice.
TwoEditors ==
    [edits |-> AllEditA(MaybeRecord \ BadRecords), moves |-> {}, late |-> FALSE,
     timeOuts |-> {{}}, initial |-> InitialDocs \cap EmptyFullOrHalf,
     maxEdits |-> OneAndOne, maxRequests |-> TwoAndOne]

\* A user moves and edits, is silent too long or connects again, while the
\* earlier socket still delivers.
OneMover ==
    [edits |-> AllEditA({Only(f)}), moves |-> {Rec(v1), Only(f)}, late |-> TRUE,
     timeOuts |-> {{}, {s1}}, initial |-> OnlyEmpty,
     maxEdits |-> TwoAndNone, maxRequests |-> TwoAndOne]

\* A user connects again, while the earlier socket still delivers and another
\* user moves and edits.
LateReader ==
    [edits |-> AllEditA({Absent, Only(f)}), moves |-> {Only(f)}, late |-> TRUE,
     timeOuts |-> {{}}, initial |-> OnlyEmpty,
     maxEdits |-> NoneAndTwo, maxRequests |-> TwoAndOne]

\* One user changes two records before the listener hears of it, while another
\* makes one of the changes invalid.
TwoRecords ==
    [edits |-> [s \in SessionIds |-> [id \in Ids |->
                  CASE s = s1            -> {Only(f)}
                    [] s # s1 /\ id = a -> {}
                    [] s # s1 /\ id # a -> {Only(g)}]],
     moves |-> {}, late |-> FALSE, timeOuts |-> {{}}, initial |-> BothFull,
     maxEdits |-> TwoAndOne, maxRequests |-> OneAndOne]

Editors == {TwoEditors}
AllScenarios == {TwoEditors, OneMover, LateReader, TwoRecords}

PresenceSymmetry == Permutations(PresenceIds)
=============================================================================
