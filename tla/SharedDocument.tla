---------------------------- MODULE SharedDocument ----------------------------
(***************************************************************************)
(* What synchronisation promises, without messages: a document has one     *)
(* history of versions, and every client has a copy of one of them, which  *)
(* only moves forward.  A client that goes astray may have anything.       *)
(***************************************************************************)
EXTENDS Naturals

CONSTANTS
    Clients,
    Documents,  \* what a document can be
    NoCopy      \* stands for the copy of a client that has none of a version

VARIABLES
    latest,    \* the number of the latest version
    versions,  \* number -> document
    seen,      \* client -> number of the version it has
    astray,    \* the clients that went astray
    copy       \* client -> document or NoCopy

sharedVars == <<latest, versions, seen, astray, copy>>

Init ==
    /\ latest \in Nat
    /\ versions \in [0..latest -> Documents]
    /\ seen = [c \in Clients |-> 0]
    /\ astray = {}
    /\ copy = [c \in Clients |-> NoCopy]

\* A new version, which may be equal to the one before it.
Commit ==
    /\ latest' = latest + 1
    /\ versions' \in [0..latest + 1 -> Documents]
    /\ \A n \in 0..latest : versions'[n] = versions[n]
    /\ UNCHANGED <<seen, astray, copy>>

\* A client loads the document, or moves on to a version that is not older.
Sync(c) ==
    /\ UNCHANGED <<latest, versions, astray>>
    /\ c \notin astray
    /\ \E n \in seen[c]..latest :
         /\ seen' = [seen EXCEPT ![c] = n]
         /\ copy' = [copy EXCEPT ![c] = versions[n]]

\* A client's copy is no longer any version of the document.
GoAstray(c) ==
    /\ UNCHANGED <<latest, versions>>
    /\ astray' = astray \cup {c}
    /\ \E n \in seen[c]..latest : seen' = [seen EXCEPT ![c] = n]
    /\ copy' = [copy EXCEPT ![c] = NoCopy]

Next == Commit \/ \E c \in Clients : Sync(c) \/ GoAstray(c)

Spec == Init /\ [][Next]_sharedVars
=============================================================================
