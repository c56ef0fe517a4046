----------------------------- MODULE TLSyncRoom -----------------------------
(***************************************************************************)
(* One lifetime of a room: packages/sync-core/src/lib/TLSyncRoom.ts.       *)
(*                                                                         *)
(* The room keeps the authoritative records, a logical clock, a tombstone  *)
(* for every record it deleted, and a table of sessions.  It runs on one   *)
(* JavaScript thread: every handler below is one atomic action, and the    *)
(* handlers, the timers and the sockets' state changes interleave.  The    *)
(* room's environment (clients, sockets, TLSocketRoom) is anything that    *)
(* calls the handlers with the inputs the CONSTANTS describe.              *)
(***************************************************************************)
EXTENDS TLSyncRecords, Integers, Sequences, FiniteSets

CONSTANTS
    SessionIds,         \* browser tabs: a tab reconnects under the same id
    NoPresence,         \* the presenceId of a room without a presence type
    NoUpdate,           \* no updateStore is in progress
    PushDiffs,          \* the document diffs that sessions push
    PresenceOps,        \* the operations that sessions push on their presence
    StoreTargets,       \* the records an updateStore updater leaves behind
    ClientClocks,       \* clocks of push requests: the room echoes them
    ConnectRequestIds,  \* ids of connect requests: the room echoes them
    InitialDocs,        \* contents of the snapshots a room starts from
    ProtocolVersions,   \* versions that connecting clients announce
    MAX_TOMBSTONES,
    TOMBSTONE_PRUNE_BUFFER_SIZE,
    MaxClock,           \* bound: no push is handled once the clock reaches it
    MaxWire             \* bound on the messages in flight to one socket

ASSUME RoomAssumption ==
    /\ IsFiniteSet(SessionIds)
    /\ NoPresence \notin RecordIds \cup SessionIds
    /\ NoUpdate \notin [Ids -> MaybeRecord]
    /\ PushDiffs \subseteq {d \in NetworkDiff : DOMAIN d \subseteq Ids}
    /\ StoreTargets \subseteq [Ids -> MaybeRecord]
    /\ PresenceOps \subseteq {op \in RecordOp : op.type # "remove"}
    /\ ClientClocks \subseteq Nat
    /\ ConnectRequestIds \subseteq Nat
    /\ InitialDocs \subseteq [Ids -> MaybeRecord]
    /\ MAX_TOMBSTONES \in Nat
    /\ TOMBSTONE_PRUNE_BUFFER_SIZE \in Nat
    /\ MaxClock \in Nat
    /\ MaxWire \in Nat

VARIABLES
    documents,      \* record id -> its state and the clock it last changed at
    tombstones,     \* document id -> the clock it was deleted at, or NoClock
    clock,
    documentClock,
    sessions,       \* session id -> the session and its socket
    pruneScheduled, \* a setTimeout(pruneTombstones, 0) is pending
    storeUpdate,    \* snapshot of the updateStore in progress, or NoUpdate
    isClosed,
    \* history variables, which the code does not have
    hist,           \* clock -> the documents as they were at that clock
    forgotten       \* document id -> clock of its last pruned tombstone

vars == <<documents, tombstones, clock, documentClock, sessions,
          pruneScheduled, storeUpdate, isClosed, hist, forgotten>>

NoClock == -1
TLSYNC_PROTOCOL_VERSION == 7

\* Set from the field initialiser of clock and never assigned again.
TombstoneHistoryStartsAtClock == 1

DocumentState == [state : MaybeRecord, lastChangedClock : Nat]
NoDocument == [state |-> Absent, lastChangedClock |-> 0]

\* The records that are in the room, without their clocks.
StatesOf(docs) == [id \in RecordIds |-> docs[id].state]

-----------------------------------------------------------------------------
(***************************************************************************)
(* Sessions.  State "none" is a session that is not in the table.  The     *)
(* record also holds the session's socket: whether its readyState is OPEN  *)
(* on this side and the messages in flight on it.                          *)
(*                                                                         *)
(* view and stale are history variables.  view is what a client that knew  *)
(* exactly the records of its lastServerClock has, once it has applied     *)
(* every message sent to it or waiting in outstandingDataMessages.  stale  *)
(* are the ids whose deletion could not be sent because the tombstone had  *)
(* been pruned.                                                            *)
(***************************************************************************)
Connected == "connected"
AwaitingConnectMessage == "awaiting-connect-message"
AwaitingRemoval == "awaiting-removal"

DataMessage ==
    [type : {"patch"}, diff : NetworkDiff, serverClock : Nat]
        \cup [type : {"push_result"}, action : {"commit", "discard", "rebase"},
              diff : NetworkDiff, clientClock : Nat,
              serverClock : Nat]

ServerMessage ==
    [type : {"data"}, data : Seq(DataMessage)]
        \cup [type : {"connect"}, hydrationType : {"wipe_all", "wipe_presence"},
              diff : NetworkDiff, serverClock : Nat,
              connectRequestId : Nat, isReadonly : BOOLEAN]
        \cup [type : {"pong", "incompatibility_error"}]
        \cup [type : {"close"}, fatal : BOOLEAN]

Session ==
    [state : {"none", AwaitingConnectMessage, Connected, AwaitingRemoval},
     presenceId : PresenceIds \cup {NoPresence},
     isReadonly : BOOLEAN,
     requiresLegacyRejection : BOOLEAN,
     debouncing : BOOLEAN,               \* debounceTimer is not null
     outstanding : Seq(DataMessage),     \* outstandingDataMessages
     open : BOOLEAN,                     \* socket.isOpen
     wire : Seq(ServerMessage),
     view : [RecordIds -> MaybeRecord],
     stale : SUBSET Ids]

NoView == [id \in RecordIds |-> Absent]

NoSession ==
    [state |-> "none", presenceId |-> NoPresence, isReadonly |-> FALSE,
     requiresLegacyRejection |-> FALSE, debouncing |-> FALSE,
     outstanding |-> <<>>, open |-> FALSE, wire |-> <<>>,
     view |-> NoView, stale |-> {}]

\* socket.sendMessage: a socket that is not open drops the message.
SendOnSocket(c, msg) ==
    IF c.open THEN [c EXCEPT !.wire = Append(@, msg)] ELSE c

\* socket.close(): the peer is told only if the socket is still open.
CloseSocket(c, fatal) ==
    IF c.open
      THEN [c EXCEPT !.open = FALSE,
                     !.wire = Append(@, [type |-> "close", fatal |-> fatal])]
      ELSE c

\* A mutant: the messages stay in the session that awaits its removal.
CancelSessionKeepingMessages(c) ==
    IF c.state \in {"none", AwaitingRemoval} THEN c
    ELSE CloseSocket([c EXCEPT !.state = AwaitingRemoval], FALSE)

CancelSession(c) ==
    IF c.state \in {"none", AwaitingRemoval} THEN c
    ELSE CloseSocket([c EXCEPT !.state = AwaitingRemoval,
                               !.debouncing = FALSE, !.outstanding = <<>>,
                               !.view = NoView, !.stale = {}], FALSE)

\* A mutant: outstandingDataMessages is sent and not emptied.
FlushWithoutReset(c) ==
    IF c.state # Connected THEN c
    ELSE IF c.outstanding = <<>> THEN [c EXCEPT !.debouncing = FALSE]
    ELSE SendOnSocket([c EXCEPT !.debouncing = FALSE],
                      [type |-> "data", data |-> c.outstanding])

FlushDataMessages(c) ==
    IF c.state # Connected THEN c
    ELSE IF c.outstanding = <<>> THEN [c EXCEPT !.debouncing = FALSE]
    ELSE SendOnSocket([c EXCEPT !.debouncing = FALSE, !.outstanding = <<>>],
                      [type |-> "data", data |-> c.outstanding])

\* sendMessage, for the messages that are not data.
SendMessage(c, msg) ==
    IF c.state # Connected THEN c
    ELSE IF ~c.open THEN CancelSession(c)
    ELSE IF msg.type = "pong" THEN SendOnSocket(c, msg)
    ELSE SendOnSocket(FlushDataMessages(c), msg)

\* sendMessage, for data messages that are sent one after the other.  diff is
\* what they make the client change in its records, all together.
SendData(c, msgs, diff) ==
    IF c.state # Connected \/ msgs = <<>> THEN c
    ELSE IF ~c.open THEN CancelSession(c)
    ELSE IF c.debouncing
      THEN [c EXCEPT !.outstanding = @ \o msgs,
                     !.view = ApplyNetworkDiff(@, diff)]
      ELSE [c EXCEPT !.debouncing = TRUE,
                     !.outstanding = @ \o Tail(msgs),
                     !.wire = Append(@, [type |-> "data",
                                         data |-> <<Head(msgs)>>]),
                     !.view = ApplyNetworkDiff(@, diff)]

\* Two mutants: the clock is left out, or read before it was incremented.
PatchWithoutClock(diff) == [type |-> "patch", diff |-> diff]
PatchWithOldClock(diff) ==
    [type |-> "patch", diff |-> diff, serverClock |-> clock]

PatchMessage(diff) == [type |-> "patch", diff |-> diff, serverClock |-> clock']

\* broadcastPatch, to every connected session other than source.
BroadcastPatch(sess, diff, source) ==
    [s \in SessionIds |->
        IF s = source THEN sess[s]
        ELSE SendData(sess[s], <<PatchMessage(diff)>>, diff)]

RemovalOf(ids) == [id \in ids |-> RemoveOp]

\* The presence record of a session, if the room has it.
PresenceOf(c, docs) ==
    {p \in {c.presenceId} \cap PresenceIds : docs[p].state # Absent}

\* A mutant: the records stay.
WithoutRecordsKept(docs, ids) == docs

WithoutRecords(docs, ids) ==
    [id \in RecordIds |-> IF id \in ids THEN NoDocument ELSE docs[id]]

\* The socket of a session that left the table: it delivers what is on it.
RemovedSession(c, fatal) ==
    [NoSession EXCEPT !.wire = CloseSocket(c, fatal).wire]

\* A mutant: nobody is told that the presence record went.
RemoveSessionSilently(sess, docs, s, fatal) ==
    [sess EXCEPT ![s] = RemovedSession(@, fatal)]

\* The sessions after removeSession(s), which also removes
\* PresenceOf(sess[s], docs) from the room.
RemoveSession(sess, docs, s, fatal) ==
    LET gone == PresenceOf(sess[s], docs)
        rest == [sess EXCEPT ![s] = RemovedSession(@, fatal)]
    IN  IF gone = {} THEN rest ELSE BroadcastPatch(rest, RemovalOf(gone), s)

\* The sessions after rejectSession(s, reason); fatal: there is a reason.
RejectSession(sess, docs, s, fatal) ==
    IF fatal /\ sess[s].requiresLegacyRejection
      THEN RemoveSession(
             [sess EXCEPT ![s] =
                SendOnSocket(@, [type |-> "incompatibility_error"])],
             docs, s, FALSE)
      ELSE RemoveSession(sess, docs, s, fatal)

-----------------------------------------------------------------------------
\* A room made from a snapshot whose clocks are all 0 and which needs no
\* migration: the default snapshot, or convertStoreSnapshotToRoomSnapshot's.
Init ==
    /\ \E docs \in InitialDocs :
         /\ documents = [id \in RecordIds |->
                           [state |-> IF id \in Ids THEN docs[id] ELSE Absent,
                            lastChangedClock |-> 0]]
         /\ hist = [k \in {0} |-> docs]
    /\ tombstones = [id \in Ids |-> NoClock]
    /\ clock = 0
    /\ documentClock = 0
    /\ sessions = [s \in SessionIds |-> NoSession]
    /\ pruneScheduled = FALSE
    /\ storeUpdate = NoUpdate
    /\ isClosed = FALSE
    /\ forgotten = [id \in Ids |-> 0]

\* The actions that leave the records and clocks alone.
RecordsUnchanged ==
    UNCHANGED <<documents, tombstones, clock, documentClock, pruneScheduled,
                storeUpdate, hist, forgotten>>

\* The actions that change nothing but the table and presence records.
ClocksUnchanged ==
    UNCHANGED <<tombstones, clock, documentClock, pruneScheduled,
                storeUpdate, hist, forgotten>>

\* Bound: nothing that sends is handled while a socket is backed up.
WireHasSpace == \A s \in SessionIds : Len(sessions[s].wire) < MaxWire

\* createId() never repeats an id; here one returns when nothing refers to it.
FreshPresenceIds ==
    {p \in PresenceIds :
        /\ documents[p].state = Absent
        /\ \A s \in SessionIds : /\ sessions[s].presenceId # p
                                 /\ sessions[s].view[p] = Absent}

HandleNewSession(s, isReadonly) ==
    \E presenceId \in
        IF sessions[s].state # "none" THEN {sessions[s].presenceId}
        ELSE IF PresenceIds = {} THEN {NoPresence} ELSE FreshPresenceIds :
      /\ sessions' = [sessions EXCEPT ![s] =
             [NoSession EXCEPT !.state = AwaitingConnectMessage,
                               !.presenceId = presenceId,
                               !.isReadonly = isReadonly,
                               !.open = TRUE]]
      /\ RecordsUnchanged
      /\ UNCHANGED isClosed

-----------------------------------------------------------------------------
(***************************************************************************)
(* Connecting.                                                             *)
(***************************************************************************)
Present == {id \in RecordIds : documents[id].state # Absent}

WipesAll(lastServerClock) ==
    \/ lastServerClock < TombstoneHistoryStartsAtClock
    \/ lastServerClock > clock

\* A mutant: no deletions.
HydrationWithoutDeletions(c, lastServerClock) ==
    [id \in {i \in Present \ {c.presenceId} :
               \/ WipesAll(lastServerClock)
               \/ documents[i].lastChangedClock > lastServerClock
               \/ i \in PresenceIds} |-> PutOp(documents[id].state)]

\* What a connecting client has to be told, by the kind of its hydration.
Hydration(c, lastServerClock) ==
    LET puts == IF WipesAll(lastServerClock)
                THEN Present \ {c.presenceId}
                ELSE {id \in Present :
                        \/ documents[id].lastChangedClock > lastServerClock
                        \/ id \in PresenceIds \ {c.presenceId}}
        removes == IF WipesAll(lastServerClock) THEN {}
                   ELSE {id \in Ids : tombstones[id] > lastServerClock}
    IN  [id \in puts \cup removes |->
            IF id \in removes THEN RemoveOp ELSE PutOp(documents[id].state)]

\* The records the client keeps of those it knew at lastServerClock.
BaseView(lastServerClock) ==
    [id \in RecordIds |->
        IF id \in Ids /\ ~WipesAll(lastServerClock)
          THEN hist[lastServerClock][id] ELSE Absent]

\* Deleted after lastServerClock, by a deletion the room no longer knows of.
ForgottenSince(lastServerClock) ==
    IF WipesAll(lastServerClock) THEN {}
    ELSE {id \in Ids : /\ documents[id].state = Absent
                       /\ tombstones[id] = NoClock
                       /\ forgotten[id] > lastServerClock}

\* 5 is the same as 6, and 6 is almost the same as 7.
EffectiveVersion(v) == IF v \in {5, 6} THEN 7 ELSE v

HandleConnectRequest(s, lastServerClock, protocolVersion, schemaOk, reqId) ==
    LET c == [sessions[s] EXCEPT
                !.requiresLegacyRejection = protocolVersion \in {5, 6}]
        accepted == /\ EffectiveVersion(protocolVersion)
                         = TLSYNC_PROTOCOL_VERSION
                    /\ schemaOk
        diff == Hydration(c, lastServerClock)
    IN
    /\ c.state # "none"
    /\ WireHasSpace
    /\ ClocksUnchanged
    /\ \/ /\ accepted
          /\ sessions' = [sessions EXCEPT ![s] = SendMessage(
                [c EXCEPT
                   !.state = Connected,
                   !.debouncing = FALSE, !.outstanding = <<>>,
                   !.view = ApplyNetworkDiff(BaseView(lastServerClock), diff),
                   !.stale = ForgottenSince(lastServerClock)],
                [type |-> "connect",
                 hydrationType |-> IF WipesAll(lastServerClock)
                                   THEN "wipe_all" ELSE "wipe_presence",
                 diff |-> diff, serverClock |-> clock,
                 connectRequestId |-> reqId, isReadonly |-> c.isReadonly])]
          /\ UNCHANGED documents
       \/ /\ ~accepted
          /\ documents' = WithoutRecords(documents, PresenceOf(c, documents))
          /\ sessions' = RejectSession([sessions EXCEPT ![s] = c],
                                       documents, s, TRUE)
    /\ UNCHANGED isClosed

-----------------------------------------------------------------------------
(***************************************************************************)
(* Pushing.  The operations of a push name different records, so what they *)
(* do together is what each does to the record it names.                   *)
(***************************************************************************)
\* The records as the operations leave them, before any rollback.
Outcome(ops) == ApplyNetworkDiff(StatesOf(documents), ops)

Changed(ops) ==
    {id \in DOMAIN ops : Outcome(ops)[id] # documents[id].state}

\* The operation on id makes handlePushRequest call fail.
Invalid(ops, id) ==
    /\ id \in Changed(ops)
    /\ Outcome(ops)[id] # Absent
    /\ ~IsValid(Outcome(ops)[id])

Fails(ops) == \E id \in DOMAIN ops : Invalid(ops, id)

\* A mutant: deletions are not propagated.
ActualChangesWithoutRemovals(ops, ids) ==
    [id \in {i \in Changed(ops) \cap ids : Outcome(ops)[i] # Absent} |->
        OpBetween(documents[id].state, Outcome(ops)[id])]

\* docChanges (ids = Ids) and presenceChanges (ids = PresenceIds).
ActualChanges(ops, ids) ==
    [id \in Changed(ops) \cap ids |->
        OpBetween(documents[id].state, Outcome(ops)[id])]

Removed(ops) == {id \in Changed(ops) \cap Ids : Outcome(ops)[id] = Absent}

\* A mutant: addDocument leaves the tombstone of the record it brings back.
TombstonesAfterKeptOnAdd(ops) ==
    [id \in Ids |-> IF id \in Removed(ops) THEN clock' ELSE tombstones[id]]

\* removeDocument adds a tombstone, addDocument takes one away.
TombstonesAfter(ops) ==
    [id \in Ids |->
        IF id \in Removed(ops) THEN clock'
        ELSE IF id \in Changed(ops) /\ documents[id].state = Absent THEN NoClock
        ELSE tombstones[id]]

\* The records after the operations in ops, none of which failed.
ApplyPush(ops) ==
    /\ documents' = [id \in RecordIds |->
         IF id \in Changed(ops)
           THEN [state |-> Outcome(ops)[id],
                 lastChangedClock |->
                    IF Outcome(ops)[id] = Absent THEN 0 ELSE clock']
           ELSE documents[id]]
    /\ tombstones' = TombstonesAfter(ops)
    /\ documentClock' =
         IF Changed(ops) \cap Ids # {} THEN clock' ELSE documentClock
    /\ pruneScheduled' = (pruneScheduled \/ Removed(ops) # {})

\* A mutant: everything but documentClock is rolled back.
RollbackButDocumentClock(ops) ==
    /\ UNCHANGED <<documents, tombstones, pruneScheduled>>
    /\ documentClock' = clock'

\* The records after a push that failed: rollback() restores them, but
\* removals that preceded the failure have already scheduled a pruning.
RollbackPush(ops) ==
    /\ UNCHANGED <<documents, tombstones, documentClock>>
    /\ \/ UNCHANGED pruneScheduled
       \/ Removed(ops) # {} /\ pruneScheduled' = TRUE

\* A mutant: the clock stays.
IncrementClockForgotten ==
    /\ clock < MaxClock
    /\ clock' = clock

IncrementClock ==
    /\ clock < MaxClock
    /\ clock' = clock + 1

ExtendHistory ==
    hist' = [k \in 0..clock' |->
               IF k <= clock THEN hist[k]
               ELSE [id \in Ids |-> documents'[id].state]]

\* The answer to a push.  What the client does on each action is to add
\* docChanges to the records it has from the room.
PushResult(diff, docChanges, clientClock) ==
    LET action == IF diff = EmptyDiff \/ docChanges = diff THEN "commit"
                  ELSE IF docChanges = EmptyDiff THEN "discard" ELSE "rebase"
    IN  [type |-> "push_result", action |-> action,
         diff |-> IF action = "rebase" THEN docChanges ELSE EmptyDiff,
         clientClock |-> clientClock, serverClock |-> clock']

\* The presence record as a failing push leaves it at the moment of fail():
\* presence comes first, so it is applied unless it is what failed.
DocumentsAtFailure(ops) ==
    [id \in RecordIds |->
        IF id \in PresenceIds /\ id \in DOMAIN ops /\ ~Invalid(ops, id)
          THEN [documents[id] EXCEPT !.state = Outcome(ops)[id]]
          ELSE documents[id]]

\* The operations of a push: the document diff of a session that may write,
\* and the operation on the session's own presence record.
PushedOps(c, diff, presence) ==
    LET pushed == {id \in DOMAIN diff : ~c.isReadonly}
    IN  [id \in pushed \cup {p \in PresenceIds : /\ p = c.presenceId
                                                /\ presence # NoOp} |->
           IF id \in pushed THEN diff[id] ELSE presence]

\* diff is EmptyDiff, and presence NoOp, when the message has none.
HandlePushRequest(s, diff, presence, clientClock) ==
    LET c == sessions[s]
        ops == PushedOps(c, diff, presence)
        docChanges == ActualChanges(ops, Ids)
        answered == [sessions EXCEPT ![s] =
            SendData(@, <<PushResult(diff, docChanges, clientClock)>>,
                     docChanges)]
    IN
    /\ c.state = Connected
    /\ WireHasSpace
    /\ IncrementClock
    /\ \/ /\ ~Fails(ops)
          /\ ApplyPush(ops)
          /\ sessions' =
               IF Changed(ops) = {} THEN answered
               ELSE BroadcastPatch(answered, ActualChanges(ops, RecordIds), s)
       \/ /\ Fails(ops)
          /\ RollbackPush(ops)
          /\ sessions' =
               RejectSession(sessions, DocumentsAtFailure(ops), s, TRUE)
    /\ ExtendHistory
    /\ UNCHANGED <<storeUpdate, isClosed, forgotten>>

(***************************************************************************)
(* updateStore takes a snapshot, awaits the updater, and pushes what the   *)
(* updater changed in its copy with no session.  The room goes on in the   *)
(* meantime.  One call at a time is modelled.                              *)
(***************************************************************************)
BeginUpdateStore ==
    /\ ~isClosed
    /\ StoreTargets # {}
    /\ storeUpdate = NoUpdate
    /\ storeUpdate' = [id \in Ids |-> documents[id].state]
    /\ UNCHANGED <<documents, tombstones, clock, documentClock, sessions,
                   pruneScheduled, isClosed, hist, forgotten>>

\* A mutant: every record of the copy is written back.
ToDiffOfEverything(snapshot, target) ==
    [id \in Ids |-> IF target[id] = Absent THEN RemoveOp ELSE PutOp(target[id])]

\* StoreUpdateContext.toDiff, for an updater that leaves target.
ToDiff(snapshot, target) ==
    [id \in {i \in Ids : target[i] # snapshot[i]} |->
        IF target[id] = Absent THEN RemoveOp ELSE PutOp(target[id])]

CommitUpdateStore(target) ==
    LET ops == ToDiff(storeUpdate, target)
    IN
    /\ storeUpdate # NoUpdate
    /\ storeUpdate' = NoUpdate
    /\ \/ /\ DOMAIN ops = {}
          /\ UNCHANGED <<documents, tombstones, clock, documentClock, sessions,
                         pruneScheduled, hist>>
       \/ /\ DOMAIN ops # {}
          /\ WireHasSpace
          /\ IncrementClock
          /\ \/ /\ ~Fails(ops)
                /\ ApplyPush(ops)
                /\ sessions' =
                     IF Changed(ops) = {} THEN sessions
                     ELSE BroadcastPatch(sessions, ActualChanges(ops, Ids),
                                         NoPresence)
             \/ /\ Fails(ops)
                /\ RollbackPush(ops)
                /\ UNCHANGED sessions
          /\ ExtendHistory
    /\ UNCHANGED <<isClosed, forgotten>>

-----------------------------------------------------------------------------
(***************************************************************************)
(* Everything else that happens to a session.                              *)
(***************************************************************************)
HandlePing(s) ==
    /\ sessions[s].state = Connected
    /\ WireHasSpace
    /\ sessions' = [sessions EXCEPT ![s] =
                      SendMessage(@, [type |-> "pong"])]
    /\ RecordsUnchanged
    /\ UNCHANGED isClosed

\* debounceTimer fires, the session's own or one that was set before the
\* session connected anew: with debounceTimer null that one does nothing.
FlushTimer(s) ==
    /\ sessions[s].state = Connected
    /\ sessions[s].debouncing
    /\ sessions' = [sessions EXCEPT ![s] = FlushDataMessages(@)]
    /\ RecordsUnchanged
    /\ UNCHANGED isClosed

\* handleClose, called by the socket's close and error events.  The socket may
\* be an earlier one of the same session.
HandleClose(s) ==
    /\ sessions[s].state \in {AwaitingConnectMessage, Connected}
    /\ sessions' = [sessions EXCEPT ![s] = CancelSession(@)]
    /\ RecordsUnchanged
    /\ UNCHANGED isClosed

\* TLSocketRoom.closeSession: an application ejects a user.
CloseSession(s, fatal) ==
    /\ sessions[s].state # "none"
    /\ ClocksUnchanged
    /\ sessions' = RejectSession(sessions, documents, s, fatal)
    /\ documents' =
         WithoutRecords(documents, PresenceOf(sessions[s], documents))
    /\ UNCHANGED isClosed

(***************************************************************************)
(* One pass of pruneSessions, which visits the sessions in the order of    *)
(* the table.  timedOut are those whose time is up; order is the order in  *)
(* which the presence records of removed sessions go, and seen counts how  *)
(* many of them went before the visit to a session that is then canceled.  *)
(***************************************************************************)
Orders(S) ==
    {order \in [1..Cardinality(S) -> S] :
        \A x \in S : \E i \in DOMAIN order : order[i] = x}

SendRemovals(c, order, n) ==
    SendData(c, [i \in 1..n |-> PatchMessage(RemovalOf({order[i]}))],
             RemovalOf({order[i] : i \in 1..n}))

PruneSessions(timedOut) ==
    LET Expired(s) == s \in timedOut \/ ~sessions[s].open
        canceled == {s \in SessionIds :
                       sessions[s].state = Connected /\ Expired(s)}
        removed == {s \in SessionIds :
                      \/ sessions[s].state = AwaitingConnectMessage
                         /\ Expired(s)
                      \/ sessions[s].state = AwaitingRemoval
                         /\ s \in timedOut}
        gone == UNION {PresenceOf(sessions[s], documents) : s \in removed}
    IN
    /\ ~isClosed
    /\ canceled \cup removed # {}
    /\ ClocksUnchanged
    /\ \E order \in Orders(gone), seen \in [canceled -> 0..Cardinality(gone)] :
         sessions' = [s \in SessionIds |->
            IF s \in removed THEN RemovedSession(sessions[s], FALSE)
            ELSE IF s \in canceled
              THEN CancelSession(SendRemovals(sessions[s], order, seen[s]))
            ELSE SendRemovals(sessions[s], order, Cardinality(gone))]
    /\ documents' = WithoutRecords(documents, gone)
    /\ UNCHANGED isClosed

(***************************************************************************)
(* pruneTombstones keeps the newest tombstones when there are too many.    *)
(***************************************************************************)
Tombstoned == {id \in Ids : tombstones[id] # NoClock}

\* A mutant: the limit is off by one.
KeptTombstonesOffByOne ==
    {keep \in SUBSET Tombstoned :
        /\ Cardinality(keep) = IF Cardinality(Tombstoned) > MAX_TOMBSTONES + 1
                                 THEN MAX_TOMBSTONES
                                 ELSE Cardinality(Tombstoned)
        /\ \A kept \in keep, dropped \in Tombstoned \ keep :
             tombstones[dropped] <= tombstones[kept]}

KeptTombstones ==
    IF Cardinality(Tombstoned) <= MAX_TOMBSTONES THEN {Tombstoned}
    ELSE {keep \in SUBSET Tombstoned :
            /\ Cardinality(keep) =
                 IF MAX_TOMBSTONES <= TOMBSTONE_PRUNE_BUFFER_SIZE THEN 0
                 ELSE MAX_TOMBSTONES - TOMBSTONE_PRUNE_BUFFER_SIZE
            /\ \A kept \in keep, dropped \in Tombstoned \ keep :
                 tombstones[dropped] <= tombstones[kept]}

PruneTombstones ==
    /\ pruneScheduled
    /\ pruneScheduled' = FALSE
    /\ \E keep \in KeptTombstones :
         /\ tombstones' = [id \in Ids |->
              IF id \in keep THEN tombstones[id] ELSE NoClock]
         /\ forgotten' = [id \in Ids |->
              IF id \in Tombstoned \ keep THEN tombstones[id]
              ELSE forgotten[id]]
    /\ UNCHANGED <<documents, clock, documentClock, sessions, storeUpdate,
                   isClosed, hist>>

\* close: every socket is closed and no pass of pruneSessions follows.
Close ==
    /\ ~isClosed
    /\ isClosed' = TRUE
    /\ sessions' = [s \in SessionIds |->
          IF sessions[s].state = "none" THEN sessions[s]
          ELSE CloseSocket(sessions[s], FALSE)]
    /\ RecordsUnchanged

-----------------------------------------------------------------------------
(***************************************************************************)
(* The sockets.                                                            *)
(***************************************************************************)
\* The client receives a message.
Deliver(s) ==
    /\ sessions[s].wire # <<>>
    /\ sessions' = [sessions EXCEPT ![s].wire = Tail(@)]
    /\ RecordsUnchanged
    /\ UNCHANGED isClosed

\* The connection is lost with the messages in flight on it.  The room hears
\* of it later, from handleClose or when it next looks at the socket.
SocketCloses(s) ==
    /\ sessions[s].open
    /\ sessions' = [sessions EXCEPT ![s].open = FALSE, ![s].wire = <<>>]
    /\ RecordsUnchanged
    /\ UNCHANGED isClosed

-----------------------------------------------------------------------------
SessionNext(s) ==
    \/ \E isReadonly \in BOOLEAN : HandleNewSession(s, isReadonly)
    \/ \E lastServerClock \in 0..MaxClock + 1,
          protocolVersion \in ProtocolVersions,
          schemaOk \in BOOLEAN, reqId \in ConnectRequestIds :
         HandleConnectRequest(s, lastServerClock, protocolVersion, schemaOk,
                              reqId)
    \/ \E diff \in PushDiffs \cup {EmptyDiff},
          presence \in PresenceOps \cup {NoOp},
          clientClock \in ClientClocks :
         HandlePushRequest(s, diff, presence, clientClock)
    \/ HandlePing(s)
    \/ FlushTimer(s)
    \/ HandleClose(s)
    \/ \E fatal \in BOOLEAN : CloseSession(s, fatal)
    \/ Deliver(s)
    \/ SocketCloses(s)

Next ==
    \/ \E s \in SessionIds : SessionNext(s)
    \/ BeginUpdateStore
    \/ \E target \in StoreTargets : CommitUpdateStore(target)
    \/ \E timedOut \in SUBSET SessionIds : PruneSessions(timedOut)
    \/ PruneTombstones
    \/ Close

Spec == Init /\ [][Next]_vars

\* A pass of pruneSessions that comes after the time of s is up.
PruneExpired(s) ==
    /\ sessions[s].state = Connected => ~sessions[s].open
    /\ \E timedOut \in SUBSET SessionIds :
         s \in timedOut /\ PruneSessions(timedOut)

(***************************************************************************)
(* Timers fire: setTimeout runs the debounce timers, and setInterval runs  *)
(* pruneSessions every two seconds.  A session that waits for its connect  *)
(* message or for removal has a fixed deadline, and a closed socket never  *)
(* opens again, so a later pass acts on them.  Nothing is assumed of       *)
(* clients and sockets, or of a connected session that keeps pinging.      *)
(***************************************************************************)
FairSpec ==
    /\ Spec
    /\ \A s \in SessionIds : WF_vars(FlushTimer(s)) /\ WF_vars(PruneExpired(s))

-----------------------------------------------------------------------------
(***************************************************************************)
(* What the room promises.                                                 *)
(***************************************************************************)
\* Every variable has the type its declaration describes.
TypeOK ==
    /\ documents \in [RecordIds -> DocumentState]
    /\ tombstones \in [Ids -> Nat \cup {NoClock}]
    /\ clock \in Nat
    /\ documentClock \in Nat
    /\ sessions \in [SessionIds -> Session]
    /\ pruneScheduled \in BOOLEAN
    /\ storeUpdate \in [Ids -> MaybeRecord] \cup {NoUpdate}
    /\ isClosed \in BOOLEAN
    /\ hist \in [0..clock -> [Ids -> MaybeRecord]]
    /\ forgotten \in [Ids -> Nat]

Listening(c) == c.state = Connected /\ c.open

\* What a session knows of the document records, but for stale ids.
Synced(c, docs) ==
    Listening(c) => \A id \in Ids \ c.stale : c.view[id] = docs[id].state

\* The connect diff, the patches and the answers that handleConnectRequest,
\* handlePushRequest and broadcastPatch send to a session add up to the room's
\* document records, at every moment, whatever clock it connected with and
\* however debouncing groups the messages: except for records whose tombstone
\* pruneTombstones dropped before the session connected.
DocsInSync == \A s \in SessionIds : Synced(sessions[s], documents)

\* As DocsInSync, with no exception: what the comment in handleConnectRequest
\* says ("if the client requests changes since a time before we have tombstone
\* history, send them the full state").
DocsInSyncAlways ==
    \A s \in SessionIds : Listening(sessions[s]) =>
        \A id \in Ids : sessions[s].view[id] = documents[id].state

\* The clock at which a document record became what it is, as far as the room
\* and its pruned tombstones tell.
ChangedAt(id) ==
    IF documents[id].state # Absent THEN documents[id].lastChangedClock
    ELSE IF tombstones[id] # NoClock THEN tombstones[id]
    ELSE forgotten[id]

\* lastChangedClock and the tombstones are right: no record was different at
\* any clock since.  replaceState, addDocument, removeDocument, rollbacks and
\* pruneTombstones keep it so, and handleConnectRequest relies on it.
HistorySound ==
    \A id \in Ids :
        /\ ChangedAt(id) <= clock
        /\ \A k \in ChangedAt(id)..clock : hist[k][id] = documents[id].state

\* A client that has the document records of any past clock and connects now
\* is brought up to date by handleConnectRequest's wipe_presence diff, but for
\* forgotten deletions.
ReconnectSound ==
    \A k \in 0..clock, id \in Ids :
        id \in ForgottenSince(k) \/
        ApplyNetworkDiff(BaseView(k), Hydration(NoSession, k))[id]
            = documents[id].state

\* Every session has the presence of every other session as the room has it:
\* handlePushRequest, removeSession and handleConnectRequest leave no cursor
\* behind and lose none.
PresenceInSync ==
    \A s \in SessionIds : Listening(sessions[s]) =>
        \A p \in PresenceIds \ {sessions[s].presenceId} :
            sessions[s].view[p] = documents[p].state

\* A presence record belongs to a session in the table, so removeSession will
\* remove it.
PresenceOwned ==
    \A p \in PresenceIds : documents[p].state # Absent =>
        \E s \in SessionIds : /\ sessions[s].state # "none"
                              /\ sessions[s].presenceId = p

\* A session that has messages in outstandingDataMessages has a timer that
\* flushes them.
OutstandingHasTimer ==
    \A s \in SessionIds : sessions[s].outstanding # <<>> =>
        sessions[s].state = Connected /\ sessions[s].debouncing

\* The protocol messages that carry a clock, in a socket message.
ClockedMessages(m) ==
    CASE m.type = "data"    -> m.data
      [] m.type = "connect" -> <<m>>
      [] OTHER              -> <<>>

\* A client takes the serverClock of the last message it handled for the
\* lastServerClock of its next connect request.  So the clocks sent to a client
\* never go back, whether a message goes out at once, waits for the debounce
\* timer or is flushed, and a message that changes document records has a clock
\* that no message before it has.
ClocksInOrder ==
    \A s \in SessionIds :
        LET sent == Append(sessions[s].wire,
                           [type |-> "data", data |-> sessions[s].outstanding])
        IN  \A i \in DOMAIN sent : \A j \in i..Len(sent) :
              \A x \in DOMAIN ClockedMessages(sent[i]),
                 y \in DOMAIN ClockedMessages(sent[j]) :
                 LET first == ClockedMessages(sent[i])[x]
                     later == ClockedMessages(sent[j])[y]
                 IN  i < j \/ x < y =>
                       /\ first.serverClock <= later.serverClock
                       /\ DOMAIN later.diff \cap Ids # {} =>
                            \/ first.serverClock < later.serverClock
                            \/ later.type = "connect"

\* There are never too many tombstones without a pruning to come.
TombstonesBounded ==
    Cardinality(Tombstoned) > MAX_TOMBSTONES => pruneScheduled

\* A tombstone is never newer than the room's clock, and marks a record that
\* is not there.
TombstonesAreDead ==
    \A id \in Tombstoned : /\ documents[id].state = Absent
                           /\ tombstones[id] <= clock

\* onDataChange, which persists the room, is called when documentClock has
\* changed: that is when document records have, never after a rollback.
DocumentClockTracksDocuments ==
    [][(documentClock' # documentClock) <=>
         (\E id \in Ids : documents'[id] # documents[id])]_vars

\* The commit of an updateStore never writes back what its snapshot held: a
\* record that the updater left alone keeps what sessions did to it while the
\* updater ran.
NoStaleWriteBack ==
    [][storeUpdate # NoUpdate /\ storeUpdate' = NoUpdate =>
         \A id \in Ids : documents'[id].state # documents[id].state =>
             documents'[id].state # storeUpdate[id]]_vars

\* Messages wait in outstandingDataMessages for the debounce timer, and not
\* for the next change to the room.
OutstandingFlushed ==
    \A s \in SessionIds :
        sessions[s].outstanding # <<>> ~> sessions[s].outstanding = <<>>

Online(p) == \E s \in SessionIds : sessions[s].presenceId = p /\ sessions[s].open

\* The presence record of someone who left, whatever the way, is removed by a
\* pass of pruneSessions, unless they come back or the room closes first.
LeaversForgotten ==
    \A p \in PresenceIds :
        documents[p].state # Absent /\ ~Online(p)
            ~> documents[p].state = Absent \/ Online(p) \/ isClosed
=============================================================================
