----------------------------- MODULE TLSyncClient -----------------------------
(***************************************************************************)
(* A client's optimistic copy of a room:                                   *)
(* packages/sync-core/src/lib/TLSyncClient.ts.                             *)
(*                                                                         *)
(* The client runs on one JavaScript thread.  Its state is a record, and   *)
(* each handler, listener and throttled function is an operator from the   *)
(* state before it to the state after it; TLSync makes actions of them.    *)
(* The store's listener, flushPendingPushRequests and rebase are throttled *)
(* to a later frame, so everything else happens between a call and its     *)
(* effect.                                                                 *)
(***************************************************************************)
EXTENDS TLSyncRecords, StoreHistory, Integers, Sequences, SequencesExt

SocketOnline == "online"
SocketOffline == "offline"
SocketClosed == "closed"  \* close() was called: no listener is left

\* uniqueId() as a count; 0 for null.
NoRequest == 0

(***************************************************************************)
(* history holds what the client's listener has not heard of the store's   *)
(* changes.  out are the messages that the socket has not delivered to the *)
(* server.                                                                 *)
(*                                                                         *)
(* requests, loaded, edits and astray are history variables: the number of *)
(* connect requests and of edits so far, whether the room has accepted the *)
(* client, and whether the client connected anew with changes its listener *)
(* had not seen, kept part of the pending changes that a rebase failed to  *)
(* apply again, or did not get messages that the room discarded.           *)
(***************************************************************************)
PushRequest ==
    [diff : NetworkDiff, presence : RecordOp \cup {NoOp}, clientClock : Nat,
     sent : BOOLEAN]

IsRecordsDiff(d) ==
    /\ Touched(d) \subseteq RecordIds
    /\ \A id \in DOMAIN d.added : d.added[id] \in Record
    /\ \A id \in DOMAIN d.updated :
         {d.updated[id].from, d.updated[id].to} \subseteq Record
    /\ \A id \in DOMAIN d.removed : d.removed[id] \in Record

IsClient(c) ==
    /\ c.status \in {SocketOnline, SocketOffline, SocketClosed}  \* socket.connectionStatus
    /\ c.store \in [RecordIds -> MaybeRecord]
    /\ \A i \in DOMAIN c.history : IsRecordsDiff(c.history[i])
    /\ IsRecordsDiff(c.speculativeChanges)
    /\ c.pendingPushRequests \in Seq(PushRequest)
    /\ \A i \in DOMAIN c.incomingDiffBuffer :
         c.incomingDiffBuffer[i].type \in {"patch", "push_result"}
    /\ c.lastServerClock \in Nat
    /\ c.clientClock \in Nat
    /\ c.isConnectedToRoom \in BOOLEAN
    /\ c.latestConnectRequestId \in Nat
    /\ c.presence \in MaybeRecord              \* presenceState
    /\ c.lastPushedPresenceState \in MaybeRecord
    /\ \A i \in DOMAIN c.out : c.out[i].type \in {"connect", "push"}
    /\ c.requests \in Nat /\ c.edits \in Nat
    /\ c.loaded \in BOOLEAN /\ c.astray \in BOOLEAN

NewClient ==
    [status |-> SocketOffline, store |-> [id \in RecordIds |-> Absent],
     history |-> <<>>, speculativeChanges |-> NoChanges,
     pendingPushRequests |-> <<>>, incomingDiffBuffer |-> <<>>,
     lastServerClock |-> 0, clientClock |-> 0, isConnectedToRoom |-> FALSE,
     latestConnectRequestId |-> NoRequest, presence |-> Absent,
     lastPushedPresenceState |-> Absent, out |-> <<>>, requests |-> 0,
     edits |-> 0, loaded |-> FALSE, astray |-> FALSE]

-----------------------------------------------------------------------------
(***************************************************************************)
(* The store, as far as the client depends on it.                          *)
(***************************************************************************)
\* getNetworkDiff.
GetNetworkDiff(changes) ==
    LET updated == {id \in DOMAIN changes.updated :
                      changes.updated[id].from # changes.updated[id].to}
    IN  [id \in DOMAIN changes.added \cup updated \cup DOMAIN changes.removed |->
           IF id \in DOMAIN changes.removed THEN RemoveOp
           ELSE IF id \in updated
             THEN PatchOp(DiffRecord(changes.updated[id].from,
                                     changes.updated[id].to))
           ELSE PutOp(changes.added[id])]

-----------------------------------------------------------------------------
(***************************************************************************)
(* Pushing.                                                                *)
(***************************************************************************)
AddPushRequest(c, diff, presence) ==
    [c EXCEPT !.pendingPushRequests =
                  Append(@, [diff |-> diff, presence |-> presence,
                             clientClock |-> c.clientClock, sent |-> FALSE]),
              !.clientClock = @ + 1]

Push(c, change) ==
    LET diff == GetNetworkDiff(change)
        stashed == [c EXCEPT !.speculativeChanges = Squash(@, change)]
    IN  CASE diff = EmptyDiff         -> c
          [] diff # EmptyDiff /\ ~c.isConnectedToRoom -> stashed
          [] diff # EmptyDiff /\ c.isConnectedToRoom  ->
               AddPushRequest(stashed, diff, NoOp)

\* store._flushHistory: the listener pushes the entries it has not seen.
FlushHistory(c) ==
    FoldLeft(Push, [c EXCEPT !.history = <<>>], c.history)

\* A mutant: the presence of a push that was sent is overwritten.
PresenceJoins(c) ==
    /\ c.pendingPushRequests # <<>>
    /\ Last(c.pendingPushRequests).presence = NoOp

\* A presence update travels with a document push that waits to be sent.
PresenceJoinsLastPush(c) ==
    /\ c.pendingPushRequests # <<>>
    /\ ~Last(c.pendingPushRequests).sent
    /\ Last(c.pendingPushRequests).presence = NoOp

\* pushPresence, once the history is flushed.
PushPresenceOp(c, next) ==
    LET last == c.lastPushedPresenceState
        op == CASE next = Absent \/ ~c.isConnectedToRoom -> NoOp
                [] last = Absent /\ next # Absent -> PutOp(next)
                [] last # Absent /\ next # Absent ->
                     IF last = next THEN NoOp ELSE PatchOp(DiffRecord(last, next))
        pushed == [c EXCEPT !.lastPushedPresenceState = next]
        n == Len(c.pendingPushRequests)
    IN  IF ~c.isConnectedToRoom \/ op = NoOp THEN c
        ELSE IF PresenceJoinsLastPush(c)
          THEN [pushed EXCEPT !.pendingPushRequests[n].presence = op]
          ELSE AddPushRequest(pushed, EmptyDiff, op)

\* The presenceState signal changes.
PushPresence(c, next) ==
    PushPresenceOp(FlushHistory([c EXCEPT !.presence = next]), next)

PushMessage(req) ==
    [type |-> "push", diff |-> req.diff, presence |-> req.presence,
     clientClock |-> req.clientClock]

SendPush(out, req) ==
    IF req.sent THEN out ELSE Append(out, PushMessage(req))

HasUnsentPushes(c) ==
    \E i \in DOMAIN c.pendingPushRequests : ~c.pendingPushRequests[i].sent

\* A mutant: requests that were sent are sent again.
FlushWithoutMark(c) ==
    IF ~c.isConnectedToRoom \/ c.status # SocketOnline THEN c
    ELSE [c EXCEPT !.out = @ \o [i \in DOMAIN c.pendingPushRequests |->
                                   PushMessage(c.pendingPushRequests[i])]]

\* flushPendingPushRequests.
FlushPendingPushRequests(c) ==
    IF ~c.isConnectedToRoom \/ c.status # SocketOnline THEN c
    ELSE [c EXCEPT
            !.out = FoldLeft(SendPush, @, c.pendingPushRequests),
            !.pendingPushRequests =
                [i \in DOMAIN @ |-> [@[i] EXCEPT !.sent = TRUE]]]

-----------------------------------------------------------------------------
(***************************************************************************)
(* Connecting.                                                             *)
(***************************************************************************)
\* A mutant: the pending requests survive the reset.
ResetKeepingPending(c, hard) ==
    [RemoteChange(c, [id \in RecordIds |->
                        IF id \in PresenceIds THEN Absent ELSE c.store[id]])
       EXCEPT !.lastServerClock = IF hard THEN 0 ELSE @,
              !.lastPushedPresenceState = Absent,
              !.isConnectedToRoom = FALSE,
              !.incomingDiffBuffer = <<>>,
              !.status = IF @ = SocketOnline THEN SocketOffline ELSE @]

\* resetConnection: peers' presence goes, and with it every push in flight.
\* socket.restart() takes the socket offline, which calls resetConnection once
\* more and changes nothing.
ResetConnection(c, hard) ==
    [RemoteChange(c, [id \in RecordIds |->
                        IF id \in PresenceIds THEN Absent ELSE c.store[id]])
       EXCEPT !.lastServerClock = IF hard THEN 0 ELSE @,
              !.lastPushedPresenceState = Absent,
              !.isConnectedToRoom = FALSE,
              !.pendingPushRequests = <<>>,
              !.incomingDiffBuffer = <<>>,
              !.status = IF @ = SocketOnline THEN SocketOffline ELSE @]

\* The socket's status becomes offline, or error when the room closed it with a
\* reason: then onSyncError is called and the client closes for good.
ConnectionLost(c, fatal) ==
    LET reset == ResetConnection([c EXCEPT !.status = SocketOffline], FALSE)
    IN  IF fatal THEN [reset EXCEPT !.status = SocketClosed] ELSE reset

\* The status becomes online: sendConnectMessage on the new socket.
SendConnectMessage(c) ==
    [c EXCEPT !.status = SocketOnline,
              !.requests = @ + 1,
              !.latestConnectRequestId = c.requests + 1,
              !.out = Append(@, [type |-> "connect",
                                 connectRequestId |-> c.requests + 1,
                                 lastServerClock |-> c.lastServerClock])]

\* A mutant: the speculative changes are not undone.
UndoneBeforeHydrationForgotten(c, event) == c.store

\* The store without the speculative changes, unless it is wiped anyway.
UndoneBeforeHydration(c, event) ==
    IF event.hydrationType = "wipe_all" THEN c.store
    ELSE ApplyChanges(c.store, ReverseRecordsDiff(c.speculativeChanges))

\* Wipe the presence and, if needed, the documents; apply the event's diff.
Hydrated(c, event) ==
    LET wiped == PresenceIds \cup
                   IF event.hydrationType = "wipe_all" THEN Ids ELSE {}
        undone == UndoneBeforeHydration(c, event)
    IN  ApplyNetworkDiff([id \in RecordIds |-> IF id \in wiped THEN Absent
                                               ELSE undone[id]],
                         event.diff)

\* didReconnect.  The speculative changes are applied to the new records of the
\* room, and the difference is pushed as one request.
DidReconnect(c, event) ==
    LET hydrated == Hydrated(c, event)
        reapplied == ApplyChanges(hydrated, c.speculativeChanges)
        rebased == [RemoteChange(c, reapplied)
                      EXCEPT !.speculativeChanges = NoChanges,
                             !.isConnectedToRoom = TRUE]
        answered == [c EXCEPT !.latestConnectRequestId = NoRequest]
    IN  IF event.connectRequestId # c.latestConnectRequestId THEN c
        ELSE IF c.isConnectedToRoom \/ c.pendingPushRequests # <<>>
          THEN ResetConnection(answered, TRUE)
        ELSE [Push(rebased, Between(hydrated, reapplied))
                EXCEPT !.latestConnectRequestId = NoRequest,
                       !.lastServerClock = event.serverClock,
                       !.loaded = TRUE,
                       !.astray = @ \/ HasUnflushedChanges(c)]

\* handleServerEvent.
HandleServerEvent(c, event) ==
    CASE event.type = "connect" -> DidReconnect(c, event)
      [] event.type = "data" /\ c.isConnectedToRoom ->
           [c EXCEPT !.incomingDiffBuffer = @ \o event.data]
      [] OTHER -> c

-----------------------------------------------------------------------------
(***************************************************************************)
(* rebase: undo the speculative changes, apply what the room has sent, do  *)
(* the changes of the requests that are still pending once more.           *)
(***************************************************************************)
IsAnswer(event) == event.type = "push_result"

\* The clocks of the requests that a sequence of events answers.
AddAnswer(clocks, event) ==
    IF IsAnswer(event) THEN Append(clocks, event.clientClock) ELSE clocks

AnsweredBy(events) == FoldLeft(AddAnswer, <<>>, events)

\* Every push_result is for the request that is then at the front of the queue.
AnswersMatch(c) ==
    LET answered == AnsweredBy(c.incomingDiffBuffer)
    IN  /\ Len(answered) <= Len(c.pendingPushRequests)
        /\ \A i \in DOMAIN answered :
             answered[i] = c.pendingPushRequests[i].clientClock

\* A mutant: a push that was committed is not applied to the room's records.
ReceiveWithoutCommit(c, event) ==
    LET answered == IF IsAnswer(event) THEN Tail(c.pendingPushRequests)
                                       ELSE c.pendingPushRequests
        diff == IF IsAnswer(event) /\ event.action \in {"discard", "commit"}
                  THEN EmptyDiff ELSE event.diff
    IN  [c EXCEPT !.store = ApplyNetworkDiff(@, diff),
                  !.pendingPushRequests = answered]

\* One event of the buffer, on top of records known to be the room's.
Receive(c, event) ==
    LET diff == CASE ~IsAnswer(event)           -> event.diff
                  [] IsAnswer(event) /\ event.action = "discard" -> EmptyDiff
                  [] IsAnswer(event) /\ event.action = "commit" ->
                       Head(c.pendingPushRequests).diff
                  [] IsAnswer(event) /\ event.action = "rebase" -> event.diff
    IN  [c EXCEPT !.store = ApplyNetworkDiff(@, diff),
                  !.pendingPushRequests = IF IsAnswer(event) THEN Tail(@) ELSE @]

\* The store's validators reject what the diff makes of a record.
Rejected(store, diff) ==
    \E id \in DOMAIN diff :
        LET outcome == ApplyNetworkDiff(store, diff)[id]
        IN  outcome \notin {Absent, store[id]} /\ ~IsValid(outcome)

\* The store when the validators throw: of the records that the diff writes,
\* those in early were written before, and no transaction takes them back.
WrittenBeforeFailure(store, diff, early) ==
    LET next == ApplyNetworkDiff(store, diff)
    IN  [id \in RecordIds |-> IF id \in early /\ next[id] # Absent
                                /\ (next[id] = store[id] \/ IsValid(next[id]))
                               THEN next[id] ELSE store[id]]

\* Apply the changes of a pending request again, extracting what they change.
\* failed: a request before it threw, and the loop with it.
Reapply(acc, req) ==
    LET next == ApplyNetworkDiff(acc.store, req.diff)
    IN  CASE acc.failed -> acc
          [] ~acc.failed /\ Rejected(acc.store, req.diff) ->
               [acc EXCEPT !.failed = TRUE,
                           !.store = WrittenBeforeFailure(@, req.diff, acc.early)]
          [] ~acc.failed /\ ~Rejected(acc.store, req.diff) ->
               [acc EXCEPT !.store = next,
                           !.changes = Squash(@, Between(acc.store, next))]

\* A mutant: after a failure the requests that are left stay pending.
RebaseOntoWithoutReset(c, early) ==
    LET undone == [c EXCEPT !.store =
                     ApplyChanges(@, ReverseRecordsDiff(c.speculativeChanges))]
        received == FoldLeft(Receive, undone, c.incomingDiffBuffer)
        again == FoldLeft(Reapply,
                          [store |-> received.store, changes |-> NoChanges,
                           failed |-> FALSE, early |-> early],
                          received.pendingPushRequests)
    IN  [RemoteChange(c, again.store)
           EXCEPT !.pendingPushRequests = received.pendingPushRequests,
                  !.speculativeChanges = again.changes,
                  !.incomingDiffBuffer = <<>>,
                  !.lastServerClock = Last(c.incomingDiffBuffer).serverClock]

\* The remote change of a rebase.  When a pending request can no longer be
\* applied, the speculative changes are thrown away and the connection is reset;
\* what was applied until then stays in the store.
RebaseOnto(c, early) ==
    LET undone == [c EXCEPT !.store =
                     ApplyChanges(@, ReverseRecordsDiff(c.speculativeChanges))]
        received == FoldLeft(Receive, undone, c.incomingDiffBuffer)
        again == FoldLeft(Reapply,
                          [store |-> received.store, changes |-> NoChanges,
                           failed |-> FALSE, early |-> early],
                          received.pendingPushRequests)
        rebased == [RemoteChange(c, again.store)
                      EXCEPT !.pendingPushRequests = received.pendingPushRequests,
                             !.speculativeChanges = IF again.failed THEN NoChanges
                                                    ELSE again.changes,
                             !.incomingDiffBuffer = <<>>,
                             !.lastServerClock =
                                 Last(c.incomingDiffBuffer).serverClock,
                             !.astray = @ \/ /\ again.failed
                                              /\ again.store # received.store]
    IN  IF again.failed THEN ResetConnection(rebased, FALSE) ELSE rebased

\* An answer to a request that is not at the front of the queue throws: the
\* store is as it was, and the connection is reset.
Rebase(c, early) ==
    LET flushed == FlushHistory(c)
    IN  IF AnswersMatch(flushed) THEN RebaseOnto(flushed, early)
        ELSE ResetConnection(flushed, FALSE)

-----------------------------------------------------------------------------
\* The document records from before a sequence of changes that led to the store.
Undone(store, changes) ==
    [id \in Ids |->
       LET touching == {i \in DOMAIN changes : id \in Touched(changes[i])}
       IN  IF touching = {} THEN store[id]
           ELSE BeforeChange(changes[Min(touching)], id)]

\* The document records of a client without its unflushed changes, and without
\* its speculative changes too.
Flushed(c) == Undone(c.store, c.history)

Confirmed(c) == Undone(c.store, <<c.speculativeChanges>> \o c.history)

\* Records with the changes of the pending requests.
ApplyRequest(records, req) == ApplyNetworkDiff(records, req.diff)

WithPending(c, records) ==
    FoldLeft(ApplyRequest, records, c.pendingPushRequests)
=============================================================================
