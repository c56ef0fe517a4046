----------------------------- MODULE TLSyncProofs -----------------------------
(***************************************************************************)
(* Theorems about TLSync, for every set of clients, records and scenarios. *)
(***************************************************************************)
EXTENDS TLSync, TLSyncRoomProofs, RecordsDiffProofs, SequenceTheorems

Pushing == INSTANCE LeftFold WITH Op <- Push
Sending == INSTANCE LeftFold WITH Op <- SendPush
Answering == INSTANCE LeftFold WITH Op <- AddAnswer
Receiving == INSTANCE LeftFold WITH Op <- Receive
Reapplying == INSTANCE LeftFold WITH Op <- Reapply
Requesting == INSTANCE LeftFold WITH Op <- ApplyRequest

-----------------------------------------------------------------------------
(***************************************************************************)
(* The types of what clients hold and send.                                *)
(***************************************************************************)
\* Changes of document records: all that users make.
DocChanges == DiffsOver(Ids, Record)

DocRequest ==
    [diff : DocDiffs, presence : PresencePushes, clientClock : Nat,
     sent : BOOLEAN]

ClientMessage ==
    [type : {"connect"}, connectRequestId : Nat \ {NoRequest},
     lastServerClock : Nat]
        \cup [type : {"push"}, diff : DocDiffs, presence : PresencePushes,
              clientClock : Nat]

Stores == [RecordIds -> MaybeRecord]

Client ==
    [status : {SocketOnline, SocketOffline, SocketClosed}, store : Stores,
     history : Seq(DocChanges), speculativeChanges : DocChanges,
     pendingPushRequests : Seq(DocRequest),
     incomingDiffBuffer : Seq(DataMessage), lastServerClock : Nat,
     clientClock : Nat, isConnectedToRoom : BOOLEAN,
     latestConnectRequestId : Nat, presence : MaybeRecord,
     lastPushedPresenceState : MaybeRecord, out : Seq(ClientMessage),
     requests : Nat, edits : Nat, loaded : BOOLEAN, astray : BOOLEAN]

SyncTyping ==
    /\ clients \in [SessionIds -> Client]
    /\ late \in [SessionIds -> Seq(ClientMessage)]
    /\ scenario \in Scenarios

\* Every new client is well formed.
LEMMA NewClientType == NewClient \in Client
<1>1. NoChanges \in DocChanges
  BY NoChangesInDiffs DEF DocChanges
<1>2. [id \in RecordIds |-> Absent] \in Stores
  BY DEF Stores, MaybeRecord
<1>3. NoRequest \in Nat /\ Absent \in MaybeRecord
  BY DEF NoRequest, MaybeRecord
<1> QED BY <1>1, <1>2, <1>3 DEF NewClient, Client

\* A change that stays within the documents.
LEMMA DocumentsBetween ==
    ASSUME NEW old \in Stores, NEW new \in Stores,
           \A p \in RecordIds \ Ids : new[p] = old[p]
    PROVE  Between(old, new) \in DocChanges
<1> DEFINE d == Between(old, new)
           oldDocs == [id \in Ids |-> old[id]]
           newDocs == [id \in Ids |-> new[id]]
<1>1. {id \in DOMAIN old : old[id] # new[id]}
        = {id \in DOMAIN oldDocs : oldDocs[id] # newDocs[id]}
  BY DEF Stores, RecordIds
<1>2. d = Between(oldDocs, newDocs)
  BY <1>1 DEF Between
<1>3. oldDocs \in [Ids -> Record \cup {Absent}]
      /\ newDocs \in [Ids -> Record \cup {Absent}]
  BY DEF Stores, RecordIds, MaybeRecord
<1> QED BY <1>2, <1>3, BetweenInDiffs DEF DocChanges

\* The values of a change of documents.
LEMMA DocChangesHave ==
    ASSUME NEW diff \in DocChanges
    PROVE  /\ diff = [added |-> diff.added, updated |-> diff.updated,
                      removed |-> diff.removed]
           /\ DOMAIN diff.added \subseteq Ids
           /\ \A id \in DOMAIN diff.added : diff.added[id] \in Record
           /\ DOMAIN diff.updated \subseteq Ids
           /\ \A id \in DOMAIN diff.updated :
                /\ diff.updated[id].from \in Record
                /\ diff.updated[id].to \in Record
           /\ DOMAIN diff.removed \subseteq Ids
           /\ \A id \in DOMAIN diff.removed : diff.removed[id] \in Record
<1> DEFINE Updates == [from : Record, to : Record]
<1>1. /\ diff.added \in PartOf(Ids, Record)
      /\ diff.updated \in PartOf(Ids, Updates)
      /\ diff.removed \in PartOf(Ids, Record)
      /\ diff = [added |-> diff.added, updated |-> diff.updated,
                 removed |-> diff.removed]
  BY DEF DocChanges, DiffsOver
<1>2. \A u \in Updates : u.from \in Record /\ u.to \in Record
  OBVIOUS
<1> HIDE DEF Updates
<1>3. /\ DOMAIN diff.updated \subseteq Ids
      /\ \A id \in DOMAIN diff.updated : diff.updated[id] \in Updates
  BY <1>1, PartHas
<1>4. /\ DOMAIN diff.added \subseteq Ids
      /\ \A id \in DOMAIN diff.added : diff.added[id] \in Record
  BY <1>1, PartHas
<1>5. /\ DOMAIN diff.removed \subseteq Ids
      /\ \A id \in DOMAIN diff.removed : diff.removed[id] \in Record
  BY <1>1, PartHas
<1> QED BY <1>1, <1>2, <1>3, <1>4, <1>5

\* Diffs of documents apply to stores.
LEMMA ApplyDocChanges ==
    ASSUME NEW store \in Stores, NEW diff \in DocChanges
    PROVE  /\ ApplyChanges(store, diff) \in Stores
           /\ \A p \in RecordIds \ Ids : ApplyChanges(store, diff)[p] = store[p]
<1>1. DOMAIN store = RecordIds /\ \A id \in RecordIds : store[id] \in MaybeRecord
  BY DEF Stores
<1>2. DOMAIN diff.added \cup DOMAIN diff.updated \cup DOMAIN diff.removed
        \subseteq Ids
  BY DocChangesHave
<1>3. ASSUME NEW id \in RecordIds
      PROVE  ApplyChanges(store, diff)[id] \in MaybeRecord
  <2>1. /\ id \in DOMAIN diff.added => diff.added[id] \in Record
        /\ id \in DOMAIN diff.updated => diff.updated[id].to \in Record
    BY DocChangesHave
  <2> QED BY <1>1, <2>1 DEF ApplyChanges, MaybeRecord
<1>4. ApplyChanges(store, diff) \in Stores
  <2>1. ApplyChanges(store, diff)
          = [id \in RecordIds |-> ApplyChanges(store, diff)[id]]
    BY <1>1 DEF ApplyChanges
  <2> QED BY <1>3, <2>1 DEF Stores
<1> QED BY <1>1, <1>2, <1>4 DEF ApplyChanges

\* Network diffs of documents apply to stores.
LEMMA ApplyDocDiff ==
    ASSUME NEW store \in Stores, NEW diff \in DocDiffs
    PROVE  /\ ApplyNetworkDiff(store, diff) \in Stores
           /\ \A p \in RecordIds \ Ids : ApplyNetworkDiff(store, diff)[p] = store[p]
<1>1. diff \in NetworkDiff /\ DOMAIN diff \subseteq Ids
  BY DEF DocDiffs
<1>2. ApplyNetworkDiff(store, diff) \in Stores
  BY <1>1, ApplyNetworkDiffType DEF Stores
<1> QED BY <1>1, <1>2 DEF ApplyNetworkDiff, Stores

\* The difference of two records is an object diff.
LEMMA DiffRecordType ==
    ASSUME NEW old \in Record, NEW new \in Record
    PROVE  PatchOp(DiffRecord(old, new)) \in {op \in RecordOp : op.type # "remove"}
<1>1. DiffRecord(old, new) \in [{g \in Fields : old[g] # new[g]} -> Vals]
  BY DEF DiffRecord, Record
<1>2. DiffRecord(old, new) \in ObjectDiff
  BY <1>1 DEF ObjectDiff
<1> QED BY <1>2 DEF PatchOp, RecordOp

\* What a client pushes is a network diff of documents.
LEMMA GetNetworkDiffType ==
    ASSUME NEW changes \in DocChanges
    PROVE  GetNetworkDiff(changes) \in DocDiffs
<1> DEFINE updated == {id \in DOMAIN changes.updated :
                         changes.updated[id].from # changes.updated[id].to}
           ids == DOMAIN changes.added \cup updated \cup DOMAIN changes.removed
           op(id) == IF id \in DOMAIN changes.removed THEN RemoveOp
                     ELSE IF id \in updated
                       THEN PatchOp(DiffRecord(changes.updated[id].from,
                                               changes.updated[id].to))
                     ELSE PutOp(changes.added[id])
<1>2. /\ DOMAIN changes.added \subseteq Ids
      /\ \A id \in DOMAIN changes.added : changes.added[id] \in Record
  BY DocChangesHave
<1>3. /\ DOMAIN changes.updated \subseteq Ids
      /\ \A id \in DOMAIN changes.updated : /\ changes.updated[id].from \in Record
                                            /\ changes.updated[id].to \in Record
  BY DocChangesHave
<1>4. DOMAIN changes.removed \subseteq Ids
  BY DocChangesHave
<1>5. ids \subseteq Ids
  BY <1>2, <1>3, <1>4
<1>6. \A id \in ids : op(id) \in RecordOp
  <2> SUFFICES ASSUME NEW id \in ids PROVE op(id) \in RecordOp
    OBVIOUS
  <2>1. CASE id \in DOMAIN changes.removed
    BY <2>1 DEF RecordOp
  <2>2. CASE id \notin DOMAIN changes.removed /\ id \in updated
    <3>1. changes.updated[id].from \in Record /\ changes.updated[id].to \in Record
      BY <2>2, <1>3
    <3> QED BY <2>2, <3>1, DiffRecordType
  <2>3. CASE id \notin DOMAIN changes.removed /\ id \notin updated
    <3>1. changes.added[id] \in Record
      BY <2>3, <1>2
    <3> QED BY <2>3, <3>1 DEF PutOp, RecordOp
  <2> QED BY <2>1, <2>2, <2>3
<1>7. GetNetworkDiff(changes) = [id \in ids |-> op(id)]
  BY DEF GetNetworkDiff
<1> HIDE DEF ids, op
<1>8. [id \in ids |-> op(id)] \in [ids -> RecordOp]
  BY <1>6
<1> QED BY <1>5, <1>7, <1>8 DEF DocDiffs, NetworkDiff, RecordIds

-----------------------------------------------------------------------------
(***************************************************************************)
(* Every handler of a client makes a client of a client.                   *)
(***************************************************************************)
\* Squashing changes of documents.
LEMMA SquashDocChanges ==
    ASSUME NEW target \in DocChanges, NEW diff \in DocChanges
    PROVE  Squash(target, diff) \in DocChanges
BY SquashInDiffs DEF DocChanges

\* The listener's folds and those of the throttled functions.
LEMMA ClientFolds ==
    /\ \A c : FlushHistory(c)
                = Pushing!Fold([c EXCEPT !.history = <<>>], c.history)
    /\ \A out, reqs : FoldLeft(SendPush, out, reqs) = Sending!Fold(out, reqs)
    /\ \A events : AnsweredBy(events) = Answering!Fold(<<>>, events)
    /\ \A c, events : FoldLeft(Receive, c, events) = Receiving!Fold(c, events)
    /\ \A acc, reqs : FoldLeft(Reapply, acc, reqs) = Reapplying!Fold(acc, reqs)
<1>1. \A c : FlushHistory(c)
               = Pushing!Fold([c EXCEPT !.history = <<>>], c.history)
  BY DEF FlushHistory, FoldLeft, MapThenFoldSet, Max, Pushing!Fold,
         Pushing!MapThenFoldSet, Pushing!Greatest
<1>2. \A out, reqs : FoldLeft(SendPush, out, reqs) = Sending!Fold(out, reqs)
  BY DEF FoldLeft, MapThenFoldSet, Max, Sending!Fold,
         Sending!MapThenFoldSet, Sending!Greatest
<1>3. \A events : AnsweredBy(events) = Answering!Fold(<<>>, events)
  BY DEF AnsweredBy, FoldLeft, MapThenFoldSet, Max, Answering!Fold,
         Answering!MapThenFoldSet, Answering!Greatest
<1>4. \A c, events : FoldLeft(Receive, c, events) = Receiving!Fold(c, events)
  BY DEF FoldLeft, MapThenFoldSet, Max, Receiving!Fold,
         Receiving!MapThenFoldSet, Receiving!Greatest
<1>5. \A acc, reqs : FoldLeft(Reapply, acc, reqs) = Reapplying!Fold(acc, reqs)
  BY DEF FoldLeft, MapThenFoldSet, Max, Reapplying!Fold,
         Reapplying!MapThenFoldSet, Reapplying!Greatest
<1> QED BY <1>1, <1>2, <1>3, <1>4, <1>5

\* A push request of a typed client is typed (TLSyncClient.push).
LEMMA AddPushRequestType ==
    ASSUME NEW c \in Client, NEW diff \in DocDiffs, NEW presence \in PresencePushes
    PROVE  AddPushRequest(c, diff, presence) \in Client
<1> DEFINE req == [diff |-> diff, presence |-> presence,
                   clientClock |-> c.clientClock, sent |-> FALSE]
<1>1. req \in DocRequest /\ c.clientClock + 1 \in Nat
  BY DEF Client, DocRequest
<1> HIDE DEF req
<1>2. Append(c.pendingPushRequests, req) \in Seq(DocRequest)
  BY <1>1 DEF Client
<1>3. AddPushRequest(c, diff, presence)
        = [c EXCEPT !.pendingPushRequests = Append(c.pendingPushRequests, req),
                    !.clientClock = c.clientClock + 1]
  BY DEF AddPushRequest, req
<1> QED BY <1>1, <1>2, <1>3 DEF Client

\* push keeps a client typed, online or not.
LEMMA PushType ==
    ASSUME NEW c \in Client, NEW change \in DocChanges
    PROVE  Push(c, change) \in Client
<1> DEFINE diff == GetNetworkDiff(change)
           squashed == Squash(c.speculativeChanges, change)
           stashed == [c EXCEPT !.speculativeChanges = squashed]
<1>1. diff \in DocDiffs
  BY GetNetworkDiffType
<1>2. squashed \in DocChanges
  BY SquashDocChanges DEF Client
<1>3. Push(c, change) = c \/ Push(c, change) = stashed
      \/ Push(c, change) = AddPushRequest(stashed, diff, NoOp)
  BY DEF Push
<1> HIDE DEF diff, squashed
<1>4. stashed \in Client
  BY <1>2 DEF Client
<1> HIDE DEF stashed
<1>5. AddPushRequest(stashed, diff, NoOp) \in Client
  BY <1>1, <1>4, AddPushRequestType DEF PresencePushes
<1> QED BY <1>3, <1>4, <1>5

\* Flushing the history of the store pushes typed diffs.
LEMMA FlushHistoryType ==
    ASSUME NEW c \in Client
    PROVE  FlushHistory(c) \in Client
<1> DEFINE base == [c EXCEPT !.history = <<>>]
<1>1. base \in Client /\ c.history \in Seq(DocChanges)
  <2>1. <<>> \in Seq(DocChanges)
    OBVIOUS
  <2> QED BY <2>1 DEF Client
<1> HIDE DEF base
<1>2. \A u \in Client, e \in DocChanges : Push(u, e) \in Client
  BY PushType
<1>3. Pushing!Fold(base, c.history) \in Client
  BY <1>1, <1>2, Pushing!FoldKeeps
<1> QED BY <1>3, ClientFolds DEF base

\* A history entry that is a typed diff keeps the store typed.
LEMMA WithEntryType ==
    ASSUME NEW history \in Seq(DocChanges), NEW entry \in DocChanges
    PROVE  WithEntry(history, entry) \in Seq(DocChanges)
<1> DEFINE n == Len(history)
           squashed == Squash(history[n], entry)
<1>1. n > 0 => history[n] \in DocChanges
  OBVIOUS
<1>2. n > 0 => squashed \in DocChanges
  BY <1>1, SquashDocChanges
<1>3. WithEntry(history, entry) = IF n > 0 /\ history[n] # NoChanges
                                    THEN [history EXCEPT ![n] = squashed]
                                    ELSE Append(history, entry)
  BY DEF WithEntry
<1> HIDE DEF squashed
<1> QED BY <1>2, <1>3

\* An edit of the user keeps the store typed.
LEMMA UserChangeType ==
    ASSUME NEW c \in Client, NEW id \in Ids, NEW record \in MaybeRecord
    PROVE  UserChange(c, [c.store EXCEPT ![id] = record]) \in Client
<1> DEFINE next == [c.store EXCEPT ![id] = record]
           entry == Between(c.store, next)
<1>1. c.store \in Stores /\ c.history \in Seq(DocChanges)
  BY DEF Client
<1>2. next \in Stores /\ \A p \in RecordIds \ Ids : next[p] = c.store[p]
  BY <1>1 DEF Stores, RecordIds
<1>3. entry \in DocChanges
  BY <1>1, <1>2, DocumentsBetween
<1>4. UserChange(c, next)
        = [c EXCEPT !.store = next, !.history = WithEntry(c.history, entry)]
  BY DEF UserChange
<1> HIDE DEF next, entry
<1>5. WithEntry(c.history, entry) \in Seq(DocChanges)
  BY <1>1, <1>3, WithEntryType
<1>6. UserChange(c, next) \in Client
  BY <1>2, <1>4, <1>5, ZenonT(30) DEF Client
<1> QED BY <1>6 DEF next

\* A diff from the network keeps the store typed.
LEMMA RemoteChangeType ==
    ASSUME NEW c \in Client, NEW next \in Stores
    PROVE  RemoteChange(c, next) \in Client
<1>1. NoChanges \in DocChanges
  BY NoChangesInDiffs DEF DocChanges
<1>2. Append(c.history, NoChanges) \in Seq(DocChanges)
  BY <1>1 DEF Client
<1> QED BY <1>2 DEF RemoteChange, Client

\* What happens to a request.
LEMMA RequestType ==
    ASSUME NEW req \in DocRequest, NEW op \in PresencePushes
    PROVE  /\ [req EXCEPT !.sent = TRUE] \in DocRequest
           /\ [req EXCEPT !.presence = op] \in DocRequest
BY DEF DocRequest

\* The difference of two presence records, as a push of it.
LEMMA PushPresenceOpType ==
    ASSUME NEW c \in Client, NEW next \in MaybeRecord
    PROVE  /\ PushPresenceOp(c, next) \in Client
           /\ PushPresenceOp(c, next) # c => \E op \in PresencePushes :
                LET pushed == [c EXCEPT !.lastPushedPresenceState = next]
                    n == Len(c.pendingPushRequests)
                IN  /\ c.isConnectedToRoom
                    /\ \/ /\ PresenceJoinsLastPush(c)
                          /\ PushPresenceOp(c, next)
                               = [pushed EXCEPT !.pendingPushRequests[n].presence = op]
                       \/ PushPresenceOp(c, next) = AddPushRequest(pushed, EmptyDiff, op)
<1> DEFINE last == c.lastPushedPresenceState
           op == CASE next = Absent \/ ~c.isConnectedToRoom -> NoOp
                   [] last = Absent /\ next # Absent -> PutOp(next)
                   [] last # Absent /\ next # Absent ->
                        IF last = next THEN NoOp ELSE PatchOp(DiffRecord(last, next))
           pushed == [c EXCEPT !.lastPushedPresenceState = next]
           n == Len(c.pendingPushRequests)
           joined == [pushed EXCEPT !.pendingPushRequests[n].presence = op]
<1>1. last \in MaybeRecord
  BY DEF Client
<1>2. c.isConnectedToRoom => op \in PresencePushes
  <2> SUFFICES ASSUME c.isConnectedToRoom PROVE op \in PresencePushes
    OBVIOUS
  <2>1. CASE next = Absent
    BY <2>1 DEF PresencePushes
  <2>2. CASE next # Absent /\ last = Absent
    <3>1. op = PutOp(next) /\ next \in Record
      BY <2>2 DEF MaybeRecord
    <3> QED BY <3>1 DEF PutOp, RecordOp, PresencePushes
  <2>3. CASE next # Absent /\ last # Absent
    <3>1. next \in Record /\ last \in Record
      BY <1>1, <2>3 DEF MaybeRecord
    <3>2. op = NoOp \/ op = PatchOp(DiffRecord(last, next))
      BY <2>3
    <3> QED BY <3>1, <3>2, DiffRecordType DEF PresencePushes
  <2> QED BY <2>1, <2>2, <2>3
<1>3. pushed \in Client
  BY DEF Client
<1>4. PushPresenceOp(c, next) = IF ~c.isConnectedToRoom \/ op = NoOp THEN c
                                ELSE IF PresenceJoinsLastPush(c) THEN joined
                                ELSE AddPushRequest(pushed, EmptyDiff, op)
  BY DEF PushPresenceOp
<1>5. EmptyDiff \in DocDiffs
  BY InputsAreOpen
<1> HIDE DEF op
<1>6. c.isConnectedToRoom => AddPushRequest(pushed, EmptyDiff, op) \in Client
  <2> HIDE DEF pushed
  <2> QED BY <1>2, <1>3, <1>5, AddPushRequestType
<1>7. c.isConnectedToRoom /\ PresenceJoinsLastPush(c) => joined \in Client
  <2> SUFFICES ASSUME c.isConnectedToRoom, PresenceJoinsLastPush(c)
               PROVE  joined \in Client
    OBVIOUS
  <2> DEFINE reqs == c.pendingPushRequests
             req == [reqs[n] EXCEPT !.presence = op]
  <2>1. reqs \in Seq(DocRequest) /\ n \in 1..Len(reqs)
    BY DEF Client, PresenceJoinsLastPush
  <2>2. req \in DocRequest
    <3>1. reqs[n] \in DocRequest
      BY <2>1
    <3> QED BY <1>2, <3>1, RequestType
  <2>3. joined = [pushed EXCEPT !.pendingPushRequests = [reqs EXCEPT ![n] = req]]
    BY <2>1
  <2>4. [reqs EXCEPT ![n] = req] \in Seq(DocRequest)
    BY <2>1, <2>2
  <2> HIDE DEF req, n
  <2> QED BY <1>3, <2>3, <2>4 DEF Client
<1>8. PushPresenceOp(c, next) \in Client
  BY <1>4, <1>6, <1>7
<1> QED BY <1>2, <1>4, <1>8

\* Pushing the presence keeps a client typed.
LEMMA PushPresenceType ==
    ASSUME NEW c \in Client, NEW next \in MaybeRecord
    PROVE  PushPresence(c, next) \in Client
<1> DEFINE moved == [c EXCEPT !.presence = next]
<1>1. moved \in Client
  BY DEF Client
<1> HIDE DEF moved
<1>2. FlushHistory(moved) \in Client
  BY <1>1, FlushHistoryType
<1>3. PushPresenceOp(FlushHistory(moved), next) \in Client
  BY <1>2, PushPresenceOpType
<1> QED BY <1>3 DEF PushPresence, moved

\* What a flush sends is typed.
LEMMA SendPushType ==
    ASSUME NEW out \in Seq(ClientMessage), NEW req \in DocRequest
    PROVE  SendPush(out, req) \in Seq(ClientMessage)
<1>1. PushMessage(req) \in ClientMessage
  BY DEF PushMessage, ClientMessage, DocRequest
<1> QED BY <1>1 DEF SendPush

\* flushPendingPushRequests keeps a client typed.
LEMMA FlushPendingType ==
    ASSUME NEW c \in Client
    PROVE  FlushPendingPushRequests(c) \in Client
<1> DEFINE reqs == c.pendingPushRequests
           out == Sending!Fold(c.out, reqs)
           marked == [i \in DOMAIN reqs |-> [reqs[i] EXCEPT !.sent = TRUE]]
<1>1. reqs \in Seq(DocRequest) /\ c.out \in Seq(ClientMessage)
  BY DEF Client
<1>2. out \in Seq(ClientMessage)
  BY <1>1, SendPushType, Sending!FoldKeeps
<1>3. marked \in Seq(DocRequest)
  <2>1. ASSUME NEW i \in DOMAIN reqs PROVE marked[i] \in DocRequest
    <3>1. reqs[i] \in DocRequest /\ NoOp \in PresencePushes
      BY <1>1 DEF PresencePushes
    <3> QED BY <3>1, RequestType
  <2>2. DOMAIN reqs = 1..Len(reqs) /\ Len(reqs) \in Nat
    BY <1>1
  <2>3. marked \in [1..Len(reqs) -> DocRequest]
    BY <2>1, <2>2
  <2> QED BY <2>2, <2>3
<1>4. FlushPendingPushRequests(c) = IF ~c.isConnectedToRoom \/ c.status # SocketOnline
        THEN c ELSE [c EXCEPT !.out = out, !.pendingPushRequests = marked]
  BY ClientFolds DEF FlushPendingPushRequests
<1> HIDE DEF out, marked
<1> QED BY <1>2, <1>3, <1>4, ZenonT(30) DEF Client

\* What is left of a client's records and requests when its connection is reset.
LEMMA ResetConnectionType ==
    ASSUME NEW c \in Client, NEW hard \in BOOLEAN
    PROVE  ResetConnection(c, hard) \in Client
<1> DEFINE next == [id \in RecordIds |-> IF id \in PresenceIds THEN Absent
                                         ELSE c.store[id]]
           d == RemoteChange(c, next)
           atClock == IF hard THEN 0 ELSE d.lastServerClock
           status == IF d.status = SocketOnline THEN SocketOffline ELSE d.status
<1>1. next \in Stores
  BY DEF Client, Stores, MaybeRecord
<1>2. d \in Client
  BY <1>1, RemoteChangeType
<1>3. ResetConnection(c, hard)
        = [d EXCEPT !.lastServerClock = atClock,
                    !.lastPushedPresenceState = Absent,
                    !.isConnectedToRoom = FALSE,
                    !.pendingPushRequests = <<>>,
                    !.incomingDiffBuffer = <<>>,
                    !.status = status]
  BY DEF ResetConnection
<1> HIDE DEF d
<1>5. atClock \in Nat /\ status \in {SocketOnline, SocketOffline, SocketClosed}
  BY <1>2 DEF Client
<1> HIDE DEF atClock, status
<1>4. <<>> \in Seq(DocRequest) /\ <<>> \in Seq(DataMessage) /\ Absent \in MaybeRecord
  BY DEF MaybeRecord
<1> QED BY <1>2, <1>3, <1>4, <1>5, ZenonT(30) DEF Client

\* A lost connection, with the pending requests undone, keeps a client typed.
LEMMA ConnectionLostType ==
    ASSUME NEW c \in Client, NEW fatal \in BOOLEAN
    PROVE  ConnectionLost(c, fatal) \in Client
<1> DEFINE lost == [c EXCEPT !.status = SocketOffline]
           reset == ResetConnection(lost, FALSE)
<1>1. lost \in Client
  BY DEF Client
<1> HIDE DEF lost
<1>2. reset \in Client
  BY <1>1, ResetConnectionType
<1> HIDE DEF reset
<1>3. [reset EXCEPT !.status = SocketClosed] \in Client
  BY <1>2 DEF Client
<1> QED BY <1>2, <1>3 DEF ConnectionLost, reset, lost

\* The connect request a client sends is typed.
LEMMA SendConnectMessageType ==
    ASSUME NEW c \in Client
    PROVE  SendConnectMessage([c EXCEPT !.out = <<>>]) \in Client
<1> DEFINE d == [c EXCEPT !.out = <<>>]
           msg == [type |-> "connect", connectRequestId |-> c.requests + 1,
                   lastServerClock |-> c.lastServerClock]
<1>1. msg \in ClientMessage /\ c.requests + 1 \in Nat
  <2>1. c.requests \in Nat /\ c.lastServerClock \in Nat
    BY DEF Client
  <2>2. c.requests + 1 \in Nat \ {NoRequest}
    BY <2>1 DEF NoRequest
  <2> QED BY <2>1, <2>2 DEF ClientMessage
<1>2. SendConnectMessage(d)
        = [c EXCEPT !.out = <<msg>>, !.status = SocketOnline,
                    !.requests = c.requests + 1,
                    !.latestConnectRequestId = c.requests + 1]
  <2>1. Append(<<>>, msg) = <<msg>>
    OBVIOUS
  <2> HIDE DEF msg
  <2>2. Append(d.out, msg) = <<msg>> /\ d.requests = c.requests
    BY <2>1 DEF Client
  <2>3. SendConnectMessage(d) = [d EXCEPT !.status = SocketOnline,
                                          !.requests = c.requests + 1,
                                          !.latestConnectRequestId = c.requests + 1,
                                          !.out = <<msg>>]
    BY <2>2 DEF SendConnectMessage, msg, Client
  <2> QED BY <2>3 DEF Client
<1>3. <<msg>> \in Seq(ClientMessage)
  BY <1>1
<1> HIDE DEF msg
<1> QED BY <1>1, <1>2, <1>3, ZenonT(30) DEF Client

\* The room's answer to a connect request.
ConnectEvent ==
    [type : {"connect"}, hydrationType : {"wipe_all", "wipe_presence"},
     diff : NetworkDiff, serverClock : Nat, connectRequestId : Nat,
     isReadonly : BOOLEAN]

\* The reverse of a document diff is a document diff.
LEMMA ReverseDocChanges ==
    ASSUME NEW diff \in DocChanges
    PROVE  ReverseRecordsDiff(diff) \in DocChanges
BY ReverseInDiffs DEF DocChanges

\* The store a client rebuilds from a connect answer is typed.
LEMMA HydratedType ==
    ASSUME NEW c \in Client, NEW event \in ConnectEvent
    PROVE  Hydrated(c, event) \in Stores
<1> DEFINE wiped == PresenceIds \cup
                      IF event.hydrationType = "wipe_all" THEN Ids ELSE {}
           undone == UndoneBeforeHydration(c, event)
           kept == [id \in RecordIds |-> IF id \in wiped THEN Absent ELSE undone[id]]
<1>1. c.store \in Stores /\ c.speculativeChanges \in DocChanges
  BY DEF Client
<1>2. ApplyChanges(c.store, ReverseRecordsDiff(c.speculativeChanges)) \in Stores
  BY <1>1, ReverseDocChanges, ApplyDocChanges
<1>3. undone \in Stores
  BY <1>1, <1>2 DEF UndoneBeforeHydration
<1>4. kept \in Stores
  BY <1>3 DEF Stores, MaybeRecord
<1>5. event.diff \in NetworkDiff
  BY DEF ConnectEvent
<1>6. Hydrated(c, event) = ApplyNetworkDiff(kept, event.diff)
  BY DEF Hydrated
<1> HIDE DEF kept
<1> QED BY <1>4, <1>5, <1>6, ApplyNetworkDiffType DEF Stores

\* didReconnect keeps a client typed.
LEMMA DidReconnectType ==
    ASSUME NEW c \in Client, NEW event \in ConnectEvent
    PROVE  DidReconnect(c, event) \in Client
<1> DEFINE hydrated == Hydrated(c, event)
           reapplied == ApplyChanges(hydrated, c.speculativeChanges)
           there == RemoteChange(c, reapplied)
           rebased == [there EXCEPT !.speculativeChanges = NoChanges,
                                    !.isConnectedToRoom = TRUE]
           answered == [c EXCEPT !.latestConnectRequestId = NoRequest]
           difference == Between(hydrated, reapplied)
           pushed == Push(rebased, difference)
           astray == pushed.astray \/ HasUnflushedChanges(c)
           done == [pushed EXCEPT !.latestConnectRequestId = NoRequest,
                                  !.lastServerClock = event.serverClock,
                                  !.loaded = TRUE,
                                  !.astray = astray]
<1>1. hydrated \in Stores
  BY HydratedType
<1>2. c.speculativeChanges \in DocChanges
  BY DEF Client
<1>3. /\ reapplied \in Stores
      /\ \A p \in RecordIds \ Ids : reapplied[p] = hydrated[p]
  <2> HIDE DEF hydrated
  <2> QED BY <1>1, <1>2, ApplyDocChanges
<1>4. difference \in DocChanges
  <2> HIDE DEF hydrated, reapplied
  <2> QED BY <1>1, <1>3, DocumentsBetween
<1>5. there \in Client
  <2> HIDE DEF reapplied
  <2> QED BY <1>3, RemoteChangeType
<1>6. rebased \in Client
  <2> HIDE DEF there
  <2>1. NoChanges \in DocChanges
    BY NoChangesInDiffs DEF DocChanges
  <2> QED BY <1>5, <2>1 DEF Client
<1>7. pushed \in Client
  <2> HIDE DEF rebased, difference
  <2> QED BY <1>4, <1>6, PushType
<1>8. answered \in Client
  BY DEF Client, NoRequest
<1>9. ResetConnection(answered, TRUE) \in Client
  <2> HIDE DEF answered
  <2> QED BY <1>8, ResetConnectionType
<1>10. done \in Client
  <2> HIDE DEF pushed
  <2>1. astray \in BOOLEAN /\ event.serverClock \in Nat /\ NoRequest \in Nat
    BY <1>7 DEF Client, HasUnflushedChanges, ConnectEvent, NoRequest
  <2> HIDE DEF astray
  <2> QED BY <1>7, <2>1 DEF Client
<1>11. DidReconnect(c, event) = c \/ DidReconnect(c, event) = ResetConnection(answered, TRUE)
       \/ DidReconnect(c, event) = done
  BY DEF DidReconnect
<1> QED BY <1>8, <1>9, <1>10, <1>11

\* Every message of the server keeps its client typed.
LEMMA HandleServerEventType ==
    ASSUME NEW c \in Client, NEW event \in ServerMessage
    PROVE  HandleServerEvent(c, event) \in Client
<1>1. CASE event.type = "connect"
  <2>1. event \in ConnectEvent
    BY <1>1 DEF ServerMessage, ConnectEvent
  <2> QED BY <1>1, <2>1, DidReconnectType DEF HandleServerEvent
<1>2. CASE event.type = "data" /\ c.isConnectedToRoom
  <2> DEFINE buffer == c.incomingDiffBuffer \o event.data
  <2>1. buffer \in Seq(DataMessage)
    BY <1>2 DEF ServerMessage, Client
  <2>2. HandleServerEvent(c, event) = [c EXCEPT !.incomingDiffBuffer = buffer]
    BY <1>2 DEF HandleServerEvent
  <2> HIDE DEF buffer
  <2> QED BY <2>1, <2>2 DEF Client
<1>3. CASE event.type # "connect" /\ ~(event.type = "data" /\ c.isConnectedToRoom)
  BY <1>3 DEF HandleServerEvent
<1> QED BY <1>1, <1>2, <1>3

-----------------------------------------------------------------------------
(***************************************************************************)
(* The answers in a sequence of events, and what a client that receives    *)
(* the events does with its requests.                                      *)
(***************************************************************************)
\* One more event.
LEMMA AnsweredAppend ==
    ASSUME NEW events \in Seq(DataMessage), NEW event \in DataMessage
    PROVE  AnsweredBy(Append(events, event)) = AddAnswer(AnsweredBy(events), event)
<1>1. Answering!Fold(<<>>, Append(events, event))
        = AddAnswer(Answering!Fold(<<>>, events), event)
  BY Answering!FoldAppend
<1> QED BY <1>1, ClientFolds

\* A clock that is collected from an answer is a natural number.
LEMMA AddAnswerType ==
    ASSUME NEW clocks \in Seq(Nat), NEW event \in DataMessage
    PROVE  AddAnswer(clocks, event) \in Seq(Nat)
<1>1. IsAnswer(event) => event.clientClock \in Nat
  BY DEF IsAnswer, DataMessage
<1> QED BY <1>1 DEF AddAnswer

\* The clocks that a buffer answers are natural numbers.
LEMMA AnsweredByType ==
    ASSUME NEW events \in Seq(DataMessage)
    PROVE  AnsweredBy(events) \in Seq(Nat)
<1>1. <<>> \in Seq(Nat)
  OBVIOUS
<1>2. Answering!Fold(<<>>, events) \in Seq(Nat)
  BY <1>1, AddAnswerType, Answering!FoldKeeps
<1> QED BY <1>2, ClientFolds

\* Answers only add up.
LEMMA MoreAnswers ==
    ASSUME NEW events \in Seq(DataMessage), NEW ans,
           ans[0] = <<>>,
           \A i \in 1..Len(events) : ans[i] = AddAnswer(ans[i - 1], events[i])
    PROVE  \A i \in 0..Len(events) :
             ans[i] \in Seq(Nat) /\ Len(ans[i]) <= Len(ans[Len(events)])
<1> DEFINE n == Len(events)
           S == {i \in Nat : i <= n => ans[i] \in Seq(Nat)}
           R == {k \in Nat : k <= n => Len(ans[n - k]) <= Len(ans[n])}
<1>1. 0 \in S
  <2>1. <<>> \in Seq(Nat)
    OBVIOUS
  <2> QED BY <2>1
<1>2. ASSUME NEW i \in Nat, i \in S PROVE i + 1 \in S
  <2> SUFFICES ASSUME i + 1 <= n PROVE ans[i + 1] \in Seq(Nat)
    OBVIOUS
  <2>1. /\ ans[i + 1] = AddAnswer(ans[i], events[i + 1])
        /\ events[i + 1] \in DataMessage
    OBVIOUS
  <2>2. ans[i] \in Seq(Nat)
    BY <1>2
  <2> HIDE DEF S, n
  <2>3. AddAnswer(ans[i], events[i + 1]) \in Seq(Nat)
    BY <2>1, <2>2, AddAnswerType
  <2> QED BY <2>1, <2>3
<1>3. Nat \subseteq S
  <2> HIDE DEF S
  <2> QED BY <1>1, <1>2, Receiving!SetInduction
<1>4. \A i \in 0..n : ans[i] \in Seq(Nat)
  BY <1>3
<1>5. ASSUME NEW k \in Nat, k \in R PROVE k + 1 \in R
  <2> SUFFICES ASSUME k + 1 <= n PROVE Len(ans[n - (k + 1)]) <= Len(ans[n])
    OBVIOUS
  <2> DEFINE i == n - k
  <2>1. i \in 1..n /\ i - 1 = n - (k + 1) /\ i - 1 \in 0..n
    OBVIOUS
  <2>2. ans[i] = AddAnswer(ans[i - 1], events[i])
    BY <2>1
  <2>3. ans[i - 1] \in Seq(Nat) /\ ans[i] \in Seq(Nat) /\ ans[n] \in Seq(Nat)
    BY <1>4, <2>1
  <2>4. Len(ans[i - 1]) <= Len(ans[i])
    BY <2>2, <2>3 DEF AddAnswer
  <2>5. Len(ans[i]) <= Len(ans[n])
    BY <1>5
  <2> HIDE DEF i
  <2>6. /\ Len(ans[i - 1]) \in Nat /\ Len(ans[i]) \in Nat /\ Len(ans[n]) \in Nat
    BY <2>3
  <2> QED BY <2>1, <2>4, <2>5, <2>6, SMTT(30)
<1>6. Nat \subseteq R
  <2>1. 0 \in R
    BY <1>4
  <2> HIDE DEF R
  <2> QED BY <1>5, <2>1, Receiving!SetInduction
<1>7. ASSUME NEW i \in 0..n PROVE Len(ans[i]) <= Len(ans[n])
  <2>1. n - i \in R /\ n - i <= n /\ n - (n - i) = i
    BY <1>6
  <2> QED BY <2>1
<1> QED BY <1>4, <1>7

\* One event, which answers the request at the front if it answers one.
LEMMA ReceiveType ==
    ASSUME NEW c \in Client, NEW event \in DataMessage,
           IsAnswer(event) => c.pendingPushRequests # <<>>
    PROVE  /\ Receive(c, event) \in Client
           /\ Receive(c, event)
                = [c EXCEPT !.store = Receive(c, event).store,
                            !.pendingPushRequests =
                                IF IsAnswer(event) THEN Tail(@) ELSE @]
<1> DEFINE diff == CASE ~IsAnswer(event)           -> event.diff
                     [] IsAnswer(event) /\ event.action = "discard" -> EmptyDiff
                     [] IsAnswer(event) /\ event.action = "commit" ->
                          Head(c.pendingPushRequests).diff
                     [] IsAnswer(event) /\ event.action = "rebase" -> event.diff
           next == ApplyNetworkDiff(c.store, diff)
           reqs == IF IsAnswer(event) THEN Tail(c.pendingPushRequests)
                   ELSE c.pendingPushRequests
<1>1. diff \in NetworkDiff
  <2>1. CASE ~IsAnswer(event)
    BY <2>1 DEF IsAnswer, DataMessage
  <2>2. CASE IsAnswer(event) /\ event.action = "discard"
    BY <2>2, EmptyDiffType
  <2>3. CASE IsAnswer(event) /\ event.action = "commit"
    <3>1. Head(c.pendingPushRequests) \in DocRequest
      BY <2>3 DEF Client
    <3> QED BY <2>3, <3>1 DEF DocRequest, DocDiffs
  <2>4. CASE IsAnswer(event) /\ event.action = "rebase"
    BY <2>4 DEF IsAnswer, DataMessage
  <2> QED BY <2>1, <2>2, <2>3, <2>4 DEF IsAnswer, DataMessage
<1>2. c.store \in Stores /\ c.pendingPushRequests \in Seq(DocRequest)
  BY DEF Client
<1>3. Receive(c, event) = [c EXCEPT !.store = next, !.pendingPushRequests = reqs]
  BY DEF Receive
<1> HIDE DEF diff
<1>4. next \in Stores
  BY <1>1, <1>2, ApplyNetworkDiffType DEF Stores
<1>5. reqs \in Seq(DocRequest)
  BY <1>2
<1> HIDE DEF next, reqs
<1>6. Receive(c, event) \in Client
  BY <1>3, <1>4, <1>5 DEF Client
<1>7. Receive(c, event).store = next
  BY <1>3 DEF Client
<1> QED BY <1>3, <1>6, <1>7 DEF reqs

\* The requests that are left when the first k are gone.
Rest(reqs, k) == SubSeq(reqs, k + 1, Len(reqs))

\* Dropping the answered requests is dropping a prefix.
LEMMA RestIs ==
    ASSUME NEW T, NEW reqs \in Seq(T)
    PROVE  /\ Rest(reqs, 0) = reqs
           /\ \A k \in 0..Len(reqs) :
                /\ Rest(reqs, k) \in Seq(T)
                /\ Len(Rest(reqs, k)) = Len(reqs) - k
                /\ \A i \in 1..Len(reqs) - k : Rest(reqs, k)[i] = reqs[k + i]
           /\ \A k \in 0..Len(reqs) - 1 : Tail(Rest(reqs, k)) = Rest(reqs, k + 1)
<1>1. Rest(reqs, 0) = reqs
  BY DEF Rest
<1>2. ASSUME NEW k \in 0..Len(reqs)
      PROVE  /\ Rest(reqs, k) \in Seq(T)
             /\ Len(Rest(reqs, k)) = Len(reqs) - k
             /\ \A i \in 1..Len(reqs) - k : Rest(reqs, k)[i] = reqs[k + i]
  BY DEF Rest
<1>3. ASSUME NEW k \in 0..Len(reqs) - 1
      PROVE  Tail(Rest(reqs, k)) = Rest(reqs, k + 1)
  <2> DEFINE a == Tail(Rest(reqs, k))
             b == Rest(reqs, k + 1)
  <2>1. k \in 0..Len(reqs) /\ k + 1 \in 0..Len(reqs)
    OBVIOUS
  <2>2. /\ Rest(reqs, k) \in Seq(T) /\ Len(Rest(reqs, k)) = Len(reqs) - k
        /\ \A i \in 1..Len(reqs) - k : Rest(reqs, k)[i] = reqs[k + i]
    BY <1>2, <2>1
  <2>3. /\ b \in Seq(T) /\ Len(b) = Len(reqs) - (k + 1)
        /\ \A i \in 1..Len(reqs) - (k + 1) : b[i] = reqs[k + 1 + i]
    BY <1>2, <2>1
  <2>4. a \in Seq(T) /\ Len(a) = Len(reqs) - (k + 1)
    BY <2>2
  <2>5. \A i \in 1..Len(reqs) - (k + 1) : a[i] = reqs[k + 1 + i]
    BY <2>2
  <2> HIDE DEF a, b
  <2>6. a = b
    BY <2>3, <2>4, <2>5, SMTT(30)
  <2> QED BY <2>6 DEF a, b
<1> QED BY <1>1, <1>2, <1>3

\* A client that receives answers to requests it has, and to no others, is left
\* with the other requests.
LEMMA ReceiveAll ==
    ASSUME NEW c \in Client, NEW events \in Seq(DataMessage),
           Len(AnsweredBy(events)) <= Len(c.pendingPushRequests)
    PROVE  /\ FoldLeft(Receive, c, events) \in Client
           /\ FoldLeft(Receive, c, events)
                = [c EXCEPT !.store = FoldLeft(Receive, c, events).store,
                            !.pendingPushRequests =
                                Rest(@, Len(AnsweredBy(events)))]
<1> DEFINE n == Len(events)
           reqs == c.pendingPushRequests
           Left(d, k) == d = [c EXCEPT !.store = d.store,
                                       !.pendingPushRequests = Rest(reqs, k)]
<1>1. PICK acc : /\ acc[0] = c
                 /\ \A i \in 1..Len(events) : acc[i] = Receive(acc[i - 1], events[i])
                 /\ Receiving!Fold(c, events) = acc[Len(events)]
  BY Receiving!FoldTrace
<1>2. PICK ans : /\ ans[0] = <<>>
                 /\ \A i \in 1..Len(events) : ans[i] = AddAnswer(ans[i - 1], events[i])
                 /\ Answering!Fold(<<>>, events) = ans[Len(events)]
  BY Answering!FoldTrace
<1>3. \A i \in 0..n : ans[i] \in Seq(Nat) /\ Len(ans[i]) <= Len(ans[n])
  BY <1>2, MoreAnswers
<1>4. Len(ans[n]) <= Len(reqs)
  BY <1>2, ClientFolds
<1>5. reqs \in Seq(DocRequest) /\ n \in Nat
  BY DEF Client
<1> DEFINE S == {i \in Nat : i <= n => acc[i] \in Client /\ Left(acc[i], Len(ans[i]))}
<1>6. 0 \in S
  <2>1. Rest(reqs, 0) = reqs /\ Len(ans[0]) = 0 /\ acc[0] = c
    BY <1>1, <1>2, <1>5, RestIs
  <2>2. c = [c EXCEPT !.store = c.store, !.pendingPushRequests = reqs]
    BY DEF Client
  <2> QED BY <2>1, <2>2
<1>7. ASSUME NEW i \in Nat, i \in S PROVE i + 1 \in S
  <2> SUFFICES ASSUME i + 1 <= n
               PROVE  acc[i + 1] \in Client /\ Left(acc[i + 1], Len(ans[i + 1]))
    OBVIOUS
  <2> DEFINE d == acc[i]
             e == events[i + 1]
             k == Len(ans[i])
  <2>1. acc[i + 1] = Receive(d, e) /\ e \in DataMessage /\ i \in 0..n /\ i + 1 \in 0..n
    BY <1>1
  <2>2. ans[i + 1] = AddAnswer(ans[i], e)
    BY <1>2
  <2>3. d \in Client /\ Left(d, k)
    BY <1>7
  <2>4. /\ ans[i] \in Seq(Nat) /\ ans[i + 1] \in Seq(Nat) /\ k \in Nat
        /\ k <= Len(reqs) /\ Len(ans[i + 1]) <= Len(reqs)
    BY <1>3, <1>4, <1>5, <2>1, SMTT(30)
  <2>5. d.pendingPushRequests = Rest(reqs, k)
    BY <2>3 DEF Client
  <2> HIDE DEF d, e, k, Left
  <2>6. IsAnswer(e) => Len(ans[i + 1]) = k + 1
    BY <2>2, <2>4 DEF AddAnswer, k
  <2>7. ~IsAnswer(e) => Len(ans[i + 1]) = k
    BY <2>2 DEF AddAnswer, k
  <2>8. Len(Rest(reqs, k)) = Len(reqs) - k /\ Rest(reqs, k) \in Seq(DocRequest)
    <3>1. k \in 0..Len(reqs)
      BY <1>5, <2>4
    <3> HIDE DEF reqs
    <3> QED BY <1>5, <3>1, RestIs
  <2>9. IsAnswer(e) => d.pendingPushRequests # <<>>
    <3>1. IsAnswer(e) => Len(d.pendingPushRequests) # 0
      BY <1>5, <2>4, <2>5, <2>6, <2>8
    <3> QED BY <3>1
  <2>10. /\ Receive(d, e) \in Client
         /\ Receive(d, e) = [d EXCEPT !.store = Receive(d, e).store,
                                      !.pendingPushRequests =
                                          IF IsAnswer(e) THEN Tail(@) ELSE @]
    BY <2>1, <2>3, <2>9, ReceiveType
  <2>11. IsAnswer(e) => Tail(Rest(reqs, k)) = Rest(reqs, k + 1)
    BY <1>5, <2>4, <2>6, RestIs
  <2>12. Receive(d, e) = [d EXCEPT !.store = Receive(d, e).store,
                                   !.pendingPushRequests = Rest(reqs, Len(ans[i + 1]))]
    <3>1. Rest(reqs, Len(ans[i + 1])) = IF IsAnswer(e) THEN Tail(d.pendingPushRequests)
                                        ELSE d.pendingPushRequests
      BY <2>5, <2>6, <2>7, <2>11
    <3> QED BY <2>10, <3>1
  <2>13. d = [c EXCEPT !.store = d.store, !.pendingPushRequests = Rest(reqs, k)]
    BY <2>3 DEF Left
  <2>14. Receive(d, e) = [c EXCEPT !.store = Receive(d, e).store,
                                   !.pendingPushRequests = Rest(reqs, Len(ans[i + 1]))]
    BY <2>12, <2>13 DEF Client
  <2> QED BY <2>1, <2>10, <2>14 DEF Left
<1>8. Nat \subseteq S
  <2> HIDE DEF S
  <2> QED BY <1>6, <1>7, Receiving!SetInduction
<1>9. acc[n] \in Client /\ Left(acc[n], Len(ans[n]))
  <2>1. n \in S
    <3> HIDE DEF S, n
    <3> QED BY <1>5, <1>8
  <2> HIDE DEF Left
  <2> QED BY <1>5, <2>1
<1>10. FoldLeft(Receive, c, events) = acc[n] /\ AnsweredBy(events) = ans[n]
  BY <1>1, <1>2, ClientFolds
<1> QED BY <1>9, <1>10

\* What a step of the loop over the pending requests leaves.
Again == [store : Stores, changes : DocChanges, failed : BOOLEAN,
          early : SUBSET Ids]

\* Reapplying a pending request keeps the store typed.
LEMMA ReapplyType ==
    ASSUME NEW acc \in Again, NEW req \in DocRequest
    PROVE  Reapply(acc, req) \in Again
<1> DEFINE next == ApplyNetworkDiff(acc.store, req.diff)
           difference == Between(acc.store, next)
           squashed == Squash(acc.changes, difference)
           written == WrittenBeforeFailure(acc.store, req.diff, acc.early)
<1>1. acc.store \in Stores /\ acc.changes \in DocChanges /\ req.diff \in DocDiffs
  BY DEF Again, DocRequest
<1>2. next \in Stores /\ \A p \in RecordIds \ Ids : next[p] = acc.store[p]
  BY <1>1, ApplyDocDiff
<1>3. difference \in DocChanges
  <2> HIDE DEF next
  <2> QED BY <1>1, <1>2, DocumentsBetween
<1>4. squashed \in DocChanges
  <2> HIDE DEF difference
  <2> QED BY <1>1, <1>3, SquashDocChanges
<1>5. written \in Stores
  BY <1>1, <1>2 DEF WrittenBeforeFailure, Stores
<1>6. \/ Reapply(acc, req) = acc
      \/ Reapply(acc, req) = [acc EXCEPT !.failed = TRUE, !.store = written]
      \/ Reapply(acc, req) = [acc EXCEPT !.store = next, !.changes = squashed]
  BY DEF Reapply
<1> HIDE DEF next, squashed, written
<1> QED BY <1>2, <1>4, <1>5, <1>6 DEF Again

(***************************************************************************)
(* What the listener and the pushes leave alone: requests that are there   *)
(* stay, those that are new are at the end and were not sent.              *)
(***************************************************************************)
MoreUnsent(reqs, more) ==
    /\ Len(reqs) <= Len(more)
    /\ \A i \in 1..Len(reqs) :
         /\ more[i].sent = reqs[i].sent
         /\ more[i].clientClock = reqs[i].clientClock
         /\ more[i].diff = reqs[i].diff
         /\ reqs[i].sent => more[i].presence = reqs[i].presence
    /\ \A i \in Len(reqs) + 1..Len(more) : ~more[i].sent

Pushed(c, d) ==
    /\ d = [c EXCEPT !.history = d.history,
                     !.speculativeChanges = d.speculativeChanges,
                     !.pendingPushRequests = d.pendingPushRequests,
                     !.clientClock = d.clientClock]
    /\ MoreUnsent(c.pendingPushRequests, d.pendingPushRequests)
    /\ ~c.isConnectedToRoom => d.pendingPushRequests = c.pendingPushRequests

\* Appending unsent requests twice is appending unsent requests.
LEMMA MoreUnsentTransitive ==
    ASSUME NEW a \in Seq(DocRequest), NEW b \in Seq(DocRequest),
           NEW c \in Seq(DocRequest), MoreUnsent(a, b), MoreUnsent(b, c)
    PROVE  MoreUnsent(a, c)
<1>1. /\ Len(a) \in Nat /\ Len(b) \in Nat /\ Len(c) \in Nat
      /\ Len(a) <= Len(b) /\ Len(b) <= Len(c)
  BY DEF MoreUnsent
<1>2. ASSUME NEW i \in 1..Len(a)
      PROVE  /\ c[i].sent = a[i].sent /\ c[i].clientClock = a[i].clientClock
             /\ c[i].diff = a[i].diff
             /\ a[i].sent => c[i].presence = a[i].presence
  <2>1. i \in 1..Len(b)
    BY <1>1
  <2> QED BY <2>1 DEF MoreUnsent
<1>3. ASSUME NEW i \in Len(a) + 1..Len(c) PROVE ~c[i].sent
  <2>1. CASE i <= Len(b)
    <3>1. i \in 1..Len(b) /\ i \in Len(a) + 1..Len(b)
      BY <1>1, <2>1
    <3> QED BY <3>1 DEF MoreUnsent
  <2>2. CASE i > Len(b)
    <3>1. i \in Len(b) + 1..Len(c)
      BY <1>1, <2>2
    <3> QED BY <3>1 DEF MoreUnsent
  <2> QED BY <1>1, <2>1, <2>2
<1> QED BY <1>1, <1>2, <1>3 DEF MoreUnsent

\* A new request.
LEMMA AddPushRequestPushed ==
    ASSUME NEW c \in Client, NEW diff, NEW presence
    PROVE  /\ AddPushRequest(c, diff, presence)
                = [c EXCEPT !.pendingPushRequests =
                       AddPushRequest(c, diff, presence).pendingPushRequests,
                     !.clientClock = AddPushRequest(c, diff, presence).clientClock]
           /\ MoreUnsent(c.pendingPushRequests,
                         AddPushRequest(c, diff, presence).pendingPushRequests)
<1> DEFINE req == [diff |-> diff, presence |-> presence,
                   clientClock |-> c.clientClock, sent |-> FALSE]
           reqs == c.pendingPushRequests
           more == Append(reqs, req)
<1>1. AddPushRequest(c, diff, presence)
        = [c EXCEPT !.pendingPushRequests = more,
                    !.clientClock = c.clientClock + 1]
  BY DEF AddPushRequest
<1>2. reqs \in Seq(DocRequest)
  BY DEF Client
<1>3. ~req.sent
  OBVIOUS
<1> HIDE DEF req, reqs
<1>4. /\ Len(more) = Len(reqs) + 1 /\ Len(reqs) \in Nat
      /\ \A i \in 1..Len(reqs) : more[i] = reqs[i]
      /\ more[Len(reqs) + 1] = req
  BY <1>2
<1> HIDE DEF more
<1>5. MoreUnsent(reqs, more)
  <2>1. \A i \in Len(reqs) + 1..Len(more) : i = Len(reqs) + 1
    BY <1>4
  <2> QED BY <1>3, <1>4, <2>1 DEF MoreUnsent
<1>6. /\ AddPushRequest(c, diff, presence).pendingPushRequests = more
      /\ AddPushRequest(c, diff, presence).clientClock = c.clientClock + 1
  BY <1>1 DEF Client
<1> QED BY <1>1, <1>5, <1>6 DEF reqs

\* Appending nothing is appending unsent requests.
LEMMA NothingMoreUnsent ==
    ASSUME NEW reqs \in Seq(DocRequest) PROVE MoreUnsent(reqs, reqs)
<1>1. Len(reqs) \in Nat
  OBVIOUS
<1> QED BY <1>1 DEF MoreUnsent

\* push only appends an unsent request.
LEMMA PushPushed ==
    ASSUME NEW c \in Client, NEW change \in DocChanges
    PROVE  Pushed(c, Push(c, change))
<1> DEFINE diff == GetNetworkDiff(change)
           squashed == Squash(c.speculativeChanges, change)
           stashed == [c EXCEPT !.speculativeChanges = squashed]
           added == AddPushRequest(stashed, diff, NoOp)
<1>1. squashed \in DocChanges
  BY SquashDocChanges DEF Client
<1>2. \/ Push(c, change) = c
      \/ Push(c, change) = stashed
      \/ Push(c, change) = added /\ c.isConnectedToRoom
  BY DEF Push
<1> HIDE DEF squashed, diff
<1>3. stashed \in Client /\ c.pendingPushRequests \in Seq(DocRequest)
  BY <1>1 DEF Client
<1>4. Pushed(c, c)
  BY <1>3, NothingMoreUnsent DEF Pushed, Client
<1>5. Pushed(c, stashed)
  BY <1>3, NothingMoreUnsent DEF Pushed, Client
<1>6. c.isConnectedToRoom => Pushed(c, added)
  <2>1. /\ added = [stashed EXCEPT !.pendingPushRequests = added.pendingPushRequests,
                                   !.clientClock = added.clientClock]
        /\ MoreUnsent(stashed.pendingPushRequests, added.pendingPushRequests)
    <3> HIDE DEF stashed
    <3> QED BY <1>3, AddPushRequestPushed
  <2> HIDE DEF added
  <2>2. added = [c EXCEPT !.speculativeChanges = added.speculativeChanges,
                          !.pendingPushRequests = added.pendingPushRequests,
                          !.clientClock = added.clientClock]
    BY <2>1 DEF Client
  <2>3. added = [c EXCEPT !.history = added.history,
                          !.speculativeChanges = added.speculativeChanges,
                          !.pendingPushRequests = added.pendingPushRequests,
                          !.clientClock = added.clientClock]
    BY <2>2 DEF Client
  <2>4. stashed.pendingPushRequests = c.pendingPushRequests
    BY DEF Client
  <2> QED BY <2>1, <2>3, <2>4 DEF Pushed
<1> QED BY <1>2, <1>4, <1>5, <1>6

\* Two operations that only push make one.
LEMMA PushedTransitive ==
    ASSUME NEW a \in Client, NEW b \in Client, NEW c \in Client,
           Pushed(a, b), Pushed(b, c)
    PROVE  Pushed(a, c)
<1>1. /\ a.pendingPushRequests \in Seq(DocRequest)
      /\ b.pendingPushRequests \in Seq(DocRequest)
      /\ c.pendingPushRequests \in Seq(DocRequest)
  BY DEF Client
<1>2. MoreUnsent(a.pendingPushRequests, c.pendingPushRequests)
  BY <1>1, MoreUnsentTransitive DEF Pushed
<1>3. c = [a EXCEPT !.history = c.history,
                    !.speculativeChanges = c.speculativeChanges,
                    !.pendingPushRequests = c.pendingPushRequests,
                    !.clientClock = c.clientClock]
  BY DEF Pushed, Client
<1>4. b.isConnectedToRoom = a.isConnectedToRoom
  BY DEF Pushed, Client
<1> QED BY <1>2, <1>3, <1>4 DEF Pushed

\* Flushing the history only pushes.
LEMMA FlushHistoryPushed ==
    ASSUME NEW c \in Client
    PROVE  Pushed(c, FlushHistory(c)) /\ FlushHistory(c) \in Client
<1> DEFINE base == [c EXCEPT !.history = <<>>]
           U == {u \in Client : Pushed(c, u)}
<1>1. base \in Client /\ c.history \in Seq(DocChanges)
  <2>1. <<>> \in Seq(DocChanges)
    OBVIOUS
  <2> QED BY <2>1 DEF Client
<1>2. base \in U
  <2>1. c.pendingPushRequests \in Seq(DocRequest)
    BY DEF Client
  <2> QED BY <1>1, <2>1, NothingMoreUnsent DEF Pushed, Client
<1> HIDE DEF base
<1>3. \A u \in U, e \in DocChanges : Push(u, e) \in U
  BY PushType, PushPushed, PushedTransitive
<1> HIDE DEF U
<1>4. Pushing!Fold(base, c.history) \in U
  BY <1>1, <1>2, <1>3, Pushing!FoldKeeps
<1> QED BY <1>4, ClientFolds DEF base, U

\* The store a rebase rebuilds, and the requests it keeps, are typed.
LEMMA RebaseOntoType ==
    ASSUME NEW c \in Client, NEW early \in SUBSET Ids, AnswersMatch(c),
           c.incomingDiffBuffer # <<>>
    PROVE  RebaseOnto(c, early) \in Client
<1> DEFINE events == c.incomingDiffBuffer
           undoneStore == ApplyChanges(c.store, ReverseRecordsDiff(c.speculativeChanges))
           undone == [c EXCEPT !.store = undoneStore]
           received == FoldLeft(Receive, undone, events)
           base == [store |-> received.store, changes |-> NoChanges,
                    failed |-> FALSE, early |-> early]
           again == FoldLeft(Reapply, base, received.pendingPushRequests)
           there == RemoteChange(c, again.store)
           changes == IF again.failed THEN NoChanges ELSE again.changes
           atClock == Last(events).serverClock
           astray == there.astray \/ (again.failed /\ again.store # received.store)
           rebased == [there EXCEPT
                         !.pendingPushRequests = received.pendingPushRequests,
                         !.speculativeChanges = changes,
                         !.incomingDiffBuffer = <<>>,
                         !.lastServerClock = atClock,
                         !.astray = astray]
<1>1. /\ c.store \in Stores /\ c.speculativeChanges \in DocChanges
      /\ events \in Seq(DataMessage) /\ events # <<>>
  BY DEF Client
<1>2. undoneStore \in Stores
  BY <1>1, ReverseDocChanges, ApplyDocChanges
<1>3. undone \in Client /\ undone.pendingPushRequests = c.pendingPushRequests
  <2> HIDE DEF undoneStore
  <2> QED BY <1>2 DEF Client
<1>4. Len(AnsweredBy(events)) <= Len(undone.pendingPushRequests)
  BY <1>3 DEF AnswersMatch
<1>5. received \in Client
  <2> HIDE DEF undone
  <2> QED BY <1>1, <1>3, <1>4, ReceiveAll
<1>6. NoChanges \in DocChanges
  BY NoChangesInDiffs DEF DocChanges
<1>7. again \in Again
  <2> HIDE DEF received
  <2>1. base \in Again /\ received.pendingPushRequests \in Seq(DocRequest)
    BY <1>5, <1>6 DEF Again, Client
  <2> HIDE DEF base
  <2>2. Reapplying!Fold(base, received.pendingPushRequests) \in Again
    BY <2>1, ReapplyType, Reapplying!FoldKeeps
  <2> QED BY <2>2, ClientFolds
<1> HIDE DEF received, again
<1>8. there \in Client
  BY <1>7, RemoteChangeType DEF Again
<1>9. /\ changes \in DocChanges /\ atClock \in Nat /\ astray \in BOOLEAN
      /\ received.pendingPushRequests \in Seq(DocRequest)
      /\ <<>> \in Seq(DataMessage)
  <2>1. Last(events) \in DataMessage
    BY <1>1 DEF Last
  <2>2. atClock \in Nat
    BY <2>1 DEF DataMessage
  <2>3. astray \in BOOLEAN
    BY <1>7, <1>8 DEF Again, Client
  <2> QED BY <1>5, <1>6, <1>7, <2>2, <2>3 DEF Again, Client
<1>10. RebaseOnto(c, early) = IF again.failed THEN ResetConnection(rebased, FALSE)
                              ELSE rebased
  BY DEF RebaseOnto, received, again
<1> HIDE DEF changes, atClock, astray, there
<1>11. rebased \in Client
  BY <1>8, <1>9 DEF Client
<1> HIDE DEF rebased
<1> QED BY <1>10, <1>11, ResetConnectionType

\* rebase keeps a client typed, the failing one included.
LEMMA RebaseType ==
    ASSUME NEW c \in Client, NEW early \in SUBSET Ids, c.incomingDiffBuffer # <<>>
    PROVE  Rebase(c, early) \in Client
<1> DEFINE flushed == FlushHistory(c)
<1>1. Pushed(c, flushed) /\ flushed \in Client
  BY FlushHistoryPushed
<1> HIDE DEF flushed
<1>4. flushed.incomingDiffBuffer = c.incomingDiffBuffer
  BY <1>1 DEF Pushed, Client
<1>2. AnswersMatch(flushed) => RebaseOnto(flushed, early) \in Client
  BY <1>1, <1>4, RebaseOntoType
<1>3. ResetConnection(flushed, FALSE) \in Client
  BY <1>1, ResetConnectionType
<1> QED BY <1>2, <1>3 DEF Rebase, flushed

-----------------------------------------------------------------------------
(***************************************************************************)
(* Every step keeps the types, and what it makes of the room is a step of  *)
(* a room in an open environment.                                          *)
(***************************************************************************)
\* One client after a step of its own.
LEMMA OneClientTyped ==
    ASSUME SyncTyping, NEW s \in SessionIds, NEW d \in Client,
           clients' = [clients EXCEPT ![s] = d], UNCHANGED <<late, scenario>>
    PROVE  SyncTyping'
BY DEF SyncTyping

\* The ghost of the scenario stays typed.
LEMMA ScenarioType ==
    ASSUME SyncTyping
    PROVE  /\ \A s \in SessionIds, id \in Ids : scenario.edits[s][id] \subseteq MaybeRecord
           /\ scenario.moves \subseteq MaybeRecord
           /\ \A timedOut \in scenario.timeOuts : timedOut \in SUBSET SessionIds
<1>1. scenario \in Scenario
  BY SyncAssumption DEF SyncTyping
<1> QED BY <1>1 DEF Scenario, MaybeRecord

\* Counting an edit keeps a client typed.
LEMMA EditsType ==
    ASSUME NEW c \in Client
    PROVE  [c EXCEPT !.edits = @ + 1] \in Client
<1>1. c.edits + 1 \in Nat
  BY DEF Client
<1> QED BY <1>1 DEF Client

\* A step that changes one client by a typed one keeps the system typed.
LEMMA ClientStepTyped ==
    ASSUME SyncTyping, NEW s \in SessionIds, NEW d \in Client, ClientStep(s, d)
    PROVE  SyncTyping' /\ UNCHANGED vars
BY OneClientTyped DEF ClientStep

\* An edit keeps the system typed.
LEMMA EditTyped ==
    ASSUME SyncTyping, NEW s \in SessionIds, NEW id \in Ids,
           NEW record \in scenario.edits[s][id], Edit(s, id, record)
    PROVE  SyncTyping' /\ UNCHANGED vars
<1> DEFINE c == clients[s]
           changed == UserChange(c, [c.store EXCEPT ![id] = record])
           d == [changed EXCEPT !.edits = @ + 1]
<1>1. c \in Client /\ record \in MaybeRecord
  BY ScenarioType DEF SyncTyping
<1>2. changed \in Client
  <2> HIDE DEF c
  <2> QED BY <1>1, UserChangeType
<1>3. ClientStep(s, d)
  BY DEF Edit
<1> HIDE DEF changed
<1>4. d \in Client
  BY <1>2, EditsType
<1> HIDE DEF d
<1> QED BY <1>3, <1>4, ClientStepTyped

\* A move of the cursor keeps the system typed.
LEMMA MoveTyped ==
    ASSUME SyncTyping, NEW s \in SessionIds, NEW presence \in scenario.moves,
           Move(s, presence)
    PROVE  SyncTyping' /\ UNCHANGED vars
<1> DEFINE c == clients[s]
           changed == PushPresence(c, presence)
           d == [changed EXCEPT !.edits = @ + 1]
<1>1. c \in Client /\ presence \in MaybeRecord
  BY ScenarioType DEF SyncTyping
<1>2. changed \in Client
  <2> HIDE DEF c
  <2> QED BY <1>1, PushPresenceType
<1>3. ClientStep(s, d)
  BY DEF Move
<1> HIDE DEF changed
<1>4. d \in Client
  BY <1>2, EditsType
<1> HIDE DEF d
<1> QED BY <1>3, <1>4, ClientStepTyped

\* The flushes, the rebase and the loss of the connection keep the system typed.
LEMMA OwnStepsTyped ==
    ASSUME SyncTyping, NEW s \in SessionIds,
           \/ ListenerFlush(s) \/ SendPushes(s) \/ RunRebase(s) \/ LoseConnection(s)
    PROVE  SyncTyping' /\ UNCHANGED vars
<1> DEFINE c == clients[s]
<1>1. c \in Client
  BY DEF SyncTyping
<1>2. CASE ListenerFlush(s)
  <2>1. FlushHistory(c) \in Client
    BY <1>1, FlushHistoryType
  <2> QED BY <1>2, <2>1, ClientStepTyped DEF ListenerFlush
<1>3. CASE SendPushes(s)
  <2>1. FlushPendingPushRequests(c) \in Client
    BY <1>1, FlushPendingType
  <2> QED BY <1>3, <2>1, ClientStepTyped DEF SendPushes
<1>4. CASE RunRebase(s)
  <2>1. PICK early \in SUBSET Ids : ClientStep(s, Rebase(c, early))
    BY <1>4 DEF RunRebase
  <2>2. Rebase(c, early) \in Client
    BY <1>1, <1>4, RebaseType DEF RunRebase
  <2> QED BY <2>1, <2>2, ClientStepTyped
<1>5. CASE LoseConnection(s)
  <2>1. ConnectionLost(c, FALSE) \in Client
    BY <1>1, ConnectionLostType
  <2> QED BY <1>5, <2>1, ClientStepTyped DEF LoseConnection
<1> QED BY <1>2, <1>3, <1>4, <1>5

\* Opening a socket keeps the system typed.
LEMMA ConnectTyped ==
    ASSUME SyncTyping, NEW s \in SessionIds, Connect(s)
    PROVE  SyncTyping' /\ OpenNext
<1> DEFINE c == clients[s]
           d == SendConnectMessage([c EXCEPT !.out = <<>>])
           waiting == IF scenario.late THEN late[s] \o c.out ELSE <<>>
<1>1. c \in Client /\ late[s] \in Seq(ClientMessage)
  BY DEF SyncTyping
<1>2. d \in Client
  BY <1>1, SendConnectMessageType
<1>3. waiting \in Seq(ClientMessage)
  BY <1>1 DEF Client
<1>4. /\ clients' = [clients EXCEPT ![s] = d] /\ UNCHANGED scenario
      /\ late' = [late EXCEPT ![s] = waiting]
  BY DEF Connect
<1>5. OpenSessionNext(s)
  BY DEF Connect, OpenSessionNext
<1> HIDE DEF d, waiting
<1>6. SyncTyping'
  BY <1>2, <1>3, <1>4 DEF SyncTyping
<1> QED BY <1>5, <1>6 DEF OpenNext

\* What a client receives keeps the system typed.
LEMMA ClientReceiveTyped ==
    ASSUME SyncTyping, TypeOK, NEW s \in SessionIds, ClientReceive(s)
    PROVE  SyncTyping' /\ OpenNext
<1> DEFINE c == clients[s]
           msg == Head(sessions[s].wire)
           d == IF msg.type = "close" THEN ConnectionLost(c, msg.fatal)
                ELSE HandleServerEvent(c, msg)
<1>1. c \in Client
  BY DEF SyncTyping
<1>2. sessions[s].wire # <<>> /\ Deliver(s)
  BY DEF ClientReceive, Deliver
<1>3. msg \in ServerMessage
  BY <1>2 DEF TypeOK, Session
<1>4. msg.type = "close" => msg.fatal \in BOOLEAN
  BY <1>3 DEF ServerMessage
<1>5. clients' = [clients EXCEPT ![s] = d] /\ UNCHANGED <<late, scenario>>
  BY DEF ClientReceive
<1> HIDE DEF msg
<1>6. d \in Client
  <2> HIDE DEF c
  <2>1. CASE msg.type = "close"
    BY <1>1, <1>4, <2>1, ConnectionLostType
  <2>2. CASE msg.type # "close"
    BY <1>1, <1>3, <2>2, HandleServerEventType
  <2> QED BY <2>1, <2>2
<1> HIDE DEF d
<1>7. SyncTyping'
  BY <1>5, <1>6, OneClientTyped
<1> QED BY <1>2, <1>7 DEF OpenNext, OpenSessionNext

\* What the room does with a client's message.
LEMMA RoomHandlesOpen ==
    ASSUME NEW s \in SessionIds, NEW msg \in ClientMessage, RoomHandles(s, msg)
    PROVE  [OpenNext]_vars
<1>1. CASE /\ msg.type = "connect"
           /\ HandleConnectRequest(s, msg.lastServerClock, TLSYNC_PROTOCOL_VERSION,
                                   TRUE, msg.connectRequestId)
  <2>1. msg.lastServerClock \in Nat /\ msg.connectRequestId \in Nat
    BY <1>1 DEF ClientMessage
  <2>2. OpenSessionNext(s)
    BY <1>1, <2>1 DEF OpenSessionNext
  <2> QED BY <2>2 DEF OpenNext
<1>2. CASE /\ msg.type = "push"
           /\ HandlePushRequest(s, msg.diff, msg.presence, msg.clientClock)
  <2>1. /\ msg.diff \in DocDiffs /\ msg.presence \in PresencePushes
        /\ msg.clientClock \in Nat
    BY <1>2 DEF ClientMessage
  <2>2. OpenSessionNext(s)
    BY <1>2, <2>1 DEF OpenSessionNext
  <2> QED BY <2>2 DEF OpenNext
<1>3. CASE UNCHANGED vars
  BY <1>3
<1> QED BY <1>1, <1>2, <1>3 DEF RoomHandles

\* What the room receives keeps the system typed.
LEMMA RoomReceiveTyped ==
    ASSUME SyncTyping, NEW s \in SessionIds, RoomReceive(s) \/ RoomReceiveLate(s)
    PROVE  SyncTyping' /\ [OpenNext]_vars
<1> DEFINE c == clients[s]
<1>1. c \in Client /\ late[s] \in Seq(ClientMessage) /\ c.out \in Seq(ClientMessage)
  BY DEF SyncTyping, Client
<1>2. CASE RoomReceive(s)
  <2> DEFINE d == [c EXCEPT !.out = Tail(@)]
  <2>1. c.out # <<>> /\ clients' = [clients EXCEPT ![s] = d]
        /\ UNCHANGED <<late, scenario>> /\ RoomHandles(s, Head(c.out))
    BY <1>2 DEF RoomReceive
  <2>2. Head(c.out) \in ClientMessage /\ Tail(c.out) \in Seq(ClientMessage)
    BY <1>1, <2>1
  <2>3. d \in Client
    BY <1>1, <2>2 DEF Client
  <2>4. SyncTyping'
    <3> HIDE DEF d
    <3> QED BY <2>1, <2>3, OneClientTyped
  <2> QED BY <2>1, <2>2, <2>4, RoomHandlesOpen
<1>3. CASE RoomReceiveLate(s)
  <2> DEFINE astray == c.astray \/ Discards(s, Head(late[s]))
             d == [c EXCEPT !.astray = astray]
             left == Tail(late[s])
  <2>1. /\ late[s] # <<>> /\ clients' = [clients EXCEPT ![s] = d]
        /\ UNCHANGED scenario /\ RoomHandles(s, Head(late[s]))
        /\ late' = [late EXCEPT ![s] = left]
    BY <1>3 DEF RoomReceiveLate
  <2>2. Head(late[s]) \in ClientMessage /\ left \in Seq(ClientMessage)
    BY <1>1, <2>1
  <2>3. astray \in BOOLEAN
    BY <1>1 DEF Client, Discards
  <2> HIDE DEF astray
  <2>4. d \in Client
    BY <1>1, <2>3 DEF Client
  <2> HIDE DEF d, left
  <2>5. SyncTyping'
    BY <2>1, <2>2, <2>4 DEF SyncTyping
  <2> QED BY <2>1, <2>2, <2>5, RoomHandlesOpen
<1> QED BY <1>2, <1>3

\* The own steps of the room keep the system typed.
LEMMA RoomStepTyped ==
    ASSUME SyncTyping, RoomStep
    PROVE  SyncTyping' /\ OpenNext
<1>1. SyncTyping'
  BY DEF SyncTyping, RoomStep
<1>2. ASSUME NEW s \in SessionIds, \/ FlushTimer(s)
                                   \/ MayLose(s) /\ SocketCloses(s)
                                   \/ ~sessions[s].open /\ HandleClose(s)
      PROVE  OpenNext
  BY <1>2 DEF OpenNext, OpenSessionNext
<1>3. ASSUME NEW timedOut \in scenario.timeOuts, PruneSessions(timedOut)
      PROVE  OpenNext
  BY <1>3, ScenarioType DEF OpenNext
<1>4. PruneTombstones => OpenNext
  BY DEF OpenNext
<1> QED BY <1>1, <1>2, <1>3, <1>4 DEF RoomStep

\* Every step of clients, sockets and room.
LEMMA SyncNextTyped ==
    ASSUME SyncTyping, TypeOK, [SyncNext]_syncVars
    PROVE  SyncTyping' /\ [OpenNext]_vars
<1>1. ASSUME NEW s \in SessionIds, NEW id \in Ids,
             NEW record \in scenario.edits[s][id], Edit(s, id, record)
      PROVE  SyncTyping' /\ [OpenNext]_vars
  BY <1>1, EditTyped
<1>2. ASSUME NEW s \in SessionIds, NEW presence \in scenario.moves,
             Move(s, presence)
      PROVE  SyncTyping' /\ [OpenNext]_vars
  BY <1>2, MoveTyped
<1>3. ASSUME NEW s \in SessionIds,
             \/ ListenerFlush(s) \/ SendPushes(s) \/ RunRebase(s) \/ LoseConnection(s)
      PROVE  SyncTyping' /\ [OpenNext]_vars
  BY <1>3, OwnStepsTyped
<1>4. ASSUME NEW s \in SessionIds, Connect(s)
      PROVE  SyncTyping' /\ [OpenNext]_vars
  BY <1>4, ConnectTyped
<1>5. ASSUME NEW s \in SessionIds, ClientReceive(s)
      PROVE  SyncTyping' /\ [OpenNext]_vars
  BY <1>5, ClientReceiveTyped
<1>6. ASSUME NEW s \in SessionIds, RoomReceive(s) \/ RoomReceiveLate(s)
      PROVE  SyncTyping' /\ [OpenNext]_vars
  BY <1>6, RoomReceiveTyped
<1>7. RoomStep => SyncTyping' /\ [OpenNext]_vars
  BY RoomStepTyped
<1>8. UNCHANGED syncVars => SyncTyping' /\ [OpenNext]_vars
  BY DEF syncVars, SyncTyping, vars
<1> QED BY <1>1, <1>2, <1>3, <1>4, <1>5, <1>6, <1>7, <1>8 DEF SyncNext

\* The types hold of every reachable state.
LEMMA SyncTypingCorrect == SyncSpec => [](SyncTyping /\ TypeOK)
<1>1. SyncInit => SyncTyping /\ TypeOK
  <2> SUFFICES ASSUME SyncInit PROVE SyncTyping /\ TypeOK
    OBVIOUS
  <2>1. TypeOK
    BY InitType DEF SyncInit
  <2>2. <<>> \in Seq(ClientMessage)
    OBVIOUS
  <2> QED BY <2>1, <2>2, NewClientType DEF SyncInit, SyncTyping
<1>2. SyncTyping /\ TypeOK /\ [SyncNext]_syncVars => (SyncTyping /\ TypeOK)'
  BY SyncNextTyped, NextType
<1> QED BY <1>1, <1>2, PTL DEF SyncSpec

\* Whatever clients do, the room behaves as it does in an open environment.
LEMMA SyncRoomIsOpen == SyncSpec => OpenSpec
<1>1. SyncInit => Init
  BY DEF SyncInit
<1>2. SyncTyping /\ TypeOK /\ [SyncNext]_syncVars => [OpenNext]_vars
  BY SyncNextTyped
<1> QED BY <1>1, <1>2, SyncTypingCorrect, PTL DEF SyncSpec, OpenSpec

\* What clients hold is well formed.
LEMMA ClientIsClient ==
    ASSUME NEW c \in Client
    PROVE  IsClient(c)
<1>1. ASSUME NEW d \in DocChanges PROVE IsRecordsDiff(d)
  BY DocChangesHave DEF IsRecordsDiff, Touched, RecordIds
<1>2. c.pendingPushRequests \in Seq(PushRequest)
  <2>1. DocRequest \subseteq PushRequest
    BY DEF DocRequest, PushRequest, DocDiffs, PresencePushes
  <2> HIDE DEF DocRequest, PushRequest
  <2>2. c.pendingPushRequests \in Seq(DocRequest)
    BY DEF Client
  <2> QED BY <2>1, <2>2
<1>3. /\ \A i \in DOMAIN c.history : c.history[i] \in DocChanges
      /\ c.speculativeChanges \in DocChanges
  BY DEF Client
<1>4. \A i \in DOMAIN c.incomingDiffBuffer :
        c.incomingDiffBuffer[i].type \in {"patch", "push_result"}
  <2>1. \A m \in DataMessage : m.type \in {"patch", "push_result"}
    BY DEF DataMessage
  <2>2. c.incomingDiffBuffer \in Seq(DataMessage)
    BY DEF Client
  <2> QED BY <2>1, <2>2
<1>5. \A i \in DOMAIN c.out : c.out[i].type \in {"connect", "push"}
  <2>1. \A m \in ClientMessage : m.type \in {"connect", "push"}
    BY DEF ClientMessage
  <2>2. c.out \in Seq(ClientMessage)
    BY DEF Client
  <2> QED BY <2>1, <2>2
<1>6. /\ c.status \in {SocketOnline, SocketOffline, SocketClosed}
      /\ c.store \in [RecordIds -> MaybeRecord]
      /\ c.lastServerClock \in Nat /\ c.clientClock \in Nat
      /\ c.isConnectedToRoom \in BOOLEAN /\ c.latestConnectRequestId \in Nat
      /\ c.presence \in MaybeRecord /\ c.lastPushedPresenceState \in MaybeRecord
      /\ c.requests \in Nat /\ c.edits \in Nat
      /\ c.loaded \in BOOLEAN /\ c.astray \in BOOLEAN
  BY DEF Client, Stores
<1> QED BY <1>1, <1>2, <1>3, <1>4, <1>5, <1>6 DEF IsClient

\* No handler, listener or throttled function of a client leaves its records,
\* requests, buffer or messages malformed, whatever the room sends and in
\* whatever order they run.
THEOREM SyncTypesCorrect == SyncSpec => []SyncTypeOK
<1>1. ASSUME SyncTyping PROVE SyncTypeOK
  <2>1. \A s \in SessionIds : IsClient(clients[s])
    BY <1>1, ClientIsClient DEF SyncTyping
  <2>2. \A m \in ClientMessage : m.type \in {"connect", "push"}
    BY DEF ClientMessage
  <2>3. \A s \in SessionIds : late[s] \in Seq(ClientMessage)
    BY <1>1 DEF SyncTyping
  <2>4. \A s \in SessionIds : \A i \in DOMAIN late[s] :
          late[s][i].type \in {"connect", "push"}
    BY <2>2, <2>3
  <2> QED BY <2>1, <2>4 DEF SyncTypeOK
<1>2. SyncTyping => SyncTypeOK
  BY <1>1
<1> QED BY <1>2, SyncTypingCorrect, PTL

\* What the room promises to a session it promises to real clients too, with
\* whatever they push and whenever they connect: the invariants of its records
\* and of its messages hold of clients and room together.
THEOREM SyncRoomCorrect == SyncSpec => [](RoomInv /\ MessagesInv)
BY SyncRoomIsOpen, OpenRoomCorrect, OpenMessagesCorrect, PTL

-----------------------------------------------------------------------------
(***************************************************************************)
(* The data messages that a session has been sent and its client has not   *)
(* received: on the wire, or waiting for the debounce timer.  A socket     *)
(* that is closed gets no more of them.                                    *)
(***************************************************************************)
DataOf(msg) == IF msg.type = "data" THEN msg.data ELSE <<>>

AddData(data, msg) == data \o DataOf(msg)

WireData(wire) == FoldLeft(AddData, <<>>, wire)

Collecting == INSTANCE LeftFold WITH Op <- AddData

SessionData(d) == WireData(d.wire) \o IF d.open THEN d.outstanding ELSE <<>>

\* What a socket holds, collected message by message.
LEMMA WireDataIs ==
    \A wire : WireData(wire) = Collecting!Fold(<<>>, wire)
BY DEF WireData, FoldLeft, MapThenFoldSet, Max, Collecting!Fold,
       Collecting!MapThenFoldSet, Collecting!Greatest

\* A message carries a list of data messages.
LEMMA DataOfType ==
    ASSUME NEW msg \in ServerMessage
    PROVE  DataOf(msg) \in Seq(DataMessage)
<1>1. <<>> \in Seq(DataMessage)
  OBVIOUS
<1>2. msg.type = "data" => msg.data \in Seq(DataMessage)
  BY DEF ServerMessage
<1> QED BY <1>1, <1>2 DEF DataOf

\* Associativity, with the sequences named.
LEMMA ConcatAssoc ==
    ASSUME NEW T, NEW a \in Seq(T), NEW b \in Seq(T), NEW c \in Seq(T)
    PROVE  (a \o b) \o c = a \o (b \o c)
OBVIOUS

\* The same for messages and for clocks, as quantified statements.
LEMMA MessagesAssoc ==
    \A a \in Seq(DataMessage) : \A b \in Seq(DataMessage) : \A c \in Seq(DataMessage) :
        (a \o b) \o c = a \o (b \o c)
<1> TAKE a \in Seq(DataMessage)
<1> TAKE b \in Seq(DataMessage)
<1> TAKE c \in Seq(DataMessage)
<1> DEFINE T == DataMessage
<1>1. a \in Seq(T) /\ b \in Seq(T) /\ c \in Seq(T)
  OBVIOUS
<1> HIDE DEF T
<1> QED BY <1>1, ConcatAssoc, SMTT(30)

\* Likewise for clocks.
LEMMA ClocksAssoc ==
    \A a \in Seq(Nat) : \A b \in Seq(Nat) : \A c \in Seq(Nat) :
        (a \o b) \o c = a \o (b \o c)
<1> TAKE a \in Seq(Nat)
<1> TAKE b \in Seq(Nat)
<1> TAKE c \in Seq(Nat)
<1> DEFINE T == Nat
<1>1. a \in Seq(T) /\ b \in Seq(T) /\ c \in Seq(T)
  OBVIOUS
<1> HIDE DEF T
<1> QED BY <1>1, ConcatAssoc, SMTT(30)

\* Nothing before or after a sequence leaves it as it is.
LEMMA ConcatEmpty ==
    ASSUME NEW T, NEW a \in Seq(T)
    PROVE  a \o <<>> = a /\ <<>> \o a = a
OBVIOUS

\* Collecting a message appends what it carries.
LEMMA CollectingAdds == Collecting!Accumulates(ServerMessage, DataMessage)
<1> SUFFICES ASSUME NEW x \in Seq(DataMessage), NEW y \in Seq(DataMessage),
                    NEW e \in ServerMessage
             PROVE  /\ AddData(y, e) \in Seq(DataMessage)
                    /\ AddData(x \o y, e) = x \o AddData(y, e)
  BY DEF Collecting!Accumulates
<1>1. DataOf(e) \in Seq(DataMessage)
  BY DataOfType
<1> QED BY <1>1, ConcatAssoc DEF AddData

\* What a socket holds is data messages.
LEMMA WireDataType ==
    ASSUME NEW wire \in Seq(ServerMessage)
    PROVE  WireData(wire) \in Seq(DataMessage)
<1>1. <<>> \in Seq(DataMessage)
  OBVIOUS
<1> QED BY <1>1, WireDataIs, CollectingAdds, Collecting!FoldAccumulates

\* A message that is sent adds what it carries at the end.
LEMMA WireDataAppend ==
    ASSUME NEW wire \in Seq(ServerMessage), NEW msg \in ServerMessage
    PROVE  WireData(Append(wire, msg)) = WireData(wire) \o DataOf(msg)
<1>1. Collecting!Fold(<<>>, Append(wire, msg))
        = AddData(Collecting!Fold(<<>>, wire), msg)
  BY Collecting!FoldAppend
<1> QED BY <1>1, WireDataIs DEF AddData

\* The first message carries what comes first.
LEMMA WireDataHead ==
    ASSUME NEW wire \in Seq(ServerMessage), wire # <<>>
    PROVE  WireData(wire) = DataOf(Head(wire)) \o WireData(Tail(wire))
<1> DEFINE first == AddData(<<>>, Head(wire))
           rest == Tail(wire)
<1>1. Head(wire) \in ServerMessage /\ rest \in Seq(ServerMessage)
  OBVIOUS
<1>2. first = DataOf(Head(wire)) /\ first \in Seq(DataMessage)
  BY <1>1, DataOfType, ConcatEmpty DEF AddData
<1>3. Collecting!Fold(<<>>, wire) = Collecting!Fold(first, rest)
  BY Collecting!FoldTail
<1> HIDE DEF first, rest
<1>4. Collecting!Fold(first, rest) = first \o Collecting!Fold(<<>>, rest)
  BY <1>1, <1>2, CollectingAdds, Collecting!FoldAccumulates
<1> QED BY <1>2, <1>3, <1>4, WireDataIs DEF rest

\* An empty socket holds nothing.
LEMMA WireDataEmpty == WireData(<<>>) = <<>>
BY WireDataIs, Collecting!FoldEmpty

\* What a session has still to deliver is data messages.
LEMMA SessionDataType ==
    ASSUME NEW d \in Session
    PROVE  SessionData(d) \in Seq(DataMessage)
<1>1. <<>> \in Seq(DataMessage)
  OBVIOUS
<1>2. d.wire \in Seq(ServerMessage) /\ d.outstanding \in Seq(DataMessage)
  BY OrderlyQueues
<1> QED BY <1>1, <1>2, WireDataType DEF SessionData

\* The answers add up.
LEMMA AnsweringAdds == Answering!Accumulates(DataMessage, Nat)
<1> SUFFICES ASSUME NEW x \in Seq(Nat), NEW y \in Seq(Nat), NEW e \in DataMessage
             PROVE  /\ AddAnswer(y, e) \in Seq(Nat)
                    /\ AddAnswer(x \o y, e) = x \o AddAnswer(y, e)
  BY DEF Answering!Accumulates
<1>1. AddAnswer(y, e) \in Seq(Nat)
  BY AddAnswerType
<1>2. CASE IsAnswer(e)
  <2>1. e.clientClock \in Nat
    BY <1>2 DEF IsAnswer, DataMessage
  <2>2. Append(x \o y, e.clientClock) = x \o Append(y, e.clientClock)
    <3> DEFINE n == e.clientClock
    <3> HIDE DEF n
    <3>1. n \in Nat
      BY <2>1 DEF n
    <3>2. <<n>> \in Seq(Nat) /\ x \o y \in Seq(Nat)
      BY <3>1
    <3>3. Append(x \o y, n) = (x \o y) \o <<n>>
      BY <3>1, <3>2, AppendIsConcat
    <3>4. Append(y, n) = y \o <<n>>
      BY <3>1, AppendIsConcat
    <3>5. (x \o y) \o <<n>> = x \o (y \o <<n>>)
      BY <3>1, <3>2, ClocksAssoc, Zenon
    <3> QED BY <3>3, <3>4, <3>5 DEF n
  <2> QED BY <1>1, <1>2, <2>2 DEF AddAnswer
<1>3. CASE ~IsAnswer(e)
  BY <1>1, <1>3 DEF AddAnswer
<1> QED BY <1>2, <1>3

\* The answers of two lists, one after the other.
LEMMA AnsweredConcat ==
    ASSUME NEW a \in Seq(DataMessage), NEW b \in Seq(DataMessage)
    PROVE  AnsweredBy(a \o b) = AnsweredBy(a) \o AnsweredBy(b)
BY AnsweringAdds, ClientFolds, Answering!FoldSplits

\* No messages hold no answers.
LEMMA AnsweredEmpty == AnsweredBy(<<>>) = <<>>
BY ClientFolds, Answering!FoldEmpty

\* An answer, and a sequence without answers.
LEMMA AnsweredOne ==
    ASSUME NEW e \in DataMessage
    PROVE  AnsweredBy(<<e>>) = IF IsAnswer(e) THEN <<e.clientClock>> ELSE <<>>
<1>1. <<>> \in Seq(DataMessage) /\ Append(<<>>, e) = <<e>>
  OBVIOUS
<1>2. AnsweredBy(Append(<<>>, e)) = AddAnswer(AnsweredBy(<<>>), e)
  BY <1>1, AnsweredAppend
<1>3. IsAnswer(e) => Append(<<>>, e.clientClock) = <<e.clientClock>>
  OBVIOUS
<1> QED BY <1>1, <1>2, <1>3, AnsweredEmpty DEF AddAnswer

\* Patches are no answers.
LEMMA NoAnswers ==
    ASSUME NEW events \in Seq(DataMessage),
           \A i \in 1..Len(events) : ~IsAnswer(events[i])
    PROVE  AnsweredBy(events) = <<>>
<1> DEFINE T == {e \in DataMessage : ~IsAnswer(e)}
<1>1. events \in Seq(T)
  OBVIOUS
<1>2. \A u \in {<<>>}, e \in T : AddAnswer(u, e) \in {<<>>}
  BY DEF AddAnswer
<1> HIDE DEF T
<1>3. Answering!Fold(<<>>, events) \in {<<>>}
  BY <1>1, <1>2, Answering!FoldKeeps
<1> QED BY <1>3, ClientFolds

-----------------------------------------------------------------------------
(***************************************************************************)
(* What a session hears in one step: more data messages at the end, or, of *)
(* a connection that ends, a part of what was on its way.                  *)
(***************************************************************************)
Prefix(a, b) == \E rest \in Seq(DataMessage) : b = a \o rest

NoConnects(wire) == \A i \in 1..Len(wire) : wire[i].type # "connect"

\* The connect answers on a socket were there before, behind the same messages.
KeepsConnects(w, v) ==
    \A i \in 1..Len(v) : v[i].type = "connect" =>
        i <= Len(w) /\ \A j \in 1..i : v[j] = w[j]

\* While a session's socket is open the session stays as it is.
Greeted(c, d) == d.open => c.open /\ d.state = c.state

Hears(c, d, msgs) ==
    /\ KeepsConnects(c.wire, d.wire) /\ Greeted(c, d)
    /\ Listening(d) => Listening(c) /\ SessionData(d) = SessionData(c) \o msgs
    /\ Listening(c) => Prefix(SessionData(d), SessionData(c) \o msgs)
    /\ ~Listening(c) => Prefix(SessionData(d), SessionData(c))

\* A sequence is a prefix of itself with more behind it.
LEMMA PrefixOfMore ==
    ASSUME NEW a \in Seq(DataMessage), NEW b \in Seq(DataMessage)
    PROVE  Prefix(a, a \o b) /\ Prefix(a, a) /\ Prefix(<<>>, a)
<1>1. Prefix(a, a \o b)
  BY DEF Prefix
<1>2. <<>> \in Seq(DataMessage) /\ a = a \o <<>> /\ a = <<>> \o a
  BY ConcatEmpty
<1> QED BY <1>1, <1>2 DEF Prefix

\* A prefix of a prefix.
LEMMA PrefixTransitive ==
    ASSUME NEW a \in Seq(DataMessage), NEW b, NEW c, Prefix(a, b), Prefix(b, c)
    PROVE  Prefix(a, c)
<1>1. PICK r \in Seq(DataMessage) : b = a \o r
  BY DEF Prefix
<1>2. PICK s \in Seq(DataMessage) : c = b \o s
  BY DEF Prefix
<1>3. c = a \o (r \o s)
  BY <1>1, <1>2, MessagesAssoc, Zenon
<1>4. r \o s \in Seq(DataMessage)
  OBVIOUS
<1> QED BY <1>3, <1>4 DEF Prefix

\* What is on the way to a session, by the state of its socket.
LEMMA SessionDataIs ==
    ASSUME NEW d \in Session
    PROVE  /\ WireData(d.wire) \in Seq(DataMessage)
           /\ d.open => SessionData(d) = WireData(d.wire) \o d.outstanding
           /\ ~d.open \/ d.outstanding = <<>> => SessionData(d) = WireData(d.wire)
           /\ Prefix(WireData(d.wire), SessionData(d))
<1>1. d.wire \in Seq(ServerMessage) /\ d.outstanding \in Seq(DataMessage)
  BY OrderlyQueues
<1>2. WireData(d.wire) \in Seq(DataMessage)
  BY <1>1, WireDataType
<1>3. WireData(d.wire) \o <<>> = WireData(d.wire)
  BY <1>2, ConcatEmpty
<1>4. d.open => SessionData(d) = WireData(d.wire) \o d.outstanding
  BY DEF SessionData
<1>5. ~d.open \/ d.outstanding = <<>> => SessionData(d) = WireData(d.wire)
  BY <1>3 DEF SessionData
<1>6. Prefix(WireData(d.wire), SessionData(d))
  BY <1>1, <1>2, <1>4, <1>5, PrefixOfMore
<1> QED BY <1>2, <1>4, <1>5, <1>6

\* A message that is no connect answer.
LEMMA StillNoConnects ==
    ASSUME NEW wire \in Seq(ServerMessage), NEW msg \in ServerMessage,
           msg.type # "connect"
    PROVE  KeepsConnects(wire, Append(wire, msg))
<1>1. /\ Len(Append(wire, msg)) = Len(wire) + 1 /\ Len(wire) \in Nat
      /\ \A i \in 1..Len(wire) : Append(wire, msg)[i] = wire[i]
      /\ Append(wire, msg)[Len(wire) + 1] = msg
  OBVIOUS
<1> QED BY <1>1 DEF KeepsConnects

\* Nothing changes, or in two steps.
LEMMA ConnectsKept ==
    ASSUME NEW w \in Seq(ServerMessage)
    PROVE  /\ KeepsConnects(w, w)
           /\ \A v \in Seq(ServerMessage) : KeepsConnects(w, v) =>
                /\ NoConnects(w) => NoConnects(v)
                /\ \A u \in Seq(ServerMessage) :
                     KeepsConnects(v, u) => KeepsConnects(w, u)
<1>1. KeepsConnects(w, w)
  BY DEF KeepsConnects
<1>2. ASSUME NEW v \in Seq(ServerMessage), KeepsConnects(w, v)
      PROVE  NoConnects(w) => NoConnects(v)
  <2>1. \A i \in 1..Len(v) : v[i].type = "connect" =>
          i \in 1..Len(w) /\ v[i] = w[i]
    BY <1>2 DEF KeepsConnects
  <2> QED BY <2>1 DEF NoConnects
<1>3. ASSUME NEW v \in Seq(ServerMessage), KeepsConnects(w, v),
             NEW u \in Seq(ServerMessage), KeepsConnects(v, u)
      PROVE  KeepsConnects(w, u)
  <2> SUFFICES ASSUME NEW i \in 1..Len(u), u[i].type = "connect"
               PROVE  i <= Len(w) /\ \A j \in 1..i : u[j] = w[j]
    BY DEF KeepsConnects
  <2>1. i \in 1..Len(v) /\ \A j \in 1..i : u[j] = v[j]
    BY <1>3 DEF KeepsConnects
  <2>2. v[i].type = "connect"
    BY <2>1
  <2>3. i <= Len(w) /\ \A j \in 1..i : v[j] = w[j]
    BY <1>3, <2>1, <2>2 DEF KeepsConnects
  <2> QED BY <2>1, <2>3
<1> QED BY <1>1, <1>2, <1>3

\* Nothing is heard when nothing on the way changes.
LEMMA HearsNothing ==
    ASSUME NEW c \in Session, NEW d \in Session,
           SessionData(d) = SessionData(c),
           Listening(d) => Listening(c), Greeted(c, d),
           KeepsConnects(c.wire, d.wire)
    PROVE  Hears(c, d, <<>>)
<1>1. SessionData(c) \in Seq(DataMessage)
  BY SessionDataType
<1>2. SessionData(c) \o <<>> = SessionData(c)
      /\ Prefix(SessionData(c), SessionData(c))
  BY <1>1, ConcatEmpty, PrefixOfMore
<1> QED BY <1>2 DEF Hears

\* A session that nothing happens to.
LEMMA HearsItself ==
    ASSUME NEW c \in Session
    PROVE  Hears(c, c, <<>>)
<1>1. KeepsConnects(c.wire, c.wire)
  BY OrderlyQueues, ConnectsKept
<1> QED BY <1>1, HearsNothing DEF Greeted

\* A session that no longer listens hears the rest of what is on its way.
LEMMA HearsTheRest ==
    ASSUME NEW c \in Session, NEW d \in Session, NEW msgs \in Seq(DataMessage),
           Prefix(SessionData(d), SessionData(c)), ~Listening(d),
           KeepsConnects(c.wire, d.wire), Greeted(c, d)
    PROVE  Hears(c, d, msgs)
<1>1. SessionData(c) \in Seq(DataMessage) /\ SessionData(d) \in Seq(DataMessage)
  BY SessionDataType
<1>2. Prefix(SessionData(c), SessionData(c) \o msgs)
  BY <1>1, PrefixOfMore
<1>3. Prefix(SessionData(d), SessionData(c) \o msgs)
  BY <1>1, <1>2, PrefixTransitive
<1> QED BY <1>3 DEF Hears

\* Hearing nothing more after a step.
LEMMA HearsThenNothing ==
    ASSUME NEW a \in Session, NEW b \in Session, NEW c \in Session,
           NEW msgs \in Seq(DataMessage), Hears(a, b, msgs), Hears(b, c, <<>>)
    PROVE  Hears(a, c, msgs)
<1> DEFINE x == SessionData(a)
           y == SessionData(b)
           z == SessionData(c)
<1>1. x \in Seq(DataMessage) /\ y \in Seq(DataMessage) /\ z \in Seq(DataMessage)
  BY SessionDataType
<1>2. /\ Listening(b) => Listening(a) /\ y = x \o msgs
      /\ Listening(a) => Prefix(y, x \o msgs)
      /\ ~Listening(a) => Prefix(y, x)
      /\ Listening(c) => Listening(b) /\ z = y \o <<>>
      /\ Listening(b) => Prefix(z, y \o <<>>)
      /\ ~Listening(b) => Prefix(z, y)
      /\ KeepsConnects(a.wire, b.wire) /\ KeepsConnects(b.wire, c.wire)
      /\ Greeted(a, c)
  BY DEF Hears, Greeted
<1>6. KeepsConnects(a.wire, c.wire)
  <2>1. /\ a.wire \in Seq(ServerMessage) /\ b.wire \in Seq(ServerMessage)
        /\ c.wire \in Seq(ServerMessage)
    BY OrderlyQueues
  <2> QED BY <1>2, <2>1, ConnectsKept
<1> HIDE DEF x, y, z
<1>3. y \o <<>> = y
  BY <1>1, ConcatEmpty
<1>4. Prefix(z, y)
  BY <1>2, <1>3
<1>5. /\ Listening(a) => Prefix(z, x \o msgs)
      /\ ~Listening(a) => Prefix(z, x)
  BY <1>1, <1>2, <1>4, PrefixTransitive
<1> QED BY <1>2, <1>3, <1>5, <1>6 DEF Hears, x, y, z

\* Hearing something after a step in which nothing was heard.
LEMMA HearsAfterNothing ==
    ASSUME NEW a \in Session, NEW b \in Session, NEW c \in Session,
           NEW msgs \in Seq(DataMessage), Hears(a, b, <<>>), Hears(b, c, msgs)
    PROVE  Hears(a, c, msgs)
<1> DEFINE x == SessionData(a)
           y == SessionData(b)
           z == SessionData(c)
<1>1. x \in Seq(DataMessage) /\ y \in Seq(DataMessage) /\ z \in Seq(DataMessage)
  BY SessionDataType
<1>2. /\ Listening(b) => Listening(a) /\ y = x \o <<>>
      /\ Listening(a) => Prefix(y, x \o <<>>)
      /\ ~Listening(a) => Prefix(y, x)
      /\ Listening(c) => Listening(b) /\ z = y \o msgs
      /\ Listening(b) => Prefix(z, y \o msgs)
      /\ ~Listening(b) => Prefix(z, y)
      /\ KeepsConnects(a.wire, b.wire) /\ KeepsConnects(b.wire, c.wire)
      /\ Greeted(a, c)
  BY DEF Hears, Greeted
<1>6. KeepsConnects(a.wire, c.wire)
  <2>1. /\ a.wire \in Seq(ServerMessage) /\ b.wire \in Seq(ServerMessage)
        /\ c.wire \in Seq(ServerMessage)
    BY OrderlyQueues
  <2> QED BY <1>2, <2>1, ConnectsKept
<1> HIDE DEF x, y, z
<1>3. x \o <<>> = x /\ Prefix(x, x \o msgs)
  BY <1>1, ConcatEmpty, PrefixOfMore
<1>4. /\ Listening(a) => Prefix(z, x \o msgs)
      /\ ~Listening(a) => Prefix(z, x)
  BY <1>1, <1>2, <1>3, PrefixTransitive
<1> QED BY <1>2, <1>3, <1>4, <1>6 DEF Hears, x, y, z

-----------------------------------------------------------------------------
(***************************************************************************)
(* The operations on a session.                                            *)
(***************************************************************************)
\* A message on a wire that is neither data nor a connect answer.
LEMMA PlainOnWire ==
    ASSUME NEW wire \in Seq(ServerMessage), NEW msg \in ServerMessage,
           msg.type # "data", msg.type # "connect"
    PROVE  /\ WireData(Append(wire, msg)) = WireData(wire)
           /\ KeepsConnects(wire, Append(wire, msg))
<1>1. WireData(Append(wire, msg)) = WireData(wire) \o <<>>
  BY WireDataAppend DEF DataOf
<1>2. WireData(wire) \o <<>> = WireData(wire)
  BY WireDataType, ConcatEmpty
<1> QED BY <1>1, <1>2, StillNoConnects

\* Such a message goes unheard.
LEMMA HearsPlain ==
    ASSUME NEW c \in Session, NEW msg \in ServerMessage,
           msg.type # "data", msg.type # "connect"
    PROVE  /\ Hears(c, SendOnSocket(c, msg), <<>>)
           /\ SendOnSocket(c, msg) \in Session
<1> DEFINE d == [c EXCEPT !.wire = Append(@, msg)]
<1>1. SendOnSocket(c, msg) = IF c.open THEN d ELSE c
  BY DEF SendOnSocket
<1>2. SendOnSocket(c, msg) \in Session
  BY SendOnSocketType
<1>3. /\ d.wire = Append(c.wire, msg) /\ d.outstanding = c.outstanding
      /\ d.state = c.state /\ d.open = c.open
  BY Zenon DEF Session
<1>4. /\ WireData(Append(c.wire, msg)) = WireData(c.wire)
      /\ KeepsConnects(c.wire, Append(c.wire, msg))
  BY OrderlyQueues, PlainOnWire
<1> HIDE DEF d
<1>5. c.open => Hears(c, d, <<>>)
  <2>1. SessionData(d) = SessionData(c)
    BY <1>3, <1>4 DEF SessionData
  <2>2. Listening(d) => Listening(c)
    BY <1>3 DEF Listening
  <2> QED BY <1>1, <1>2, <1>3, <1>4, <2>1, <2>2, HearsNothing DEF Greeted
<1>6. Hears(c, c, <<>>)
  BY HearsItself
<1> QED BY <1>1, <1>2, <1>5, <1>6

\* The end of a connection: what is on the wire is still delivered.
LEMMA HearsClose ==
    ASSUME NEW c \in Session, NEW fatal \in BOOLEAN
    PROVE  LET d == CloseSocket(c, fatal)
           IN  /\ d \in Session /\ ~d.open /\ d.state = c.state
               /\ WireData(d.wire) = WireData(c.wire)
               /\ KeepsConnects(c.wire, d.wire)
<1> DEFINE msg == [type |-> "close", fatal |-> fatal]
           d == [c EXCEPT !.open = FALSE, !.wire = Append(@, msg)]
<1>1. msg \in ServerMessage /\ msg.type # "data" /\ msg.type # "connect"
  BY DEF ServerMessage
<1>2. CloseSocket(c, fatal) = IF c.open THEN d ELSE c
  BY DEF CloseSocket
<1>3. CloseSocket(c, fatal) \in Session
  BY CloseSocketType
<1> HIDE DEF msg
<1>4. d.wire = Append(c.wire, msg) /\ d.open = FALSE /\ d.state = c.state
  BY Zenon DEF Session
<1>5. /\ WireData(Append(c.wire, msg)) = WireData(c.wire)
      /\ KeepsConnects(c.wire, Append(c.wire, msg))
  BY <1>1, OrderlyQueues, PlainOnWire
<1> HIDE DEF d
<1>6. KeepsConnects(c.wire, c.wire)
  BY OrderlyQueues, ConnectsKept
<1> QED BY <1>2, <1>3, <1>4, <1>5, <1>6

\* A session that leaves the table.
LEMMA HearsRemoved ==
    ASSUME NEW c \in Session, NEW fatal \in BOOLEAN,
           NEW msgs \in Seq(DataMessage)
    PROVE  Hears(c, RemovedSession(c, fatal), msgs)
<1> DEFINE w == CloseSocket(c, fatal).wire
           d == [NoSession EXCEPT !.wire = w]
<1>1. WireData(w) = WireData(c.wire) /\ KeepsConnects(c.wire, w)
  BY HearsClose
<1>2. d \in Session
  BY RemovedSessionType DEF RemovedSession
<1> HIDE DEF w
<1>3. d.wire = w /\ d.open = FALSE /\ d.state = "none"
  BY Zenon DEF NoSession
<1> HIDE DEF d
<1>4. SessionData(d) = WireData(c.wire)
  BY <1>1, <1>2, <1>3, SessionDataIs
<1>5. ~Listening(d) /\ Greeted(c, d)
  BY <1>3 DEF Listening, Greeted, AwaitingConnectMessage
<1>6. Hears(c, d, msgs)
  BY <1>1, <1>2, <1>3, <1>4, <1>5, SessionDataIs, HearsTheRest
<1> QED BY <1>6 DEF RemovedSession, d, w

\* A canceled session.
LEMMA HearsCancel ==
    ASSUME NEW c \in Session
    PROVE  CancelSession(c) \in Session /\ Hears(c, CancelSession(c), <<>>)
<1> DEFINE d == [c EXCEPT !.state = AwaitingRemoval,
                          !.debouncing = FALSE, !.outstanding = <<>>,
                          !.view = NoView, !.stale = {}]
           e == CloseSocket(d, FALSE)
<1>1. CancelSession(c) \in Session
  BY CancelSessionType
<1>2. d.outstanding = <<>> /\ d.wire = c.wire /\ d.state = AwaitingRemoval
  BY Zenon DEF Session
<1>3. d \in Session
  <2>1. <<>> \in Seq(DataMessage) /\ {} \in SUBSET Ids
        /\ NoView \in [RecordIds -> MaybeRecord]
    BY DEF NoView, MaybeRecord
  <2> QED BY <2>1, Zenon DEF Session
<1> HIDE DEF d
<1>4. /\ e \in Session /\ ~e.open /\ WireData(e.wire) = WireData(c.wire)
      /\ KeepsConnects(c.wire, e.wire) /\ e.state = AwaitingRemoval
  BY <1>2, <1>3, HearsClose
<1>5. SessionData(e) = WireData(c.wire) /\ ~Listening(e)
  <2> HIDE DEF e
  <2> QED BY <1>4, SessionDataIs DEF Listening
<1> HIDE DEF e
<1>6. Hears(c, e, <<>>)
  <2>1. <<>> \in Seq(DataMessage)
    OBVIOUS
  <2>2. Greeted(c, e)
    BY <1>4 DEF Greeted, AwaitingConnectMessage, AwaitingRemoval
  <2> QED BY <1>4, <1>5, <2>1, <2>2, SessionDataIs, HearsTheRest
<1>7. Hears(c, c, <<>>)
  BY HearsItself
<1> QED BY <1>1, <1>6, <1>7 DEF CancelSession, d, e

\* One message with data.
LEMMA DataOnWire ==
    ASSUME NEW wire \in Seq(ServerMessage), NEW data \in Seq(DataMessage)
    PROVE  LET msg == [type |-> "data", data |-> data]
           IN  /\ WireData(Append(wire, msg)) = WireData(wire) \o data
               /\ KeepsConnects(wire, Append(wire, msg))
<1> DEFINE msg == [type |-> "data", data |-> data]
<1>1. msg \in ServerMessage /\ msg.type = "data" /\ DataOf(msg) = data
  BY DEF ServerMessage, DataOf
<1> HIDE DEF msg
<1> QED BY <1>1, WireDataAppend, StillNoConnects DEF msg

\* A flush moves what waits to the wire.
LEMMA HearsFlush ==
    ASSUME NEW c \in Session
    PROVE  FlushDataMessages(c) \in Session /\ Hears(c, FlushDataMessages(c), <<>>)
<1> DEFINE d == [c EXCEPT !.debouncing = FALSE, !.outstanding = <<>>]
           msg == [type |-> "data", data |-> c.outstanding]
           e == [d EXCEPT !.wire = Append(@, msg)]
           f == [c EXCEPT !.debouncing = FALSE]
<1>1. FlushDataMessages(c) \in Session
  BY FlushDataMessagesType
<1>2. FlushDataMessages(c) \in {c, f}
      \/ FlushDataMessages(c) = IF d.open THEN e ELSE d
  BY DEF FlushDataMessages, SendOnSocket
<1>3. /\ f.wire = c.wire /\ f.outstanding = c.outstanding
      /\ f.state = c.state /\ f.open = c.open /\ f \in Session
  BY Zenon DEF Session
<1>4. d.wire = c.wire /\ d.outstanding = <<>> /\ d \in Session
      /\ d.open = c.open /\ d.state = c.state
  <2>1. <<>> \in Seq(DataMessage)
    OBVIOUS
  <2> QED BY <2>1, Zenon DEF Session
<1>5. /\ WireData(Append(c.wire, msg)) = WireData(c.wire) \o c.outstanding
      /\ KeepsConnects(c.wire, Append(c.wire, msg))
  BY OrderlyQueues, DataOnWire
<1> HIDE DEF d, f, msg
<1>6. e.wire = Append(d.wire, msg) /\ e.outstanding = d.outstanding
      /\ e.open = d.open /\ e.state = d.state
  BY <1>4, Zenon DEF Session
<1> HIDE DEF e
<1>11. KeepsConnects(c.wire, c.wire)
  BY OrderlyQueues, ConnectsKept
<1>7. Hears(c, f, <<>>)
  BY <1>3, <1>11, HearsNothing DEF SessionData, Listening, Greeted
<1>8. ~c.open => Hears(c, d, <<>>)
  BY <1>4, <1>11, SessionDataIs, HearsNothing DEF Listening, Greeted
<1>9. c.open /\ e \in Session => Hears(c, e, <<>>)
  <2>1. c.open /\ e \in Session => SessionData(e) = SessionData(c)
    BY <1>4, <1>5, <1>6, SessionDataIs
  <2> QED BY <1>4, <1>5, <1>6, <2>1, HearsNothing DEF Listening, Greeted
<1>10. Hears(c, c, <<>>)
  BY HearsItself
<1> QED BY <1>1, <1>2, <1>4, <1>7, <1>8, <1>9, <1>10

\* A sequence is its first element and the rest.
LEMMA HeadRest ==
    ASSUME NEW msgs \in Seq(DataMessage), msgs # <<>>
    PROVE  <<Head(msgs)>> \o Tail(msgs) = msgs
<1>1. Tail(msgs) = SubSeq(msgs, 2, Len(msgs)) /\ Head(msgs) = msgs[1]
  BY TailIsSubSeq
<1>2. SubSeq(msgs, 1, Len(msgs)) = <<msgs[1]>> \o SubSeq(msgs, 2, Len(msgs))
  <2>1. 1 \in 1..Len(msgs) /\ Len(msgs) \in 1..Len(msgs)
    OBVIOUS
  <2> QED BY <2>1, SubSeqRecursiveFirst
<1>3. SubSeq(msgs, 1, Len(msgs)) = msgs
  BY SubSeqFull
<1> QED BY <1>1, <1>2, <1>3

\* Sending data.
LEMMA HearsSendData ==
    ASSUME NEW c, NEW k, Orderly(c, k),
           NEW msgs \in Seq(DataMessage), NEW diff \in NetworkDiff
    PROVE  Hears(c, SendData(c, msgs, diff), msgs)
<1> DEFINE view == ApplyNetworkDiff(c.view, diff)
           out == [type |-> "data", data |-> <<Head(msgs)>>]
           queued == [c EXCEPT !.outstanding = @ \o msgs, !.view = view]
           sent == [c EXCEPT !.debouncing = TRUE,
                             !.outstanding = @ \o Tail(msgs),
                             !.wire = Append(@, out),
                             !.view = view]
           w == WireData(c.wire)
<1>1. /\ c \in Session /\ SendData(c, msgs, diff) \in Session
  BY SendDataType DEF Orderly
<1>2. CASE c.state # Connected \/ msgs = <<>>
  <2>1. SendData(c, msgs, diff) = c
    BY <1>2 DEF SendData
  <2>2. Hears(c, c, <<>>)
    BY <1>1, HearsItself
  <2>3. c.state # Connected => Hears(c, c, msgs)
    BY <1>1, <2>2, SessionDataType, PrefixOfMore, HearsTheRest DEF Listening, Hears
  <2> QED BY <1>2, <2>1, <2>2, <2>3
<1>3. CASE c.state = Connected /\ msgs # <<>> /\ ~c.open
  <2> DEFINE d == CancelSession(c)
  <2>1. SendData(c, msgs, diff) = d
    BY <1>3 DEF SendData
  <2>2. d \in Session /\ Hears(c, d, <<>>) /\ ~Listening(c)
    BY <1>1, <1>3, HearsCancel DEF Listening
  <2> HIDE DEF d
  <2>3. Hears(c, d, msgs)
    BY <1>1, <2>2, HearsTheRest DEF Hears
  <2> QED BY <2>1, <2>3
<1>4. CASE c.state = Connected /\ msgs # <<>> /\ c.open
  <2>1. SendData(c, msgs, diff) = IF c.debouncing THEN queued ELSE sent
    BY <1>4 DEF SendData
  <2>2. /\ c.wire \in Seq(ServerMessage) /\ c.outstanding \in Seq(DataMessage)
        /\ w \in Seq(DataMessage) /\ SessionData(c) = w \o c.outstanding
    BY <1>1, <1>4, OrderlyQueues, SessionDataIs
  <2> HIDE DEF view, w
  <2>3. ASSUME NEW d \in Session, d.open, d.state = Connected,
               SessionData(d) = SessionData(c) \o msgs,
               KeepsConnects(c.wire, d.wire)
        PROVE  Hears(c, d, msgs)
    <3>1. SessionData(d) \in Seq(DataMessage)
      BY SessionDataType
    <3>2. Prefix(SessionData(d), SessionData(d))
      BY <3>1, PrefixOfMore, Zenon
    <3>3. Listening(c)
      BY <1>4 DEF Listening
    <3> QED BY <1>4, <2>3, <3>2, <3>3 DEF Hears, Greeted
  <2>4. CASE c.debouncing
    <3>1. /\ queued.wire = c.wire
          /\ queued.outstanding = c.outstanding \o msgs
          /\ queued.state = c.state /\ queued.open = c.open
      BY <1>1, Zenon DEF Session
    <3> HIDE DEF queued
    <3>2. SessionData(queued) = w \o (c.outstanding \o msgs)
      BY <1>4, <3>1 DEF SessionData, w
    <3>3. (w \o c.outstanding) \o msgs = w \o (c.outstanding \o msgs)
      <4> DEFINE waiting == c.outstanding
      <4>1. waiting \in Seq(DataMessage)
        BY <2>2
      <4> HIDE DEF waiting
      <4>2. (w \o waiting) \o msgs = w \o (waiting \o msgs)
        BY <2>2, <4>1, MessagesAssoc, Zenon
      <4> QED BY <4>2 DEF waiting
    <3>4. SessionData(queued) = SessionData(c) \o msgs
      BY <2>2, <3>2, <3>3
    <3>5. KeepsConnects(c.wire, c.wire)
      BY <2>2, ConnectsKept
    <3> QED BY <1>1, <1>4, <2>1, <2>3, <2>4, <3>1, <3>4, <3>5
  <2>5. CASE ~c.debouncing
    <3> DEFINE one == <<Head(msgs)>>
               rest == Tail(msgs)
    <3>1. one \in Seq(DataMessage) /\ rest \in Seq(DataMessage)
      <4>1. Head(msgs) \in DataMessage /\ rest \in Seq(DataMessage)
        BY <1>4, HeadTailProperties
      <4> QED BY <4>1
    <3>2. one \o rest = msgs
      BY <1>4, HeadRest
    <3>3. c.outstanding = <<>>
      BY <2>5 DEF Orderly
    <3>4. /\ WireData(Append(c.wire, out)) = w \o one
          /\ KeepsConnects(c.wire, Append(c.wire, out))
      BY <2>2, <3>1, DataOnWire DEF w
    <3> HIDE DEF out
    <3>5. /\ sent.wire = Append(c.wire, out)
          /\ sent.outstanding = c.outstanding \o rest
          /\ sent.state = c.state /\ sent.open = c.open
      BY <1>1, Zenon DEF Session
    <3> HIDE DEF sent, one, rest
    <3>6. sent.outstanding = rest
      BY <3>1, <3>3, <3>5, ConcatEmpty
    <3>7. SessionData(sent) = (w \o one) \o rest
      BY <1>4, <3>4, <3>5, <3>6 DEF SessionData
    <3>8. SessionData(c) = w
      BY <2>2, <3>3, ConcatEmpty
    <3>9. (w \o one) \o rest = w \o (one \o rest)
      <4>1. w \in Seq(DataMessage)
        BY <2>2
      <4> QED BY <3>1, <4>1, MessagesAssoc, Zenon
    <3>10. SessionData(sent) = SessionData(c) \o msgs
      BY <3>2, <3>7, <3>8, <3>9
    <3> QED BY <1>1, <1>4, <2>1, <2>3, <2>5, <3>4, <3>5, <3>10
  <2> QED BY <2>4, <2>5
<1> QED BY <1>2, <1>3, <1>4

-----------------------------------------------------------------------------
(***************************************************************************)
(* What the sessions hear when one of them does something.                 *)
(***************************************************************************)
\* What the room tells in a step of the document records: nothing when they stay
\* as they are, or the change in one patch.
News(msgs) ==
    /\ \A i \in 1..Len(msgs) :
         ~IsAnswer(msgs[i]) /\ msgs[i].serverClock = clock'
    /\ \/ /\ hist'[clock'] = hist[clock]
          /\ \A i \in 1..Len(msgs) : DOMAIN msgs[i].diff \cap Ids = {}
       \/ /\ Len(msgs) = 1
          /\ hist'[clock'] = ApplyNetworkDiff(hist[clock], msgs[1].diff)

Overhears(c, d) == \E msgs \in Seq(DataMessage) : News(msgs) /\ Hears(c, d, msgs)

\* The document records stay as they are.
SameDocs == hist'[clock'] = hist[clock]

\* News answers nothing.
LEMMA NewsAnswersNothing ==
    ASSUME NEW msgs \in Seq(DataMessage), News(msgs)
    PROVE  AnsweredBy(msgs) = <<>>
<1>1. \A i \in 1..Len(msgs) : ~IsAnswer(msgs[i])
  BY DEF News
<1> QED BY <1>1, NoAnswers

\* No news.
LEMMA NoNews ==
    ASSUME SameDocs
    PROVE  <<>> \in Seq(DataMessage) /\ News(<<>>)
BY DEF News, SameDocs

\* One patch, of presence records or with what happened to the document records.
LEMMA PatchIsNews ==
    ASSUME clock' \in Nat, NEW diff \in NetworkDiff,
           \/ SameDocs /\ DOMAIN diff \cap Ids = {}
           \/ hist'[clock'] = ApplyNetworkDiff(hist[clock], diff)
    PROVE  <<PatchMessage(diff)>> \in Seq(DataMessage) /\ News(<<PatchMessage(diff)>>)
<1> DEFINE msg == PatchMessage(diff)
<1>1. msg \in DataMessage
  BY PatchMessageType
<1>2. ~IsAnswer(msg) /\ msg.serverClock = clock' /\ msg.diff = diff
  BY DEF PatchMessage, IsAnswer
<1> HIDE DEF msg
<1>3. <<msg>> \in Seq(DataMessage)
  BY <1>1
<1>4. Len(<<msg>>) = 1 /\ <<msg>>[1] = msg /\ \A i \in 1..1 : i = 1
  OBVIOUS
<1>5. News(<<msg>>)
  BY <1>2, <1>4 DEF News, SameDocs
<1> QED BY <1>3, <1>5 DEF msg

\* Hearing nothing at all.
LEMMA OverhearsNothing ==
    ASSUME SameDocs, NEW c \in Session, NEW d \in Session, Hears(c, d, <<>>)
    PROVE  Overhears(c, d)
BY NoNews DEF Overhears

\* A session that nothing happens to.
LEMMA OverhearsItself ==
    ASSUME SameDocs, NEW c \in Session
    PROVE  Overhears(c, c)
BY HearsItself, OverhearsNothing

\* broadcastPatch.
LEMMA BroadcastOverheard ==
    ASSUME clock' \in Nat, NEW sess, NEW k, NEW diff \in NetworkDiff, NEW source,
           NEW t \in SessionIds, t # source, Orderly(sess[t], k),
           \/ SameDocs /\ DOMAIN diff \cap Ids = {}
           \/ hist'[clock'] = ApplyNetworkDiff(hist[clock], diff)
    PROVE  Overhears(sess[t], BroadcastPatch(sess, diff, source)[t])
<1> DEFINE msgs == <<PatchMessage(diff)>>
<1>1. BroadcastPatch(sess, diff, source)[t] = SendData(sess[t], msgs, diff)
  BY DEF BroadcastPatch
<1>2. msgs \in Seq(DataMessage) /\ News(msgs)
  BY PatchIsNews
<1> HIDE DEF msgs
<1>3. Hears(sess[t], SendData(sess[t], msgs, diff), msgs)
  BY <1>2, HearsSendData
<1> QED BY <1>1, <1>2, <1>3 DEF Overhears

\* removeSession.
LEMMA RemoveSessionOverheard ==
    ASSUME clock' \in Nat, SameDocs, NEW sess \in Sessions, NEW k, AllOrderly(sess, k),
           NEW docs, NEW s \in SessionIds, NEW fatal \in BOOLEAN,
           NEW t \in SessionIds
    PROVE  Overhears(sess[t], RemoveSession(sess, docs, s, fatal)[t])
<1> DEFINE gone == PresenceOf(sess[s], docs)
           rest == [sess EXCEPT ![s] = RemovedSession(@, fatal)]
<1>1. sess[t] \in Session /\ Orderly(sess[t], k)
  BY DEF Sessions, AllOrderly
<1>2. /\ RemovalOf(gone) \in NetworkDiff
      /\ DOMAIN RemovalOf(gone) \cap Ids = {}
  <2>1. gone \subseteq PresenceIds /\ PresenceIds \subseteq RecordIds
    BY DEF PresenceOf, RecordIds
  <2> HIDE DEF gone
  <2>2. RemovalOf(gone) \in NetworkDiff
    BY <2>1, RemovalOfType
  <2>3. DOMAIN RemovalOf(gone) = gone
    BY DEF RemovalOf
  <2> QED BY <2>1, <2>2, <2>3, IdsAssumption
<1>3. RemoveSession(sess, docs, s, fatal)
        = IF gone = {} THEN rest ELSE BroadcastPatch(rest, RemovalOf(gone), s)
  BY DEF RemoveSession
<1>4. CASE t = s
  <2>1. rest[t] = RemovedSession(sess[t], fatal)
    BY <1>4 DEF Sessions
  <2>2. BroadcastPatch(rest, RemovalOf(gone), s)[t] = rest[t]
    BY <1>4 DEF BroadcastPatch
  <2>3. <<>> \in Seq(DataMessage)
    OBVIOUS
  <2>4. Hears(sess[t], RemovedSession(sess[t], fatal), <<>>)
    BY <1>1, <2>3, HearsRemoved
  <2>5. Overhears(sess[t], RemovedSession(sess[t], fatal))
    BY <2>3, <2>4, NoNews DEF Overhears
  <2> QED BY <1>3, <2>1, <2>2, <2>5
<1>5. CASE t # s
  <2>1. rest[t] = sess[t]
    BY <1>5 DEF Sessions
  <2>2. Overhears(sess[t], sess[t])
    BY <1>1, OverhearsItself
  <2> HIDE DEF rest, gone
  <2>3. Overhears(rest[t], BroadcastPatch(rest, RemovalOf(gone), s)[t])
    BY <1>1, <1>2, <1>5, <2>1, BroadcastOverheard
  <2> QED BY <1>3, <2>1, <2>2, <2>3
<1> QED BY <1>4, <1>5

\* rejectSession.
LEMMA RejectSessionOverheard ==
    ASSUME clock' \in Nat, SameDocs, NEW sess \in Sessions, NEW k, AllOrderly(sess, k),
           NEW docs, NEW s \in SessionIds, NEW fatal \in BOOLEAN,
           NEW t \in SessionIds
    PROVE  Overhears(sess[t], RejectSession(sess, docs, s, fatal)[t])
<1> DEFINE msg == [type |-> "incompatibility_error"]
           told == [sess EXCEPT ![s] = SendOnSocket(@, msg)]
           left == RemoveSession(told, docs, s, FALSE)
<1>1. /\ msg \in ServerMessage /\ ClockedMessages(msg) = <<>>
      /\ msg.type # "data" /\ msg.type # "connect"
  BY DEF ServerMessage, ClockedMessages
<1>2. told \in Sessions
  BY <1>1, SendOnSocketType DEF Sessions
<1>3. AllOrderly(told, k)
  <2> HIDE DEF msg
  <2> QED BY <1>1, OrderlySendOnSocket DEF AllOrderly, Sessions
<1>4. Hears(sess[t], told[t], <<>>) /\ sess[t] \in Session /\ told[t] \in Session
  <2>1. sess[t] \in Session /\ told[t] \in Session
    BY <1>2 DEF Sessions
  <2>2. told[t] = IF t = s THEN SendOnSocket(sess[t], msg) ELSE sess[t]
    BY DEF Sessions
  <2> HIDE DEF told, msg
  <2> QED BY <1>1, <2>1, <2>2, HearsPlain, HearsItself
<1> HIDE DEF told
<1>5. left[t] \in Session
  <2>1. left \in Sessions
    BY <1>2, RemoveSessionType
  <2> HIDE DEF left
  <2> QED BY <2>1 DEF Sessions
<1>6. Overhears(told[t], left[t])
  BY <1>2, <1>3, RemoveSessionOverheard
<1> HIDE DEF left
<1>7. Overhears(sess[t], left[t])
  BY <1>4, <1>5, <1>6, HearsAfterNothing DEF Overhears
<1>8. Overhears(sess[t], RemoveSession(sess, docs, s, fatal)[t])
  BY RemoveSessionOverheard
<1> QED BY <1>7, <1>8 DEF RejectSession, left, told

-----------------------------------------------------------------------------
(***************************************************************************)
(* What the sessions hear in the steps of the room.                        *)
(***************************************************************************)
AllOverhear == \A t \in SessionIds : Overhears(sessions[t], sessions'[t])

\* One session changes.
LEMMA OneSessionOverhears ==
    ASSUME TypeOK, SameDocs, NEW s \in SessionIds, NEW d, Overhears(sessions[s], d),
           sessions' = [sessions EXCEPT ![s] = d]
    PROVE  AllOverhear
<1>1. ASSUME NEW t \in SessionIds PROVE Overhears(sessions[t], sessions'[t])
  <2>1. sessions'[t] = IF t = s THEN d ELSE sessions[t]
    BY DEF TypeOK
  <2>2. sessions[t] \in Session
    BY DEF TypeOK
  <2> QED BY <2>1, <2>2, OverhearsItself
<1> QED BY <1>1 DEF AllOverhear

\* The operations of one session.
LEMMA SessionOpsOverheard ==
    ASSUME TypeOK, NEW s \in SessionIds,
           FlushTimer(s) \/ HandleClose(s) \/ SocketCloses(s)
    PROVE  AllOverhear
<1> DEFINE c == sessions[s]
<1>1. c \in Session
  BY DEF TypeOK
<1>5. SameDocs
  BY DEF FlushTimer, HandleClose, SocketCloses, RecordsUnchanged, SameDocs
<1> HIDE DEF c
<1>2. CASE FlushTimer(s)
  <2>1. Overhears(c, FlushDataMessages(c))
    BY <1>1, <1>5, HearsFlush, OverhearsNothing
  <2> QED BY <1>2, <1>5, <2>1, OneSessionOverhears DEF FlushTimer, c
<1>3. CASE HandleClose(s)
  <2>1. Overhears(c, CancelSession(c))
    BY <1>1, <1>5, HearsCancel, OverhearsNothing
  <2> QED BY <1>3, <1>5, <2>1, OneSessionOverhears DEF HandleClose, c
<1>4. CASE SocketCloses(s)
  <2> DEFINE d == [c EXCEPT !.open = FALSE, !.wire = <<>>]
  <2>1. sessions' = [sessions EXCEPT ![s] = d]
    BY <1>4 DEF SocketCloses, TypeOK, c
  <2>2. <<>> \in Seq(ServerMessage) /\ <<>> \in Seq(DataMessage)
    OBVIOUS
  <2>3. d \in Session /\ d.wire = <<>> /\ d.open = FALSE /\ d.state = c.state
    BY <1>1, <2>2, Zenon DEF Session
  <2> HIDE DEF d
  <2>4. SessionData(d) = <<>>
    BY <2>3, SessionDataIs, WireDataEmpty
  <2>5. KeepsConnects(c.wire, d.wire)
    BY <2>3 DEF KeepsConnects
  <2>6. Prefix(SessionData(d), SessionData(c)) /\ ~Listening(d)
    BY <1>1, <2>3, <2>4, SessionDataType, PrefixOfMore DEF Listening
  <2>9. Greeted(c, d)
    BY <2>3 DEF Greeted
  <2>7. Hears(c, d, <<>>)
    BY <1>1, <2>2, <2>3, <2>5, <2>6, <2>9, HearsTheRest
  <2>8. Overhears(c, d)
    BY <1>1, <1>5, <2>3, <2>7, OverhearsNothing
  <2> QED BY <1>5, <2>1, <2>8, OneSessionOverhears DEF c
<1> QED BY <1>2, <1>3, <1>4

\* The removals of pruneSessions.
LEMMA RemovalsOverheard ==
    ASSUME clock' \in Nat, SameDocs, NEW k, NEW c, Orderly(c, k), NEW n \in Nat,
           NEW order, \A i \in 1..n : order[i] \in PresenceIds
    PROVE  /\ SendRemovals(c, order, n) \in Session
           /\ Overhears(c, SendRemovals(c, order, n))
<1> DEFINE msgs == [i \in 1..n |-> PatchMessage(RemovalOf({order[i]}))]
           ids == {order[i] : i \in 1..n}
<1>1. \A i \in 1..n : RemovalOf({order[i]}) \in NetworkDiff
  BY RemovalOfType DEF RecordIds
<1>2. \A i \in 1..n : /\ PatchMessage(RemovalOf({order[i]})) \in DataMessage
                      /\ ~IsAnswer(PatchMessage(RemovalOf({order[i]})))
                      /\ PatchMessage(RemovalOf({order[i]})).serverClock = clock'
                      /\ PatchMessage(RemovalOf({order[i]})).diff
                           = RemovalOf({order[i]})
  BY <1>1, PatchMessageType DEF PatchMessage, IsAnswer
<1>8. \A i \in 1..n : DOMAIN RemovalOf({order[i]}) \cap Ids = {}
  BY IdsAssumption DEF RemovalOf
<1>3. /\ msgs \in Seq(DataMessage) /\ Len(msgs) = n
      /\ \A i \in 1..n : msgs[i] = PatchMessage(RemovalOf({order[i]}))
  BY <1>2
<1>4. RemovalOf(ids) \in NetworkDiff
  BY RemovalOfType DEF RecordIds
<1> HIDE DEF msgs, ids
<1>5. News(msgs)
  BY <1>2, <1>3, <1>8 DEF News, SameDocs
<1>6. Hears(c, SendData(c, msgs, RemovalOf(ids)), msgs)
  BY <1>3, <1>4, HearsSendData
<1>7. SendData(c, msgs, RemovalOf(ids)) \in Session
  BY <1>3, <1>4, SendDataType DEF Orderly
<1> QED BY <1>3, <1>5, <1>6, <1>7 DEF Overhears, SendRemovals, msgs, ids

\* pruneSessions.
LEMMA PruneSessionsOverheard ==
    ASSUME MessagesInv, NEW timedOut \in SUBSET SessionIds,
           PruneSessions(timedOut)
    PROVE  AllOverhear
<1> DEFINE Expired(s) == s \in timedOut \/ ~sessions[s].open
           canceled == {s \in SessionIds :
                          sessions[s].state = Connected /\ Expired(s)}
           removed == {s \in SessionIds :
                         \/ sessions[s].state = AwaitingConnectMessage
                            /\ Expired(s)
                         \/ sessions[s].state = AwaitingRemoval
                            /\ s \in timedOut}
           gone == UNION {PresenceOf(sessions[s], documents) : s \in removed}
<1>1. PICK order \in Orders(gone),
           seen \in [canceled -> 0..Cardinality(gone)] :
        sessions' = [s \in SessionIds |->
           IF s \in removed THEN RemovedSession(sessions[s], FALSE)
           ELSE IF s \in canceled
             THEN CancelSession(SendRemovals(sessions[s], order, seen[s]))
           ELSE SendRemovals(sessions[s], order, Cardinality(gone))]
  BY DEF PruneSessions
<1>2. clock' \in Nat /\ SameDocs
  BY DEF PruneSessions, ClocksUnchanged, MessagesInv, TypeOK, SameDocs
<1>3. gone \in SUBSET PresenceIds /\ Cardinality(gone) \in Nat
  BY FinitelyManyGone DEF MessagesInv
<1> HIDE DEF removed, canceled, gone
<1>4. ASSUME NEW s \in SessionIds, NEW n \in 0..Cardinality(gone)
      PROVE  /\ SendRemovals(sessions[s], order, n) \in Session
             /\ Overhears(sessions[s], SendRemovals(sessions[s], order, n))
  <2>1. n \in Nat /\ \A i \in 1..n : order[i] \in PresenceIds
    BY <1>3 DEF Orders
  <2>2. Orderly(sessions[s], clock)
    BY DEF MessagesInv, AllOrderly
  <2> QED BY <1>2, <2>1, <2>2, RemovalsOverheard
<1>5. ASSUME NEW s \in SessionIds
      PROVE  Overhears(sessions[s], sessions'[s])
  <2> DEFINE c == sessions[s]
  <2>1. c \in Session
    BY DEF MessagesInv, TypeOK
  <2>2. CASE s \in removed
    <3>1. <<>> \in Seq(DataMessage)
      OBVIOUS
    <3>2. Hears(c, RemovedSession(c, FALSE), <<>>)
      BY <2>1, <3>1, HearsRemoved
    <3>3. Overhears(c, RemovedSession(c, FALSE))
      BY <1>2, <3>1, <3>2, NoNews DEF Overhears
    <3> QED BY <1>1, <2>2, <3>3
  <2>3. CASE s \notin removed /\ s \in canceled
    <3> DEFINE d == SendRemovals(c, order, seen[s])
    <3>1. seen[s] \in 0..Cardinality(gone)
      BY <2>3
    <3>2. sessions'[s] = CancelSession(d)
      BY <1>1, <2>3
    <3>3. d \in Session /\ Overhears(c, d)
      BY <1>4, <3>1
    <3> HIDE DEF d, c
    <3>4. CancelSession(d) \in Session /\ Hears(d, CancelSession(d), <<>>)
      BY <3>3, HearsCancel
    <3>5. Overhears(c, CancelSession(d))
      BY <2>1, <3>3, <3>4, HearsThenNothing DEF Overhears
    <3> QED BY <3>2, <3>5 DEF c
  <2>4. CASE s \notin removed /\ s \notin canceled
    <3>1. Cardinality(gone) \in 0..Cardinality(gone)
      BY <1>3
    <3> QED BY <1>1, <1>4, <2>4, <3>1
  <2> QED BY <2>2, <2>3, <2>4
<1> QED BY <1>5 DEF AllOverhear

\* A session that is rejected hears no more.
LEMMA RejectedIsDeaf ==
    ASSUME NEW sess \in Sessions, NEW docs, NEW s \in SessionIds,
           NEW fatal \in BOOLEAN
    PROVE  ~Listening(RejectSession(sess, docs, s, fatal)[s])
<1>1. ASSUME NEW other \in Sessions, NEW f \in BOOLEAN
      PROVE  ~Listening(RemoveSession(other, docs, s, f)[s])
  <2> DEFINE rest == [other EXCEPT ![s] = RemovedSession(@, f)]
  <2>1. rest[s] = RemovedSession(other[s], f)
    BY DEF Sessions
  <2>2. ~Listening(rest[s])
    BY <2>1, RemovedIsDeaf
  <2> HIDE DEF rest
  <2>3. \A diff : BroadcastPatch(rest, diff, s)[s] = rest[s]
    BY DEF BroadcastPatch
  <2>4. \/ RemoveSession(other, docs, s, f) = rest
        \/ \E diff : RemoveSession(other, docs, s, f) = BroadcastPatch(rest, diff, s)
    BY DEF RemoveSession, rest
  <2> QED BY <2>2, <2>3, <2>4
<1> DEFINE told == [sess EXCEPT ![s] =
                      SendOnSocket(@, [type |-> "incompatibility_error"])]
<1>2. told \in Sessions
  <2>1. [type |-> "incompatibility_error"] \in ServerMessage
    BY DEF ServerMessage
  <2> QED BY <2>1, SendOnSocketType DEF Sessions
<1>3. ~Listening(RemoveSession(sess, docs, s, fatal)[s])
  BY <1>1
<1>4. ~Listening(RemoveSession(told, docs, s, FALSE)[s])
  <2> HIDE DEF told
  <2> QED BY <1>1, <1>2
<1> QED BY <1>3, <1>4 DEF RejectSession, told

(***************************************************************************)
(* What the room tells of the document records is what happened to them.   *)
(***************************************************************************)
Docs == [Ids -> MaybeRecord]

\* What a client takes an event to do to the room's records; diff: what it
\* pushed, when the event answers a push.
EventDiff(e, diff) ==
    CASE ~IsAnswer(e)                           -> e.diff
      [] IsAnswer(e) /\ e.action = "discard" -> EmptyDiff
      [] IsAnswer(e) /\ e.action = "commit"  -> diff
      [] IsAnswer(e) /\ e.action = "rebase"  -> e.diff

\* An answer tells what the push did.
Settles(msg, diff) ==
    /\ IsAnswer(msg) /\ msg.serverClock = clock'
    /\ hist'[clock'] = ApplyNetworkDiff(hist[clock], EventDiff(msg, diff))

\* The last version is what the room has.
LEMMA LatestIsDocuments ==
    ASSUME RecordsInv
    PROVE  /\ hist[clock] \in Docs
           /\ \A id \in Ids : hist[clock][id] = documents[id].state
<1>1. clock \in Nat /\ hist[clock] \in Docs
  BY DEF RecordsInv, TypeOK, Docs
<1>2. ASSUME NEW id \in Ids PROVE hist[clock][id] = documents[id].state
  <2>1. ChangedAt(id) \in Nat
    BY ChangedAtType DEF RecordsInv
  <2>2. clock \in ChangedAt(id)..clock
    BY <1>1, <2>1 DEF RecordsInv, HistorySound
  <2> QED BY <2>2 DEF RecordsInv, HistorySound
<1> QED BY <1>1, <1>2

\* What a push changes leads from one version to the next.
LEMMA PushLeads ==
    ASSUME RecordsInv, IncrementClock, ExtendHistory, NEW ops \in NetworkDiff,
           ApplyPush(ops), NEW ids, Ids \subseteq ids
    PROVE  hist'[clock'] = ApplyNetworkDiff(hist[clock], ActualChanges(ops, ids))
<1> DEFINE old == hist[clock]
           new == hist'[clock']
           diff == ActualChanges(ops, ids)
<1>1. /\ old \in Docs /\ TypeOK /\ clock \in Nat
      /\ \A id \in Ids : old[id] = documents[id].state
  BY LatestIsDocuments DEF RecordsInv, TypeOK
<1>2. new = [id \in Ids |-> documents'[id].state]
  BY <1>1 DEF IncrementClock, ExtendHistory
<1>3. ASSUME NEW id \in Ids
      PROVE  new[id] = IF id \in DOMAIN diff THEN ApplyOp(old[id], diff[id])
                       ELSE old[id]
  <2>1. id \in RecordIds /\ id \in ids
    BY DEF RecordIds
  <2>2. /\ id \in DOMAIN diff <=> id \in Changed(ops)
        /\ id \in Changed(ops) =>
             diff[id] = OpBetween(documents[id].state, Outcome(ops)[id])
    BY <2>1 DEF ActualChanges
  <2>3. /\ documents[id].state \in MaybeRecord
        /\ Outcome(ops)[id] \in MaybeRecord
    BY <1>1, <2>1, OutcomeType DEF TypeOK, DocumentState
  <2>4. documents'[id].state = IF id \in Changed(ops) THEN Outcome(ops)[id]
                               ELSE documents[id].state
    BY <2>1 DEF ApplyPush
  <2>5. new[id] = documents'[id].state /\ old[id] = documents[id].state
    BY <1>1, <1>2
  <2> HIDE DEF diff, old, new
  <2> QED BY <2>2, <2>3, <2>4, <2>5, OpBetweenApplies
<1> HIDE DEF diff
<1>4. ApplyNetworkDiff(old, diff)
        = [id \in Ids |-> IF id \in DOMAIN diff THEN ApplyOp(old[id], diff[id])
                          ELSE old[id]]
  BY <1>1 DEF ApplyNetworkDiff, Docs
<1> HIDE DEF old
<1>5. new = [id \in Ids |-> new[id]]
  BY <1>2
<1> HIDE DEF new
<1>6. new = ApplyNetworkDiff(old, diff)
  BY <1>3, <1>4, <1>5
<1> QED BY <1>6 DEF new, old, diff

\* The answer to a push tells what the push did.
LEMMA AnswerSettles ==
    ASSUME RecordsInv, IncrementClock, ExtendHistory,
           NEW c \in Session, NEW diff \in DocDiffs, NEW presence \in PresencePushes,
           NEW clientClock, ApplyPush(PushedOps(c, diff, presence))
    PROVE  Settles(PushResult(diff, ActualChanges(PushedOps(c, diff, presence), Ids),
                              clientClock), diff)
<1> DEFINE ops == PushedOps(c, diff, presence)
           docChanges == ActualChanges(ops, Ids)
           msg == PushResult(diff, docChanges, clientClock)
<1>1. ops \in NetworkDiff
  BY PushedOpsType
<1>2. hist'[clock'] = ApplyNetworkDiff(hist[clock], docChanges)
  <2>1. ApplyPush(ops) /\ Ids \subseteq Ids
    OBVIOUS
  <2> HIDE DEF ops
  <2> QED BY <1>1, <2>1, PushLeads
<1>3. diff = EmptyDiff => DOMAIN docChanges \cap Ids = {}
  <2>1. DOMAIN docChanges \subseteq DOMAIN ops \cap Ids
    BY DEF ActualChanges, Changed
  <2>2. diff = EmptyDiff => DOMAIN ops \cap Ids = {}
    BY IdsAssumption DEF PushedOps, EmptyDiff
  <2> HIDE DEF docChanges, ops
  <2> QED BY <2>1, <2>2
<1>4. hist[clock] \in Docs
  BY LatestIsDocuments
<1>5. diff = EmptyDiff =>
        ApplyNetworkDiff(hist[clock], docChanges)
          = ApplyNetworkDiff(hist[clock], diff)
  <2> DEFINE old == hist[clock]
  <2> HIDE DEF docChanges, old
  <2>1. old \in Docs
    BY <1>4 DEF old
  <2>2. DOMAIN EmptyDiff = {}
    BY DEF EmptyDiff
  <2>3. ASSUME diff = EmptyDiff
        PROVE  ApplyNetworkDiff(old, docChanges) = ApplyNetworkDiff(old, diff)
    BY <1>3, <2>1, <2>2, <2>3 DEF ApplyNetworkDiff, Docs
  <2> QED BY <2>3 DEF old
<1> HIDE DEF docChanges
<1>6. /\ IsAnswer(msg) /\ msg.serverClock = clock'
      /\ \/ msg.action = "commit" /\ (diff = EmptyDiff \/ docChanges = diff)
         \/ msg.action = "discard" /\ docChanges = EmptyDiff
         \/ msg.action = "rebase" /\ msg.diff = docChanges
  BY DEF PushResult, IsAnswer
<1> HIDE DEF msg
<1>7. \/ EventDiff(msg, diff) = docChanges
      \/ EventDiff(msg, diff) = diff /\ diff = EmptyDiff
  BY <1>6 DEF EventDiff
<1> QED BY <1>2, <1>5, <1>6, <1>7 DEF Settles, msg, docChanges

\* handlePushRequest: the one who pushed hears the answer, unless it is
\* rejected, and the others hear a patch or nothing.
LEMMA HandlePushRequestOverheard ==
    ASSUME MessagesInv, RecordsInv, NEW s \in SessionIds,
           NEW diff \in DocDiffs, NEW presence \in PresencePushes,
           NEW clientClock \in Nat,
           HandlePushRequest(s, diff, presence, clientClock)
    PROVE  /\ \A t \in SessionIds \ {s} : Overhears(sessions[t], sessions'[t])
           /\ \/ /\ Overhears(sessions[s], sessions'[s])
                 /\ ~Listening(sessions'[s])
              \/ \E msg \in DataMessage :
                   /\ Settles(msg, diff) /\ msg.clientClock = clientClock
                   /\ Hears(sessions[s], sessions'[s], <<msg>>)
<1> DEFINE ops == PushedOps(sessions[s], diff, presence)
           docChanges == ActualChanges(ops, Ids)
           result == PushResult(diff, docChanges, clientClock)
           told == SendData(sessions[s], <<result>>, docChanges)
           answered == [sessions EXCEPT ![s] = told]
           announced == BroadcastPatch(answered, ActualChanges(ops, RecordIds), s)
<1>1. /\ clock \in Nat /\ clock' = clock + 1 /\ TypeOK /\ clock' \in Nat
  BY DEF HandlePushRequest, IncrementClock, MessagesInv, TypeOK
<1>2. sessions \in Sessions /\ AllOrderly(sessions, clock)
  BY DEF MessagesInv, TypeOK, Sessions
<1>3. /\ IncrementClock /\ ExtendHistory
      /\ \/ /\ ApplyPush(ops)
            /\ sessions' = IF Changed(ops) = {} THEN answered ELSE announced
         \/ /\ UNCHANGED documents
            /\ sessions' =
                 RejectSession(sessions, DocumentsAtFailure(ops), s, TRUE)
  BY DEF HandlePushRequest, RollbackPush
<1>13. ApplyPush(ops) => Settles(result, diff)
  <2>1. sessions[s] \in Session
    BY <1>2 DEF Sessions
  <2> QED BY <1>3, <2>1, AnswerSettles
<1>14. (UNCHANGED documents) => SameDocs
  <2>1. hist'[clock'] = [id \in Ids |-> documents'[id].state]
    BY <1>1, <1>3 DEF ExtendHistory
  <2>2. hist[clock] = [id \in Ids |-> documents[id].state]
    BY LatestIsDocuments DEF Docs
  <2> QED BY <2>1, <2>2 DEF SameDocs
<1>4. ops \in NetworkDiff
  BY PushedOpsType
<1> HIDE DEF ops
<1>5. docChanges \in NetworkDiff /\ ActualChanges(ops, RecordIds) \in NetworkDiff
  BY <1>1, <1>4, ActualChangesType
<1>15. ApplyPush(ops) =>
         hist'[clock']
           = ApplyNetworkDiff(hist[clock], ActualChanges(ops, RecordIds))
  BY <1>3, <1>4, PushLeads DEF RecordIds
<1>16. ApplyPush(ops) /\ Changed(ops) = {} => SameDocs
  <2>1. ASSUME Changed(ops) = {}
        PROVE  \A old \in Docs :
                 ApplyNetworkDiff(old, ActualChanges(ops, RecordIds)) = old
    BY <2>1 DEF ApplyNetworkDiff, ActualChanges, Docs
  <2>2. hist[clock] \in Docs
    BY LatestIsDocuments
  <2> QED BY <1>15, <2>1, <2>2 DEF SameDocs
<1> HIDE DEF docChanges
<1>6. result \in DataMessage /\ result.clientClock = clientClock
  <2>1. result \in DataMessage
    BY <1>1, <1>5, PushResultType
  <2> QED BY <2>1 DEF PushResult
<1> HIDE DEF result
<1>7. Hears(sessions[s], told, <<result>>)
  <2>1. <<result>> \in Seq(DataMessage)
    BY <1>6
  <2>2. Orderly(sessions[s], clock)
    BY <1>2 DEF AllOrderly
  <2> QED BY <1>5, <2>1, <2>2, HearsSendData
<1> HIDE DEF told
<1>8. ASSUME NEW t \in SessionIds, t # s
      PROVE  answered[t] = sessions[t] /\ sessions[t] \in Session
             /\ Orderly(sessions[t], clock)
  BY <1>2, <1>8 DEF Sessions, AllOrderly
<1>9. answered[s] = told /\ announced[s] = told
  BY <1>2 DEF Sessions, BroadcastPatch
<1> HIDE DEF answered
<1>10. ASSUME ApplyPush(ops), NEW t \in SessionIds, t # s
       PROVE  Overhears(sessions[t],
                        IF Changed(ops) = {} THEN answered[t] ELSE announced[t])
  <2>1. Changed(ops) = {} => Overhears(sessions[t], answered[t])
    BY <1>8, <1>10, <1>16, OverhearsItself
  <2>2. Overhears(answered[t], announced[t])
    BY <1>1, <1>5, <1>8, <1>10, <1>15, BroadcastOverheard
  <2> QED BY <1>8, <1>10, <2>1, <2>2
<1> HIDE DEF announced
<1>11. SameDocs => \A t \in SessionIds :
         Overhears(sessions[t],
                   RejectSession(sessions, DocumentsAtFailure(ops), s, TRUE)[t])
  BY <1>1, <1>2, RejectSessionOverheard
<1>12. ~Listening(RejectSession(sessions, DocumentsAtFailure(ops), s, TRUE)[s])
  BY <1>2, RejectedIsDeaf
<1>17. CASE ApplyPush(ops)
         /\ sessions' = IF Changed(ops) = {} THEN answered ELSE announced
  <2>1. sessions'[s] = told
    BY <1>9, <1>17
  <2>2. \A t \in SessionIds \ {s} : Overhears(sessions[t], sessions'[t])
    BY <1>10, <1>17
  <2> QED BY <1>6, <1>7, <1>13, <1>17, <2>1, <2>2
<1>18. CASE /\ UNCHANGED documents
            /\ sessions' =
                 RejectSession(sessions, DocumentsAtFailure(ops), s, TRUE)
  BY <1>11, <1>12, <1>14, <1>18
<1> QED BY <1>3, <1>17, <1>18

-----------------------------------------------------------------------------
(***************************************************************************)
(* The requests of a connected client, its socket and the answers to them: *)
(* told are the clocks of the answers that are on their way or buffered,   *)
(* out are the messages on the socket, reqs the pending requests.          *)
(***************************************************************************)
\* The first n requests were sent.
SentUpTo(reqs, n) ==
    /\ n \in 0..Len(reqs)
    /\ \A j \in 1..Len(reqs) : reqs[j].sent <=> j <= n

\* The answers are for the first requests, in order.
Matched(told, reqs) ==
    /\ Len(told) <= Len(reqs)
    /\ \A i \in 1..Len(told) : told[i] = reqs[i].clientClock

\* The requests on the socket are those from m to n.
InFlight(out, reqs, m, n) ==
    /\ m + Len(out) = n
    /\ \A j \in 1..Len(out) : out[j] = PushMessage(reqs[m + j])

Agree(told, out, reqs, listening) ==
    /\ \A i \in 1..Len(out) : out[i].type = "push"
    /\ Matched(told, reqs)
    /\ \E n \in 0..Len(reqs) :
         /\ SentUpTo(reqs, n)
         /\ Len(told) <= n
         /\ listening => InFlight(out, reqs, Len(told), n)

\* Answers are lost with a connection.
LEMMA AgreeOnLess ==
    ASSUME NEW told \in Seq(Nat), NEW more \in Seq(Nat), NEW less \in Seq(Nat),
           told = less \o more, NEW out \in Seq(ClientMessage),
           NEW reqs \in Seq(DocRequest), NEW on \in BOOLEAN, NEW off \in BOOLEAN,
           Agree(told, out, reqs, on), off => on /\ less = told
    PROVE  Agree(less, out, reqs, off)
<1>1. /\ Len(told) = Len(less) + Len(more) /\ Len(more) \in Nat /\ Len(less) \in Nat
      /\ \A i \in 1..Len(less) : told[i] = less[i]
  OBVIOUS
<1>2. Matched(less, reqs)
  <2>1. Len(reqs) \in Nat /\ 1..Len(less) \subseteq 1..Len(told)
    BY <1>1
  <2>2. Matched(told, reqs)
    BY DEF Agree
  <2> HIDE DEF Agree
  <2> QED BY <1>1, <2>1, <2>2 DEF Matched
<1>3. PICK n \in 0..Len(reqs) : /\ SentUpTo(reqs, n) /\ Len(told) <= n
                                /\ on => InFlight(out, reqs, Len(told), n)
  BY DEF Agree
<1>4. Len(less) <= n
  <2>1. n \in Nat
    OBVIOUS
  <2> QED BY <1>1, <1>3, <2>1
<1>5. off => InFlight(out, reqs, Len(less), n)
  BY <1>3
<1> QED BY <1>2, <1>3, <1>4, <1>5 DEF Agree

\* More requests, not sent yet.
LEMMA AgreeOnMore ==
    ASSUME NEW told \in Seq(Nat), NEW out \in Seq(ClientMessage),
           NEW reqs \in Seq(DocRequest), NEW more \in Seq(DocRequest),
           NEW on \in BOOLEAN,
           Agree(told, out, reqs, on), MoreUnsent(reqs, more)
    PROVE  Agree(told, out, more, on)
<1>1. PICK n \in 0..Len(reqs) : /\ SentUpTo(reqs, n) /\ Len(told) <= n
                                /\ on => InFlight(out, reqs, Len(told), n)
  BY DEF Agree
<1>2. /\ Len(reqs) \in Nat /\ Len(more) \in Nat /\ Len(told) \in Nat
      /\ Len(out) \in Nat /\ Len(reqs) <= Len(more) /\ n \in Nat /\ n <= Len(reqs)
  BY DEF MoreUnsent
<1>3. ASSUME NEW j \in 1..Len(reqs)
      PROVE  /\ more[j].sent = reqs[j].sent
             /\ more[j].clientClock = reqs[j].clientClock
             /\ reqs[j].sent => PushMessage(more[j]) = PushMessage(reqs[j])
  BY DEF MoreUnsent, PushMessage
<1>4. SentUpTo(more, n)
  <2>1. ASSUME NEW j \in 1..Len(more) PROVE more[j].sent <=> j <= n
    <3>1. CASE j <= Len(reqs)
      BY <1>1, <1>2, <1>3, <3>1, SMTT(30) DEF SentUpTo
    <3>2. CASE j > Len(reqs)
      <4>1. j \in Len(reqs) + 1..Len(more) /\ ~(j <= n)
        BY <1>2, <3>2
      <4> QED BY <4>1 DEF MoreUnsent
    <3> QED BY <1>2, <3>1, <3>2
  <2>2. n \in 0..Len(more)
    BY <1>2
  <2> QED BY <2>1, <2>2 DEF SentUpTo
<1>5. Matched(told, more)
  <2>1. Matched(told, reqs)
    BY DEF Agree
  <2>2. 1..Len(told) \subseteq 1..Len(reqs) /\ Len(told) <= Len(more)
    BY <1>2, <2>1 DEF Matched
  <2> QED BY <1>3, <2>1, <2>2 DEF Matched
<1>6. ASSUME on PROVE InFlight(out, more, Len(told), n)
  <2>1. InFlight(out, reqs, Len(told), n)
    BY <1>1, <1>6
  <2>2. ASSUME NEW j \in 1..Len(out)
        PROVE  out[j] = PushMessage(more[Len(told) + j])
    <3>1. Len(told) + j \in 1..Len(reqs) /\ Len(told) + j <= n
      BY <1>2, <2>1 DEF InFlight
    <3>2. reqs[Len(told) + j].sent
      BY <1>1, <3>1 DEF SentUpTo
    <3> QED BY <1>3, <2>1, <3>1, <3>2 DEF InFlight
  <2> QED BY <2>1, <2>2 DEF InFlight
<1>7. n \in 0..Len(more)
  BY <1>2
<1>8. \A i \in 1..Len(out) : out[i].type = "push"
  BY DEF Agree
<1> QED BY <1>1, <1>4, <1>5, <1>6, <1>7, <1>8 DEF Agree

\* The room takes a request from the socket and answers it.
LEMMA AgreeOnAnswer ==
    ASSUME NEW told \in Seq(Nat), NEW out \in Seq(ClientMessage), out # <<>>,
           NEW reqs \in Seq(DocRequest), NEW on \in BOOLEAN,
           Agree(told, out, reqs, on)
    PROVE  /\ on => Agree(told \o <<Head(out).clientClock>>, Tail(out), reqs, TRUE)
           /\ Head(out).clientClock \in Nat
           /\ Agree(told, Tail(out), reqs, FALSE)
<1> DEFINE rest == Tail(out)
           clock1 == Head(out).clientClock
           next == told \o <<clock1>>
<1>1. PICK n \in 0..Len(reqs) : /\ SentUpTo(reqs, n) /\ Len(told) <= n
                                /\ on => InFlight(out, reqs, Len(told), n)
  BY DEF Agree
<1>2. /\ rest \in Seq(ClientMessage) /\ Len(rest) = Len(out) - 1
      /\ \A i \in 1..Len(rest) : rest[i] = out[i + 1]
      /\ Head(out) = out[1] /\ Len(out) \in Nat \ {0} /\ Len(rest) \in Nat
      /\ Head(out) \in ClientMessage
  OBVIOUS
<1>3. /\ \A i \in 1..Len(out) : out[i].type = "push"
      /\ Matched(told, reqs)
  BY DEF Agree
<1>4. \A i \in 1..Len(rest) : rest[i].type = "push"
  <2>1. \A i \in 1..Len(rest) : i + 1 \in 1..Len(out)
    BY <1>2
  <2> QED BY <1>2, <1>3, <2>1
<1>5. clock1 \in Nat
  <2>1. Head(out).type = "push"
    BY <1>2, <1>3
  <2> QED BY <1>2, <2>1 DEF ClientMessage
<1> HIDE DEF rest
<1>6. Agree(told, rest, reqs, FALSE)
  BY <1>1, <1>3, <1>4 DEF Agree
<1>7. ASSUME on PROVE Agree(next, rest, reqs, TRUE)
  <2> HIDE DEF clock1
  <2>1. /\ Len(next) = Len(told) + 1 /\ Len(told) \in Nat
        /\ \A i \in 1..Len(told) : next[i] = told[i]
        /\ next[Len(told) + 1] = clock1
    BY <1>5
  <2> HIDE DEF next
  <2>2. InFlight(out, reqs, Len(told), n)
    BY <1>1, <1>7
  <2>3. /\ Len(told) + Len(out) = n
        /\ \A j \in 1..Len(out) : out[j] = PushMessage(reqs[Len(told) + j])
    BY <2>2 DEF InFlight
  <2>4. n \in Nat /\ Len(reqs) \in Nat /\ n <= Len(reqs)
    OBVIOUS
  <2>5. InFlight(rest, reqs, Len(next), n)
    <3>1. Len(next) + Len(rest) = n
      BY <1>2, <2>1, <2>3
    <3>2. ASSUME NEW j \in 1..Len(rest)
          PROVE  rest[j] = PushMessage(reqs[Len(next) + j])
      <4>1. j + 1 \in 1..Len(out) /\ Len(told) + (j + 1) = Len(next) + j
        <5>1. Len(rest) = Len(out) - 1 /\ Len(out) \in Nat /\ j \in Nat
              /\ j <= Len(rest) /\ 1 <= j
          BY <1>2
        <5>2. Len(next) = Len(told) + 1 /\ Len(told) \in Nat
          BY <2>1
        <5>3. j + 1 \in 1..Len(out)
          BY <5>1
        <5> QED BY <5>1, <5>2, <5>3
      <4>2. out[j + 1] = PushMessage(reqs[Len(told) + (j + 1)])
        BY <2>3, <4>1
      <4> QED BY <1>2, <4>1, <4>2
    <3> QED BY <3>1, <3>2 DEF InFlight
  <2>6. clock1 = reqs[Len(told) + 1].clientClock
    <3>1. out[1] = PushMessage(reqs[Len(told) + 1])
      BY <1>2, <2>3
    <3> QED BY <1>2, <3>1 DEF clock1, PushMessage
  <2>7. Len(next) <= n
    BY <1>2, <2>1, <2>3
  <2>8. Matched(next, reqs)
    <3>1. ASSUME NEW i \in 1..Len(next) PROVE next[i] = reqs[i].clientClock
      <4>1. CASE i <= Len(told)
        <5>1. i \in 1..Len(told)
          BY <2>1, <4>1
        <5> QED BY <1>3, <2>1, <5>1 DEF Matched
      <4>2. CASE i = Len(told) + 1
        BY <2>1, <2>6, <4>2
      <4> QED BY <2>1, <4>1, <4>2
    <3>2. Len(next) <= Len(reqs)
      BY <2>1, <2>4, <2>7
    <3> QED BY <3>1, <3>2 DEF Matched
  <2> QED BY <1>1, <1>4, <2>5, <2>7, <2>8 DEF Agree
<1> QED BY <1>5, <1>6, <1>7 DEF rest

\* A rebase takes the answered requests from the front.
LEMMA AgreeOnRest ==
    ASSUME NEW first \in Seq(Nat), NEW told \in Seq(Nat),
           NEW out \in Seq(ClientMessage), NEW reqs \in Seq(DocRequest),
           NEW on \in BOOLEAN, Agree(first \o told, out, reqs, on)
    PROVE  Agree(told, out, Rest(reqs, Len(first)), on)
<1> DEFINE all == first \o told
           m == Len(first)
           rest == Rest(reqs, m)
<1>1. /\ Len(all) = m + Len(told) /\ m \in Nat /\ Len(told) \in Nat
      /\ \A i \in 1..Len(told) : all[m + i] = told[i]
  <2>1. Len(all) = m + Len(told) /\ m \in Nat /\ Len(told) \in Nat
    OBVIOUS
  <2>2. ASSUME NEW i \in 1..Len(told) PROVE all[m + i] = told[i]
    <3>1. m + i \in 1..Len(first) + Len(told) /\ ~(m + i <= Len(first))
          /\ (m + i) - Len(first) = i
      BY <2>1
    <3>2. \A k \in 1..Len(first) + Len(told) :
            all[k] = IF k <= Len(first) THEN first[k] ELSE told[k - Len(first)]
      OBVIOUS
    <3> HIDE DEF all
    <3> QED BY <3>1, <3>2
  <2> QED BY <2>1, <2>2
<1> HIDE DEF all, m
<1>2. PICK n \in 0..Len(reqs) : /\ SentUpTo(reqs, n) /\ Len(all) <= n
                                /\ on => InFlight(out, reqs, Len(all), n)
  BY DEF Agree, all
<1>3. Matched(all, reqs) /\ \A i \in 1..Len(out) : out[i].type = "push"
  BY DEF Agree, all
<1>4. /\ Len(reqs) \in Nat /\ n \in Nat /\ n <= Len(reqs) /\ Len(out) \in Nat
      /\ m \in 0..Len(reqs) /\ m <= n
  BY <1>1, <1>2
<1>5. /\ rest \in Seq(DocRequest) /\ Len(rest) = Len(reqs) - m
      /\ \A i \in 1..Len(reqs) - m : rest[i] = reqs[m + i]
  BY <1>4, RestIs
<1> HIDE DEF rest
<1>6. Matched(told, rest)
  <2>1. Len(told) <= Len(rest)
    BY <1>1, <1>2, <1>4, <1>5
  <2>2. ASSUME NEW i \in 1..Len(told) PROVE told[i] = rest[i].clientClock
    <3>1. m + i \in 1..Len(all) /\ i \in 1..Len(reqs) - m
      BY <1>1, <1>4, <1>5, <2>1
    <3> QED BY <1>1, <1>3, <1>5, <3>1 DEF Matched
  <2> QED BY <2>1, <2>2 DEF Matched
<1>7. SentUpTo(rest, n - m)
  <2>1. n - m \in 0..Len(rest)
    BY <1>4, <1>5
  <2>2. ASSUME NEW j \in 1..Len(rest) PROVE rest[j].sent <=> j <= n - m
    <3>1. m + j \in 1..Len(reqs) /\ (m + j <= n <=> j <= n - m)
      BY <1>4, <1>5
    <3>2. rest[j] = reqs[m + j]
      BY <1>5
    <3> QED BY <1>2, <3>1, <3>2 DEF SentUpTo
  <2> QED BY <2>1, <2>2 DEF SentUpTo
<1>8. ASSUME on PROVE InFlight(out, rest, Len(told), n - m)
  <2>1. /\ Len(all) + Len(out) = n
        /\ \A j \in 1..Len(out) : out[j] = PushMessage(reqs[Len(all) + j])
    BY <1>2, <1>8 DEF InFlight
  <2>2. ASSUME NEW j \in 1..Len(out)
        PROVE  out[j] = PushMessage(rest[Len(told) + j])
    <3>1. Len(told) + j \in 1..Len(reqs) - m
          /\ m + (Len(told) + j) = Len(all) + j
      BY <1>1, <1>4, <2>1
    <3>2. rest[Len(told) + j] = reqs[m + (Len(told) + j)]
      BY <1>5, <3>1
    <3> QED BY <2>1, <3>1, <3>2
  <2>3. Len(told) + Len(out) = n - m
    BY <1>1, <1>4, <2>1
  <2> QED BY <2>2, <2>3 DEF InFlight
<1>9. n - m \in 0..Len(rest) /\ Len(told) <= n - m
  BY <1>1, <1>2, <1>4, <1>5
<1> QED BY <1>3, <1>6, <1>7, <1>8, <1>9 DEF Agree, rest, m

\* flushPendingPushRequests sends the requests that were not sent, in order.
LEMMA SendsTheRest ==
    ASSUME NEW out \in Seq(ClientMessage), NEW reqs \in Seq(DocRequest),
           NEW n \in 0..Len(reqs), SentUpTo(reqs, n)
    PROVE  LET sent == FoldLeft(SendPush, out, reqs)
           IN  /\ sent \in Seq(ClientMessage)
               /\ Len(sent) = Len(out) + (Len(reqs) - n)
               /\ \A k \in 1..Len(out) : sent[k] = out[k]
               /\ \A k \in Len(out) + 1..Len(sent) :
                    sent[k] = PushMessage(reqs[n + (k - Len(out))])
<1> DEFINE l == Len(out)
           r == Len(reqs)
           at(k) == IF k <= l THEN out[k] ELSE PushMessage(reqs[n + (k - l)])
           flight(x) == [k \in 1..l + x |-> at(k)]
           acc == [i \in 0..r |-> IF i <= n THEN out ELSE flight(i - n)]
           sent == FoldLeft(SendPush, out, reqs)
<1>1. l \in Nat /\ r \in Nat /\ n \in Nat /\ n <= r
  OBVIOUS
<1>2. ASSUME NEW req \in DocRequest PROVE PushMessage(req) \in ClientMessage
  BY DEF PushMessage, DocRequest, ClientMessage
<1>3. \A i \in 1..r : reqs[i] \in DocRequest
  OBVIOUS
<1>4. \A i \in 1..r : reqs[i].sent <=> i <= n
  BY DEF SentUpTo
<1>5. \A k \in 1..l : at(k) = out[k] /\ out[k] \in ClientMessage
  OBVIOUS
<1> HIDE DEF l, r
<1>6. \A k \in l + 1..l + (r - n) :
        at(k) = PushMessage(reqs[n + (k - l)]) /\ at(k) \in ClientMessage
  <2> TAKE k \in l + 1..l + (r - n)
  <2>1. n + (k - l) \in 1..r /\ ~(k <= l)
    BY <1>1
  <2> QED BY <1>2, <1>3, <2>1
<1>7. \A k \in 1..l + (r - n) : at(k) \in ClientMessage
  BY <1>1, <1>5, <1>6
<1> HIDE DEF at
<1>8. ASSUME NEW x \in 0..r - n
      PROVE  flight(x) \in Seq(ClientMessage) /\ Len(flight(x)) = l + x
             /\ \A k \in 1..l + x : flight(x)[k] = at(k)
  <2>1. l + x \in Nat /\ \A k \in 1..l + x : at(k) \in ClientMessage
    BY <1>1, <1>7
  <2> QED BY <2>1
<1> HIDE DEF flight
<1>9. flight(0) = out
  <2>1. 0 \in 0..r - n /\ l + 0 = l
    BY <1>1
  <2>2. /\ flight(0) \in Seq(ClientMessage) /\ Len(flight(0)) = l
        /\ \A k \in 1..l : flight(0)[k] = at(k)
    BY <1>8, <2>1
  <2>3. Len(out) = l /\ \A k \in 1..l : at(k) = out[k]
    BY <1>5 DEF l
  <2> QED BY <2>2, <2>3, SeqEqual
<1>10. ASSUME NEW x \in Nat, x + 1 \in 0..r - n
       PROVE  Append(flight(x), PushMessage(reqs[n + x + 1])) = flight(x + 1)
  <2> DEFINE msg == PushMessage(reqs[n + x + 1])
             longer == Append(flight(x), msg)
  <2>1. x \in 0..r - n /\ n + x + 1 \in 1..r
    BY <1>1, <1>10
  <2>2. msg \in ClientMessage
    BY <1>2, <1>3, <2>1
  <2>3. /\ flight(x) \in Seq(ClientMessage) /\ Len(flight(x)) = l + x
        /\ \A k \in 1..l + x : flight(x)[k] = at(k)
    BY <1>8, <2>1
  <2>4. /\ flight(x + 1) \in Seq(ClientMessage) /\ Len(flight(x + 1)) = l + (x + 1)
        /\ \A k \in 1..l + (x + 1) : flight(x + 1)[k] = at(k)
    BY <1>8, <1>10
  <2>5. at(l + x + 1) = msg
    <3>1. l + x + 1 \in l + 1..l + (r - n) /\ n + ((l + x + 1) - l) = n + x + 1
      BY <1>1, <2>1, <1>10
    <3> QED BY <1>6, <3>1
  <2> HIDE DEF msg
  <2>6. /\ longer \in Seq(ClientMessage) /\ Len(longer) = l + x + 1
        /\ \A k \in 1..l + x : longer[k] = flight(x)[k]
        /\ longer[l + x + 1] = msg
    BY <2>2, <2>3, AppendProperties
  <2> HIDE DEF longer
  <2>7. ASSUME NEW k \in 1..l + (x + 1) PROVE longer[k] = flight(x + 1)[k]
    <3>1. CASE k \in 1..l + x
      BY <2>3, <2>4, <2>6, <3>1
    <3>2. CASE k = l + x + 1
      BY <2>4, <2>5, <2>6, <3>2
    <3> QED BY <1>1, <3>1, <3>2, SMTT(30)
  <2>8. Len(longer) = Len(flight(x + 1)) /\ Len(longer) = l + (x + 1)
    BY <1>1, <2>4, <2>6
  <2>9. longer = flight(x + 1)
    BY <2>4, <2>6, <2>7, <2>8, SeqEqual
  <2> QED BY <2>9 DEF longer, msg
<1>11. acc[0] = out
  BY <1>1
<1>12. ASSUME NEW i \in 1..r PROVE acc[i] = SendPush(acc[i - 1], reqs[i])
  <2>1. CASE i <= n
    <3>1. acc[i] = out /\ acc[i - 1] = out /\ reqs[i].sent
      BY <1>1, <1>4, <2>1
    <3> HIDE DEF acc
    <3> QED BY <3>1 DEF SendPush
  <2>2. CASE i > n
    <3>1. /\ acc[i] = flight(i - n) /\ ~reqs[i].sent
          /\ acc[i - 1] = IF i - 1 <= n THEN out ELSE flight((i - 1) - n)
      BY <1>1, <1>4, <2>2
    <3> DEFINE x == (i - 1) - n
    <3>2. /\ x \in Nat /\ x + 1 = i - n /\ x + 1 \in 0..r - n
          /\ n + x + 1 = i /\ (i - 1 <= n => x = 0)
      BY <1>1, <2>2
    <3>3. acc[i - 1] = flight(x)
      BY <1>9, <3>1, <3>2
    <3> HIDE DEF acc, x
    <3>4. Append(flight(x), PushMessage(reqs[i])) = flight(i - n)
      BY <1>10, <3>2
    <3> QED BY <3>1, <3>3, <3>4 DEF SendPush
  <2> QED BY <1>1, <2>1, <2>2
<1>13. sent = acc[r]
  <2> HIDE DEF acc
  <2>1. Sending!Fold(out, reqs) = acc[r]
    BY <1>11, <1>12, Sending!FoldIs DEF r
  <2> QED BY <2>1, ClientFolds
<1>14. acc[r] = flight(r - n)
  <2>1. CASE r <= n
    BY <1>1, <1>9, <2>1
  <2>2. CASE ~(r <= n)
    BY <1>1, <2>2
  <2> QED BY <2>1, <2>2
<1> HIDE DEF acc, sent
<1>15. /\ sent \in Seq(ClientMessage) /\ Len(sent) = l + (r - n)
       /\ \A k \in 1..l + (r - n) : sent[k] = at(k)
  <2>1. r - n \in 0..r - n
    BY <1>1
  <2> QED BY <1>8, <1>13, <1>14, <2>1
<1>16. ASSUME NEW k \in 1..l PROVE sent[k] = out[k]
  BY <1>1, <1>5, <1>15
<1>17. ASSUME NEW k \in l + 1..Len(sent)
       PROVE  sent[k] = PushMessage(reqs[n + (k - l)])
  BY <1>1, <1>6, <1>15
<1> QED BY <1>15, <1>16, <1>17 DEF sent, l, r

\* The requests after a flush.
Flagged(reqs) == [i \in DOMAIN reqs |-> [reqs[i] EXCEPT !.sent = TRUE]]

\* A flush puts what was not sent on the socket.
LEMMA AgreeOnFlush ==
    ASSUME NEW told \in Seq(Nat), NEW out \in Seq(ClientMessage),
           NEW reqs \in Seq(DocRequest), NEW on \in BOOLEAN,
           Agree(told, out, reqs, on)
    PROVE  Agree(told, FoldLeft(SendPush, out, reqs), Flagged(reqs), on)
<1> DEFINE sent == FoldLeft(SendPush, out, reqs)
           flags == Flagged(reqs)
           m == Len(told)
           l == Len(out)
           r == Len(reqs)
<1>1. PICK n \in 0..r : /\ SentUpTo(reqs, n) /\ m <= n
                        /\ on => InFlight(out, reqs, m, n)
  BY DEF Agree
<1>2. /\ sent \in Seq(ClientMessage)
      /\ Len(sent) = l + (r - n)
      /\ \A k \in 1..l : sent[k] = out[k]
      /\ \A k \in l + 1..Len(sent) : sent[k] = PushMessage(reqs[n + (k - l)])
  BY <1>1, SendsTheRest
<1>3. l \in Nat /\ r \in Nat /\ m \in Nat /\ n \in Nat /\ n <= r
  OBVIOUS
<1>4. ASSUME NEW i \in 1..r
      PROVE  /\ reqs[i] \in DocRequest /\ flags[i].sent
             /\ flags[i].clientClock = reqs[i].clientClock
             /\ PushMessage(flags[i]) = PushMessage(reqs[i])
  <2>1. reqs[i] \in DocRequest /\ i \in DOMAIN reqs
    OBVIOUS
  <2>2. flags[i] = [reqs[i] EXCEPT !.sent = TRUE]
    <3> HIDE DEF r
    <3> QED BY <2>1 DEF Flagged
  <2> HIDE DEF flags
  <2> QED BY <2>1, <2>2 DEF DocRequest, PushMessage
<1>5. flags \in Seq(DocRequest) /\ Len(flags) = r
  <2>1. ASSUME NEW i \in 1..r PROVE [reqs[i] EXCEPT !.sent = TRUE] \in DocRequest
    <3>1. reqs[i] \in DocRequest
      OBVIOUS
    <3> QED BY <3>1 DEF DocRequest
  <2>2. flags = [i \in 1..r |-> [reqs[i] EXCEPT !.sent = TRUE]]
    BY DEF Flagged
  <2> QED BY <1>3, <2>1, <2>2
<1>6. Matched(told, reqs) /\ \A i \in 1..l : out[i].type = "push"
  BY DEF Agree
<1> HIDE DEF sent, flags, m, l, r
<1>7. Matched(told, flags)
  <2>1. m <= r /\ \A i \in 1..m : told[i] = reqs[i].clientClock
    BY <1>6 DEF Matched, m, r
  <2>2. 1..m \subseteq 1..r
    BY <1>3, <2>1
  <2> QED BY <1>4, <1>5, <2>1, <2>2 DEF Matched, m
<1>8. SentUpTo(flags, r)
  BY <1>3, <1>4, <1>5 DEF SentUpTo
<1>9. \A i \in 1..Len(sent) : sent[i].type = "push"
  <2>1. ASSUME NEW i \in 1..Len(sent) PROVE sent[i].type = "push"
    <3>1. CASE i <= l
      <4>1. i \in 1..l
        BY <3>1
      <4> QED BY <1>2, <1>6, <4>1
    <3>2. CASE i > l
      <4>1. i \in l + 1..Len(sent)
        BY <1>3, <3>2
      <4>2. sent[i] = PushMessage(reqs[n + (i - l)])
        BY <1>2, <4>1
      <4>3. PushMessage(reqs[n + (i - l)]).type = "push"
        BY DEF PushMessage
      <4> QED BY <4>2, <4>3
    <3> QED BY <1>3, <3>1, <3>2
  <2> QED BY <2>1
<1>10. ASSUME on PROVE InFlight(sent, flags, m, r)
  <2>1. m + l = n /\ \A j \in 1..l : out[j] = PushMessage(reqs[m + j])
    BY <1>1, <1>10 DEF InFlight, l
  <2>2. m + Len(sent) = r
    BY <1>2, <1>3, <2>1
  <2>3. ASSUME NEW j \in 1..Len(sent) PROVE sent[j] = PushMessage(flags[m + j])
    <3>1. m + j \in 1..r
      BY <1>3, <2>2
    <3>2. CASE j <= l
      <4>1. j \in 1..l
        BY <3>2
      <4> QED BY <1>2, <1>4, <2>1, <3>1, <4>1
    <3>3. CASE j > l
      <4>1. j \in l + 1..Len(sent) /\ n + (j - l) = m + j
        BY <1>3, <2>1, <3>3
      <4> QED BY <1>2, <1>4, <3>1, <4>1
    <3> QED BY <1>3, <3>2, <3>3
  <2> QED BY <2>2, <2>3 DEF InFlight
<1>11. r \in 0..Len(flags) /\ m <= r
  BY <1>1, <1>3, <1>5
<1> QED BY <1>7, <1>8, <1>9, <1>10, <1>11 DEF Agree, sent, flags, m

-----------------------------------------------------------------------------
(***************************************************************************)
(* The conversation of a client with its session.                          *)
(***************************************************************************)
\* The answers that the client has not seen: in its buffer, then on their way.
Told(c, d) == AnsweredBy(c.incomingDiffBuffer) \o AnsweredBy(SessionData(d))

\* Before the room accepts the client there is only the connect request, and no
\* acceptance while the request is still on the socket.
Apart(c, d) ==
    /\ AnsweredBy(SessionData(d)) = <<>>
    /\ Len(c.out) <= 1
    /\ \A i \in 1..Len(c.out) : c.out[i].type = "connect"
    /\ c.out # <<>> => NoConnects(d.wire)

Joined(c, d) ==
    Agree(Told(c, d), c.out, c.pendingPushRequests, Listening(d))

Conversation(c, d) ==
    /\ ~c.isConnectedToRoom =>
         c.pendingPushRequests = <<>> /\ c.incomingDiffBuffer = <<>>
    /\ c.status # SocketOnline => ~c.isConnectedToRoom
    /\ c.status = SocketOnline /\ ~c.isConnectedToRoom => Apart(c, d)
    /\ c.status = SocketOnline /\ c.isConnectedToRoom => Joined(c, d)

\* Nothing of an earlier socket is left to arrive, and every client and its
\* session are in conversation.
Conversations ==
    ~scenario.late =>
        \A s \in SessionIds :
            late[s] = <<>> /\ Conversation(clients[s], sessions[s])

\* A prefix of what is on its way has the first of the answers.
LEMMA PrefixAnswers ==
    ASSUME NEW a \in Seq(DataMessage), NEW b, Prefix(a, b)
    PROVE  /\ AnsweredBy(a) \in Seq(Nat)
           /\ \E more \in Seq(Nat) : AnsweredBy(b) = AnsweredBy(a) \o more
<1>1. PICK rest \in Seq(DataMessage) : b = a \o rest
  BY DEF Prefix
<1> QED BY <1>1, AnsweredConcat, AnsweredByType

\* A session that hears msgs answers what it did, and what msgs answer if it
\* still listens.
LEMMA HeardAnswers ==
    ASSUME NEW d \in Session, NEW e \in Session, NEW msgs \in Seq(DataMessage),
           Hears(d, e, msgs)
    PROVE  LET all == AnsweredBy(SessionData(d)) \o
                        IF Listening(d) THEN AnsweredBy(msgs) ELSE <<>>
           IN  /\ AnsweredBy(SessionData(e)) \in Seq(Nat)
               /\ \E more \in Seq(Nat) : all = AnsweredBy(SessionData(e)) \o more
               /\ Listening(e) => Listening(d) /\ AnsweredBy(SessionData(e)) = all
<1> DEFINE x == SessionData(d)
           y == SessionData(e)
<1>1. x \in Seq(DataMessage) /\ y \in Seq(DataMessage)
  BY SessionDataType
<1>2. /\ Listening(e) => Listening(d) /\ y = x \o msgs
      /\ Listening(d) => Prefix(y, x \o msgs)
      /\ ~Listening(d) => Prefix(y, x)
  BY DEF Hears
<1> HIDE DEF x, y
<1>3. /\ AnsweredBy(x) \in Seq(Nat) /\ AnsweredBy(y) \in Seq(Nat)
      /\ AnsweredBy(x \o msgs) = AnsweredBy(x) \o AnsweredBy(msgs)
  BY <1>1, AnsweredConcat, AnsweredByType
<1>4. AnsweredBy(x) \o <<>> = AnsweredBy(x)
  BY <1>3
<1> DEFINE all == AnsweredBy(x) \o IF Listening(d) THEN AnsweredBy(msgs) ELSE <<>>
<1>5. CASE Listening(d)
  <2>1. all = AnsweredBy(x \o msgs)
    BY <1>3, <1>5
  <2>2. \E more \in Seq(Nat) : AnsweredBy(x \o msgs) = AnsweredBy(y) \o more
    BY <1>1, <1>2, <1>5, PrefixAnswers
  <2>3. Listening(e) => AnsweredBy(y) = AnsweredBy(x \o msgs)
    BY <1>2
  <2> HIDE DEF all
  <2> QED BY <1>3, <1>5, <2>1, <2>2, <2>3 DEF x, y, all
<1>6. CASE ~Listening(d)
  <2>1. all = AnsweredBy(x)
    BY <1>4, <1>6
  <2>2. \E more \in Seq(Nat) : AnsweredBy(x) = AnsweredBy(y) \o more
    BY <1>1, <1>2, <1>6, PrefixAnswers
  <2> HIDE DEF all
  <2> QED BY <1>2, <1>3, <1>6, <2>1, <2>2 DEF x, y, all
<1> QED BY <1>5, <1>6

\* Sequences that are empty together are empty.
LEMMA BothEmpty ==
    ASSUME NEW a \in Seq(Nat), NEW b \in Seq(Nat), a \o b = <<>>
    PROVE  a = <<>>
<1>1. Len(a \o b) = Len(a) + Len(b) /\ Len(a) \in Nat /\ Len(b) \in Nat
  OBVIOUS
<1>2. Len(a) = 0
  BY <1>1
<1> QED BY <1>2

\* The answers that are lost with a connection are the last ones.
LEMMA ToldLess ==
    ASSUME NEW c \in Client, NEW e \in Session, NEW more \in Seq(Nat)
    PROVE  /\ Told(c, e) \in Seq(Nat)
           /\ AnsweredBy(c.incomingDiffBuffer) \o
                (AnsweredBy(SessionData(e)) \o more) = Told(c, e) \o more
<1> DEFINE first == AnsweredBy(c.incomingDiffBuffer)
           rest == AnsweredBy(SessionData(e))
<1>1. first \in Seq(Nat) /\ rest \in Seq(Nat)
  <2>1. c.incomingDiffBuffer \in Seq(DataMessage)
    BY DEF Client
  <2> QED BY <2>1, SessionDataType, AnsweredByType
<1>2. Told(c, e) = first \o rest
  BY DEF Told
<1> HIDE DEF first, rest
<1>3. first \o rest \in Seq(Nat)
  BY <1>1
<1>4. (first \o rest) \o more = first \o (rest \o more)
  BY <1>1, ClocksAssoc, Zenon
<1> QED BY <1>2, <1>3, <1>4 DEF first, rest

\* What is known of the socket depends on whether its session listens.
LEMMA JoinedIs ==
    ASSUME NEW c, NEW d
    PROVE  Joined(c, d) <=>
             /\ Agree(Told(c, d), c.out, c.pendingPushRequests, FALSE)
             /\ Listening(d) =>
                  Agree(Told(c, d), c.out, c.pendingPushRequests, TRUE)
<1> DEFINE told == Told(c, d)
           out == c.out
           reqs == c.pendingPushRequests
<1> HIDE DEF told, out, reqs
<1>1. CASE Listening(d)
  <2>1. Agree(told, out, reqs, Listening(d)) <=> Agree(told, out, reqs, TRUE)
    BY <1>1 DEF Agree
  <2>2. Agree(told, out, reqs, TRUE) => Agree(told, out, reqs, FALSE)
    BY DEF Agree
  <2> QED BY <1>1, <2>1, <2>2 DEF Joined, told, out, reqs
<1>2. CASE ~Listening(d)
  <2>1. Agree(told, out, reqs, Listening(d)) <=> Agree(told, out, reqs, FALSE)
    BY <1>2 DEF Agree
  <2> QED BY <1>2, <2>1 DEF Joined, told, out, reqs
<1> QED BY <1>1, <1>2

\* The conversation of a session that listens no more.
LEMMA LessDeaf ==
    ASSUME NEW less \in Seq(Nat), NEW more \in Seq(Nat),
           NEW out \in Seq(ClientMessage), NEW reqs \in Seq(DocRequest),
           Agree(less \o more, out, reqs, FALSE)
    PROVE  Agree(less, out, reqs, FALSE)
<1> DEFINE told == less \o more
<1>1. told \in Seq(Nat) /\ told = less \o more
  OBVIOUS
<1>2. FALSE \in BOOLEAN
  OBVIOUS
<1>3. Agree(told, out, reqs, FALSE)
  OBVIOUS
<1> HIDE DEF told
<1> QED BY <1>1, <1>2, <1>3, AgreeOnLess

\* A conversation in which the session hears no answer goes on.
LEMMA ConversationOverheard ==
    ASSUME NEW c \in Client, NEW d \in Session, NEW e \in Session,
           Overhears(d, e), Conversation(c, d)
    PROVE  Conversation(c, e)
<1>1. PICK msgs \in Seq(DataMessage) : AnsweredBy(msgs) = <<>> /\ Hears(d, e, msgs)
  BY NewsAnswersNothing DEF Overhears
<1> DEFINE all == AnsweredBy(SessionData(d))
           rest == AnsweredBy(SessionData(e))
<1>2. all \in Seq(Nat) /\ rest \in Seq(Nat)
  BY SessionDataType, AnsweredByType
<1>3. all \o (IF Listening(d) THEN AnsweredBy(msgs) ELSE <<>>) = all
  <2> HIDE DEF all
  <2> QED BY <1>1, <1>2, ConcatEmpty
<1>4. /\ \E more \in Seq(Nat) : all = rest \o more
      /\ Listening(e) => Listening(d) /\ rest = all
  <2> DEFINE heard == all \o (IF Listening(d) THEN AnsweredBy(msgs) ELSE <<>>)
  <2>1. /\ \E more \in Seq(Nat) : heard = rest \o more
        /\ Listening(e) => Listening(d) /\ rest = heard
    BY <1>1, HeardAnswers
  <2>2. heard = all
    BY <1>3
  <2> HIDE DEF heard, all, rest
  <2> QED BY <2>1, <2>2
<1>5. NoConnects(d.wire) => NoConnects(e.wire)
  BY <1>1, OrderlyQueues, ConnectsKept DEF Hears
<1>6. ASSUME Apart(c, d) PROVE Apart(c, e)
  <2>1. all = <<>>
    BY <1>6 DEF Apart
  <2> HIDE DEF all, rest
  <2>2. PICK more : more \in Seq(Nat) /\ all = rest \o more
    BY <1>4
  <2>3. rest = <<>>
    BY <1>2, <2>1, <2>2, BothEmpty
  <2> QED BY <1>5, <1>6, <2>3 DEF Apart, rest
<1>7. ASSUME Joined(c, d) PROVE Joined(c, e)
  <2> DEFINE told == Told(c, d)
             less == Told(c, e)
             reqs == c.pendingPushRequests
             first == AnsweredBy(c.incomingDiffBuffer)
  <2>1. PICK more : more \in Seq(Nat) /\ all = rest \o more
    BY <1>4
  <2>2. less \in Seq(Nat) /\ first \o (rest \o more) = less \o more
    BY <2>1, ToldLess
  <2>3. told = first \o all
    BY DEF Told
  <2>4. rest = all => less = told
    BY DEF Told
  <2>5. reqs \in Seq(DocRequest) /\ c.out \in Seq(ClientMessage)
    BY DEF Client
  <2>6. /\ Agree(told, c.out, reqs, FALSE)
        /\ Listening(d) => Agree(told, c.out, reqs, TRUE)
    BY <1>7, JoinedIs
  <2> HIDE DEF told, less, reqs, rest, all, first
  <2>7. told = less \o more
    BY <2>1, <2>2, <2>3
  <2>8. Agree(less, c.out, reqs, FALSE)
    BY <2>1, <2>2, <2>5, <2>6, <2>7, LessDeaf
  <2>9. Listening(e) => Agree(less, c.out, reqs, TRUE)
    BY <1>4, <2>4, <2>6
  <2> QED BY <2>8, <2>9, JoinedIs DEF less, reqs
<1> QED BY <1>6, <1>7 DEF Conversation

-----------------------------------------------------------------------------
(***************************************************************************)
(* What the client does by itself.                                         *)
(***************************************************************************)
\* The client appends requests that it has not sent, and no more.
OnlyPushes(c, e) ==
    /\ e.status = c.status /\ e.isConnectedToRoom = c.isConnectedToRoom
    /\ e.incomingDiffBuffer = c.incomingDiffBuffer /\ e.out = c.out
    /\ MoreUnsent(c.pendingPushRequests, e.pendingPushRequests)
    /\ ~c.isConnectedToRoom => e.pendingPushRequests = c.pendingPushRequests

\* The types of a conversation.
LEMMA ConversationType ==
    ASSUME NEW c \in Client, NEW d \in Session
    PROVE  /\ AnsweredBy(c.incomingDiffBuffer) \in Seq(Nat)
           /\ AnsweredBy(SessionData(d)) \in Seq(Nat)
           /\ Told(c, d) \in Seq(Nat)
           /\ c.out \in Seq(ClientMessage)
           /\ c.pendingPushRequests \in Seq(DocRequest)
<1>1. AnsweredBy(c.incomingDiffBuffer) \in Seq(Nat)
  <2>1. c.incomingDiffBuffer \in Seq(DataMessage)
    BY DEF Client
  <2> QED BY <2>1, AnsweredByType
<1>2. AnsweredBy(SessionData(d)) \in Seq(Nat)
  BY SessionDataType, AnsweredByType
<1>3. Told(c, d) \in Seq(Nat)
  BY <1>1, <1>2 DEF Told
<1> QED BY <1>1, <1>2, <1>3 DEF Client

\* Pushing leaves the conversation as it is.
LEMMA ConversationPushed ==
    ASSUME NEW c \in Client, NEW e \in Client, NEW d \in Session,
           Conversation(c, d), OnlyPushes(c, e)
    PROVE  Conversation(e, d)
<1>1. Told(e, d) = Told(c, d)
  BY DEF Told, OnlyPushes
<1>2. Apart(c, d) => Apart(e, d)
  BY DEF Apart, OnlyPushes
<1>3. ASSUME Joined(c, d) PROVE Joined(e, d)
  <2> DEFINE told == Told(c, d)
             out == c.out
             reqs == c.pendingPushRequests
             more == e.pendingPushRequests
  <2>1. /\ told \in Seq(Nat) /\ out \in Seq(ClientMessage)
        /\ reqs \in Seq(DocRequest) /\ more \in Seq(DocRequest)
    BY ConversationType
  <2>2. /\ Agree(told, out, reqs, FALSE)
        /\ Listening(d) => Agree(told, out, reqs, TRUE)
    BY <1>3, JoinedIs
  <2>3. MoreUnsent(reqs, more) /\ e.out = out
    BY DEF OnlyPushes
  <2> HIDE DEF told, out, reqs, more
  <2>4. Agree(told, out, more, FALSE)
    BY <2>1, <2>2, <2>3, AgreeOnMore
  <2>5. Listening(d) => Agree(told, out, more, TRUE)
    BY <2>1, <2>2, <2>3, AgreeOnMore
  <2> QED BY <1>1, <2>3, <2>4, <2>5, JoinedIs DEF told, more
<1> QED BY <1>2, <1>3 DEF Conversation, OnlyPushes

\* Pushed as far as the conversation is concerned.
LEMMA PushedOnlyPushes ==
    ASSUME NEW c \in Client, NEW e \in Client, Pushed(c, e)
    PROVE  OnlyPushes(c, e)
BY DEF Pushed, OnlyPushes, Client

\* Pushing twice.
LEMMA OnlyPushesTransitive ==
    ASSUME NEW a \in Client, NEW b \in Client, NEW c \in Client,
           OnlyPushes(a, b), OnlyPushes(b, c)
    PROVE  OnlyPushes(a, c)
<1>1. /\ a.pendingPushRequests \in Seq(DocRequest)
      /\ b.pendingPushRequests \in Seq(DocRequest)
      /\ c.pendingPushRequests \in Seq(DocRequest)
  BY DEF Client
<1>2. MoreUnsent(a.pendingPushRequests, c.pendingPushRequests)
  BY <1>1, MoreUnsentTransitive DEF OnlyPushes
<1> QED BY <1>2 DEF OnlyPushes

\* What does not touch requests, socket or buffer.
LEMMA OnlyPushesNothing ==
    ASSUME NEW c \in Client, NEW e \in Client,
           e.status = c.status, e.isConnectedToRoom = c.isConnectedToRoom,
           e.incomingDiffBuffer = c.incomingDiffBuffer, e.out = c.out,
           e.pendingPushRequests = c.pendingPushRequests
    PROVE  OnlyPushes(c, e)
<1>1. c.pendingPushRequests \in Seq(DocRequest)
  BY DEF Client
<1> QED BY <1>1, NothingMoreUnsent DEF OnlyPushes

\* The presence that joins the last request, which was not sent, or is a
\* request of its own.
LEMMA PresenceOnlyPushes ==
    ASSUME NEW c \in Client, NEW next \in MaybeRecord
    PROVE  OnlyPushes(c, PushPresenceOp(c, next))
<1> DEFINE last == c.lastPushedPresenceState
           op == CASE next = Absent \/ ~c.isConnectedToRoom -> NoOp
                   [] last = Absent /\ next # Absent -> PutOp(next)
                   [] last # Absent /\ next # Absent ->
                        IF last = next THEN NoOp ELSE PatchOp(DiffRecord(last, next))
           pushed == [c EXCEPT !.lastPushedPresenceState = next]
           reqs == c.pendingPushRequests
           n == Len(reqs)
           req == [reqs[n] EXCEPT !.presence = op]
           joined == [pushed EXCEPT !.pendingPushRequests = [reqs EXCEPT ![n] = req]]
           added == AddPushRequest(pushed, EmptyDiff, op)
           result == PushPresenceOp(c, next)
<1>1. pushed \in Client /\ reqs \in Seq(DocRequest) /\ n \in Nat
  <2>1. pushed \in Client
    BY DEF Client
  <2>2. reqs \in Seq(DocRequest)
    BY DEF Client
  <2> HIDE DEF pushed, reqs
  <2>3. Len(reqs) \in Nat
    BY <2>2
  <2> QED BY <2>1, <2>2, <2>3
<1>2. result \in Client
  BY PushPresenceOpType
<1>3. \/ result = c
      \/ c.isConnectedToRoom /\ PresenceJoinsLastPush(c) /\ result = joined
      \/ c.isConnectedToRoom /\ result = added
  <2> HIDE DEF op
  <2>1. [pushed EXCEPT !.pendingPushRequests[n].presence = op] = joined
    BY DEF Client
  <2> HIDE DEF joined
  <2>2. PushPresenceOp(c, next) = IF ~c.isConnectedToRoom \/ op = NoOp THEN c
                                ELSE IF PresenceJoinsLastPush(c) THEN joined
                                ELSE added
    BY <2>1 DEF PushPresenceOp, op
  <2> HIDE DEF added
  <2> QED BY <2>2
<1> HIDE DEF op
<1>4. CASE result = c
  BY <1>4, OnlyPushesNothing
<1>5. CASE c.isConnectedToRoom /\ PresenceJoinsLastPush(c) /\ result = joined
  <2> DEFINE more == [reqs EXCEPT ![n] = req]
  <2>1. n >= 1 /\ ~reqs[n].sent /\ reqs[n] \in DocRequest
    <3>1. reqs # <<>> /\ ~reqs[n].sent
      BY <1>5 DEF PresenceJoinsLastPush, Last
    <3>2. n >= 1
      BY <1>1, <3>1
    <3>3. n \in 1..Len(reqs)
      BY <1>1, <3>2
    <3>4. reqs[n] \in DocRequest
      BY <1>1, <3>3
    <3> QED BY <3>1, <3>2, <3>4
  <2>2. /\ req.sent = reqs[n].sent /\ req.clientClock = reqs[n].clientClock
        /\ req.diff = reqs[n].diff
    BY <2>1 DEF DocRequest
  <2>3. Len(more) = n /\ \A i \in 1..n : more[i] = IF i = n THEN req ELSE reqs[i]
    <3> HIDE DEF req
    <3> QED BY <1>1
  <2>4. /\ result.status = c.status
        /\ result.isConnectedToRoom = c.isConnectedToRoom
        /\ result.incomingDiffBuffer = c.incomingDiffBuffer
        /\ result.out = c.out /\ result.pendingPushRequests = more
    BY <1>5 DEF Client
  <2> HIDE DEF more, req
  <2>5. ASSUME NEW i \in 1..n
        PROVE  /\ more[i].sent = reqs[i].sent
               /\ more[i].clientClock = reqs[i].clientClock
               /\ more[i].diff = reqs[i].diff
               /\ reqs[i].sent => more[i].presence = reqs[i].presence
    <3>1. more[i] = IF i = n THEN req ELSE reqs[i]
      BY <2>3
    <3>2. CASE i = n
      BY <2>1, <2>2, <3>1, <3>2
    <3>3. CASE i # n
      BY <3>1, <3>3
    <3> QED BY <3>2, <3>3
  <2>6. MoreUnsent(reqs, more)
    <3>1. \A i \in n + 1..n : FALSE
      BY <1>1
    <3> HIDE DEF reqs
    <3> QED BY <1>1, <2>3, <2>5, <3>1 DEF MoreUnsent
  <2> QED BY <1>5, <2>4, <2>6 DEF OnlyPushes
<1>6. CASE c.isConnectedToRoom /\ result = added
  <2>1. /\ added = [pushed EXCEPT !.pendingPushRequests = added.pendingPushRequests,
                                  !.clientClock = added.clientClock]
        /\ MoreUnsent(pushed.pendingPushRequests, added.pendingPushRequests)
    <3> HIDE DEF pushed
    <3> QED BY <1>1, AddPushRequestPushed
  <2> HIDE DEF added
  <2>2. added = [c EXCEPT !.lastPushedPresenceState = next,
                          !.pendingPushRequests = added.pendingPushRequests,
                          !.clientClock = added.clientClock]
    BY <2>1 DEF Client
  <2>3. pushed.pendingPushRequests = reqs
    BY DEF Client
  <2>4. /\ added.status = c.status
        /\ added.isConnectedToRoom = c.isConnectedToRoom
        /\ added.incomingDiffBuffer = c.incomingDiffBuffer
        /\ added.out = c.out
    BY <2>2 DEF Client
  <2> QED BY <1>6, <2>1, <2>3, <2>4 DEF OnlyPushes
<1> QED BY <1>3, <1>4, <1>5, <1>6

\* flushPendingPushRequests puts on the socket what was not sent.
LEMMA ConversationFlushed ==
    ASSUME NEW c \in Client, NEW d \in Session, Conversation(c, d)
    PROVE  Conversation(FlushPendingPushRequests(c), d)
<1> SUFFICES ASSUME c.isConnectedToRoom, c.status = SocketOnline
             PROVE  Conversation(FlushPendingPushRequests(c), d)
  BY DEF FlushPendingPushRequests
<1> DEFINE told == Told(c, d)
           reqs == c.pendingPushRequests
           out == FoldLeft(SendPush, c.out, reqs)
           marked == Flagged(reqs)
           e == [c EXCEPT !.out = out, !.pendingPushRequests = marked]
<1>1. FlushPendingPushRequests(c) = e
  BY DEF FlushPendingPushRequests, Flagged
<1>2. /\ told \in Seq(Nat) /\ c.out \in Seq(ClientMessage)
      /\ reqs \in Seq(DocRequest)
  BY ConversationType
<1>3. /\ Agree(told, c.out, reqs, FALSE)
      /\ Listening(d) => Agree(told, c.out, reqs, TRUE)
  BY JoinedIs DEF Conversation
<1>4. /\ e.out = out /\ e.pendingPushRequests = marked
      /\ e.incomingDiffBuffer = c.incomingDiffBuffer
      /\ e.status = SocketOnline /\ e.isConnectedToRoom
  <2> HIDE DEF out, marked
  <2> QED BY DEF Client
<1> HIDE DEF e
<1>5. Told(e, d) = told
  BY <1>4 DEF Told
<1> HIDE DEF told, reqs
<1>6. Agree(told, out, marked, FALSE)
  BY <1>2, <1>3, AgreeOnFlush
<1>7. Listening(d) => Agree(told, out, marked, TRUE)
  BY <1>2, <1>3, AgreeOnFlush
<1>8. Joined(e, d)
  <2> HIDE DEF out, marked
  <2> QED BY <1>4, <1>5, <1>6, <1>7, JoinedIs
<1> QED BY <1>1, <1>4, <1>8 DEF Conversation

\* A client that is not online says nothing.
LEMMA ConversationOver ==
    ASSUME NEW c, NEW d, c.status # SocketOnline, ~c.isConnectedToRoom,
           c.pendingPushRequests = <<>>, c.incomingDiffBuffer = <<>>
    PROVE  Conversation(c, d)
BY DEF Conversation

\* resetConnection ends the conversation.
LEMMA ResetIs ==
    ASSUME NEW c \in Client, NEW hard \in BOOLEAN
    PROVE  LET e == ResetConnection(c, hard)
           IN  /\ e.status # SocketOnline /\ ~e.isConnectedToRoom
               /\ e.pendingPushRequests = <<>> /\ e.incomingDiffBuffer = <<>>
               /\ c.status # SocketOnline => e.status = c.status
               /\ e.out = c.out
<1> DEFINE next == [id \in RecordIds |-> IF id \in PresenceIds THEN Absent
                                         ELSE c.store[id]]
           there == RemoteChange(c, next)
           atClock == IF hard THEN 0 ELSE there.lastServerClock
           status == IF there.status = SocketOnline THEN SocketOffline
                     ELSE there.status
           e == [there EXCEPT !.lastServerClock = atClock,
                              !.lastPushedPresenceState = Absent,
                              !.isConnectedToRoom = FALSE,
                              !.pendingPushRequests = <<>>,
                              !.incomingDiffBuffer = <<>>,
                              !.status = status]
<1>1. next \in Stores
  BY DEF Client, Stores, MaybeRecord
<1>2. there \in Client /\ there.status = c.status /\ there.out = c.out
  <2>1. there \in Client
    BY <1>1, RemoteChangeType
  <2>2. there.status = c.status /\ there.out = c.out
    <3> HIDE DEF next
    <3> QED BY DEF RemoteChange, Client
  <2> QED BY <2>1, <2>2
<1>3. ResetConnection(c, hard) = e
  BY DEF ResetConnection
<1> HIDE DEF there, atClock
<1>4. /\ e.status = status /\ ~e.isConnectedToRoom /\ e.out = there.out
      /\ e.pendingPushRequests = <<>> /\ e.incomingDiffBuffer = <<>>
  <2> HIDE DEF status
  <2> QED BY <1>2 DEF Client
<1>5. SocketOffline # SocketOnline
  BY DEF SocketOffline, SocketOnline
<1> HIDE DEF e
<1> QED BY <1>2, <1>3, <1>4, <1>5

\* So does the loss of the connection.
LEMMA LostIs ==
    ASSUME NEW c \in Client, NEW fatal \in BOOLEAN, NEW d
    PROVE  Conversation(ConnectionLost(c, fatal), d)
<1> DEFINE lost == [c EXCEPT !.status = SocketOffline]
           reset == ResetConnection(lost, FALSE)
           closed == [reset EXCEPT !.status = SocketClosed]
<1>1. lost \in Client
  BY DEF Client
<1> HIDE DEF lost
<1>2. /\ reset.status # SocketOnline /\ ~reset.isConnectedToRoom
      /\ reset.pendingPushRequests = <<>> /\ reset.incomingDiffBuffer = <<>>
  BY <1>1, ResetIs
<1>3. reset \in Client
  BY <1>1, ResetConnectionType
<1> HIDE DEF reset
<1>4. /\ closed.status # SocketOnline /\ ~closed.isConnectedToRoom
      /\ closed.pendingPushRequests = <<>> /\ closed.incomingDiffBuffer = <<>>
  BY <1>2, <1>3 DEF Client, SocketClosed, SocketOnline
<1>5. ConnectionLost(c, fatal) = IF fatal THEN closed ELSE reset
  BY DEF ConnectionLost, reset, lost
<1> HIDE DEF closed
<1> QED BY <1>2, <1>4, <1>5, ConversationOver

\* The first of the answers are those in the buffer.
LEMMA FirstMatched ==
    ASSUME NEW first \in Seq(Nat), NEW rest \in Seq(Nat),
           NEW reqs \in Seq(DocRequest), Matched(first \o rest, reqs)
    PROVE  /\ Len(first) <= Len(reqs)
           /\ \A i \in DOMAIN first : first[i] = reqs[i].clientClock
<1> DEFINE all == first \o rest
<1>1. /\ Len(all) = Len(first) + Len(rest)
      /\ Len(first) \in Nat /\ Len(rest) \in Nat /\ Len(reqs) \in Nat
      /\ \A i \in 1..Len(first) : all[i] = first[i]
  OBVIOUS
<1>2. DOMAIN first = 1..Len(first)
  OBVIOUS
<1>3. /\ Len(all) <= Len(reqs)
      /\ \A i \in 1..Len(all) : all[i] = reqs[i].clientClock
  BY DEF Matched
<1> HIDE DEF all
<1>4. \A i \in 1..Len(first) : i \in 1..Len(all)
  BY <1>1
<1> QED BY <1>1, <1>2, <1>3, <1>4

\* In a conversation the answers in the buffer are for the requests at the
\* front of the queue.
LEMMA ConversationMatches ==
    ASSUME NEW c \in Client, NEW d \in Session, Conversation(c, d)
    PROVE  AnswersMatch(c)
<1> DEFINE first == AnsweredBy(c.incomingDiffBuffer)
           rest == AnsweredBy(SessionData(d))
           reqs == c.pendingPushRequests
<1>1. first \in Seq(Nat) /\ rest \in Seq(Nat) /\ reqs \in Seq(DocRequest)
  BY ConversationType
<1>2. Told(c, d) = first \o rest
  BY DEF Told
<1>3. CASE c.isConnectedToRoom
  <2>1. Joined(c, d)
    BY <1>3 DEF Conversation
  <2>2. Matched(Told(c, d), reqs)
    BY <2>1 DEF Joined, Agree
  <2> HIDE DEF first, rest, reqs
  <2>3. /\ Len(first) <= Len(reqs)
        /\ \A i \in DOMAIN first : first[i] = reqs[i].clientClock
    BY <1>1, <1>2, <2>2, FirstMatched
  <2> QED BY <2>3 DEF AnswersMatch, first, reqs
<1>4. CASE ~c.isConnectedToRoom
  <2>1. reqs = <<>> /\ c.incomingDiffBuffer = <<>>
    BY <1>4 DEF Conversation
  <2>2. first = <<>>
    BY <2>1, AnsweredEmpty
  <2> HIDE DEF first, reqs
  <2>3. Len(first) = 0 /\ Len(reqs) = 0 /\ DOMAIN first = {}
    BY <2>1, <2>2
  <2> QED BY <2>3 DEF AnswersMatch, first, reqs
<1> QED BY <1>3, <1>4

\* A rebase drops the requests that were answered, or resets the connection.
LEMMA RebaseOntoIs ==
    ASSUME NEW c \in Client, NEW early \in SUBSET Ids, AnswersMatch(c),
           c.incomingDiffBuffer # <<>>
    PROVE  LET e == RebaseOnto(c, early)
           IN  /\ e.incomingDiffBuffer = <<>>
               /\ \/ /\ e.status # SocketOnline /\ ~e.isConnectedToRoom
                     /\ e.pendingPushRequests = <<>>
                  \/ /\ e.status = c.status /\ e.out = c.out
                     /\ e.isConnectedToRoom = c.isConnectedToRoom
                     /\ e.pendingPushRequests =
                          Rest(c.pendingPushRequests,
                               Len(AnsweredBy(c.incomingDiffBuffer)))
<1> DEFINE events == c.incomingDiffBuffer
           undoneStore == ApplyChanges(c.store, ReverseRecordsDiff(c.speculativeChanges))
           undone == [c EXCEPT !.store = undoneStore]
           received == FoldLeft(Receive, undone, events)
           left == received.pendingPushRequests
           base == [store |-> received.store, changes |-> NoChanges,
                    failed |-> FALSE, early |-> early]
           again == FoldLeft(Reapply, base, left)
           there == RemoteChange(c, again.store)
           changes == IF again.failed THEN NoChanges ELSE again.changes
           atClock == Last(events).serverClock
           astray == there.astray \/ (again.failed /\ again.store # received.store)
           rebased == [there EXCEPT
                         !.pendingPushRequests = left,
                         !.speculativeChanges = changes,
                         !.incomingDiffBuffer = <<>>,
                         !.lastServerClock = atClock,
                         !.astray = astray]
<1>1. /\ c.store \in Stores /\ c.speculativeChanges \in DocChanges
      /\ events \in Seq(DataMessage) /\ events # <<>>
  BY DEF Client
<1>2. undoneStore \in Stores
  BY <1>1, ReverseDocChanges, ApplyDocChanges
<1>3. undone \in Client /\ undone.pendingPushRequests = c.pendingPushRequests
  <2> HIDE DEF undoneStore
  <2> QED BY <1>2 DEF Client
<1>4. Len(AnsweredBy(events)) <= Len(undone.pendingPushRequests)
  BY <1>3 DEF AnswersMatch
<1>5. /\ received \in Client
      /\ left = Rest(c.pendingPushRequests, Len(AnsweredBy(events)))
  <2> DEFINE rest == Rest(undone.pendingPushRequests, Len(AnsweredBy(events)))
  <2> HIDE DEF undone, rest
  <2>1. received \in Client
        /\ received = [undone EXCEPT !.store = received.store,
                                     !.pendingPushRequests = rest]
    BY <1>1, <1>3, <1>4, ReceiveAll DEF rest
  <2> HIDE DEF received
  <2>2. received.pendingPushRequests = rest
    BY <1>3, <2>1 DEF Client
  <2> QED BY <1>3, <2>1, <2>2 DEF rest
<1>6. NoChanges \in DocChanges
  BY NoChangesInDiffs DEF DocChanges
<1>7. again \in Again
  <2> HIDE DEF received
  <2>1. base \in Again /\ received.pendingPushRequests \in Seq(DocRequest)
    BY <1>5, <1>6 DEF Again, Client
  <2> HIDE DEF base
  <2>2. Reapplying!Fold(base, received.pendingPushRequests) \in Again
    BY <2>1, ReapplyType, Reapplying!FoldKeeps
  <2> QED BY <2>2, ClientFolds
<1> HIDE DEF received, again
<1>8. /\ there \in Client /\ there.status = c.status /\ there.out = c.out
      /\ there.isConnectedToRoom = c.isConnectedToRoom
  <2>1. there \in Client
    BY <1>7, RemoteChangeType DEF Again
  <2>2. /\ there.status = c.status /\ there.out = c.out
        /\ there.isConnectedToRoom = c.isConnectedToRoom
    BY DEF RemoteChange, Client
  <2> QED BY <2>1, <2>2
<1>9. /\ changes \in DocChanges /\ atClock \in Nat /\ astray \in BOOLEAN
      /\ left \in Seq(DocRequest)
      /\ <<>> \in Seq(DataMessage)
  <2>1. Last(events) \in DataMessage
    BY <1>1 DEF Last
  <2>2. atClock \in Nat
    BY <2>1 DEF DataMessage
  <2>3. astray \in BOOLEAN
    BY <1>7, <1>8 DEF Again, Client
  <2> QED BY <1>5, <1>6, <1>7, <2>2, <2>3 DEF Again, Client
<1>10. RebaseOnto(c, early) = IF again.failed THEN ResetConnection(rebased, FALSE)
                              ELSE rebased
  BY DEF RebaseOnto, received, again
<1> HIDE DEF changes, atClock, astray, there, left
<1>11. rebased \in Client
  BY <1>8, <1>9 DEF Client
<1>12. /\ rebased.status = c.status /\ rebased.out = c.out
       /\ rebased.isConnectedToRoom = c.isConnectedToRoom
       /\ rebased.pendingPushRequests = left
       /\ rebased.incomingDiffBuffer = <<>>
  BY <1>8 DEF Client
<1> HIDE DEF rebased
<1>13. /\ ResetConnection(rebased, FALSE).status # SocketOnline
       /\ ~ResetConnection(rebased, FALSE).isConnectedToRoom
       /\ ResetConnection(rebased, FALSE).pendingPushRequests = <<>>
       /\ ResetConnection(rebased, FALSE).incomingDiffBuffer = <<>>
  BY <1>11, ResetIs
<1> QED BY <1>5, <1>10, <1>12, <1>13

\* rebase goes on with the conversation, or ends it.
LEMMA ConversationRebased ==
    ASSUME NEW c \in Client, NEW d \in Session, NEW early \in SUBSET Ids,
           Conversation(c, d), c.incomingDiffBuffer # <<>>
    PROVE  Conversation(Rebase(c, early), d)
<1> DEFINE b == FlushHistory(c)
           e == RebaseOnto(b, early)
           first == AnsweredBy(b.incomingDiffBuffer)
           rest == AnsweredBy(SessionData(d))
           reqs == b.pendingPushRequests
           left == Rest(reqs, Len(first))
<1>1. b \in Client /\ OnlyPushes(c, b)
  BY FlushHistoryPushed, PushedOnlyPushes
<1> HIDE DEF b
<1>2. Conversation(b, d) /\ b.incomingDiffBuffer # <<>>
  BY <1>1, ConversationPushed DEF OnlyPushes
<1>3. AnswersMatch(b)
  BY <1>1, <1>2, ConversationMatches
<1>4. /\ b.isConnectedToRoom /\ b.status = SocketOnline
      /\ Agree(Told(b, d), b.out, reqs, FALSE)
      /\ Listening(d) => Agree(Told(b, d), b.out, reqs, TRUE)
  <2>1. b.isConnectedToRoom
    BY <1>2 DEF Conversation
  <2>2. b.status = SocketOnline /\ Joined(b, d)
    BY <1>2, <2>1 DEF Conversation
  <2> QED BY <2>1, <2>2, JoinedIs
<1>5. /\ first \in Seq(Nat) /\ rest \in Seq(Nat) /\ Told(b, d) = first \o rest
      /\ reqs \in Seq(DocRequest) /\ b.out \in Seq(ClientMessage)
  BY <1>1, ConversationType DEF Told
<1>6. /\ e.incomingDiffBuffer = <<>>
      /\ \/ /\ e.status # SocketOnline /\ ~e.isConnectedToRoom
            /\ e.pendingPushRequests = <<>>
         \/ /\ e.status = b.status /\ e.out = b.out
            /\ e.isConnectedToRoom = b.isConnectedToRoom
            /\ e.pendingPushRequests = left
  BY <1>1, <1>2, <1>3, RebaseOntoIs
<1>7. Rebase(c, early) = e
  BY <1>3 DEF Rebase, b
<1> HIDE DEF first, rest, reqs, e
<1>8. Told(e, d) = rest
  <2>1. AnsweredBy(e.incomingDiffBuffer) = <<>>
    BY <1>6, AnsweredEmpty
  <2>2. <<>> \o rest = rest
    BY <1>5, ConcatEmpty
  <2> QED BY <2>1, <2>2 DEF Told, rest
<1>9. Agree(rest, b.out, left, FALSE)
  BY <1>4, <1>5, AgreeOnRest
<1>10. Listening(d) => Agree(rest, b.out, left, TRUE)
  BY <1>4, <1>5, AgreeOnRest
<1>11. CASE e.status # SocketOnline /\ ~e.isConnectedToRoom
            /\ e.pendingPushRequests = <<>>
  BY <1>6, <1>7, <1>11, ConversationOver
<1>12. CASE /\ e.status = b.status /\ e.out = b.out
            /\ e.isConnectedToRoom = b.isConnectedToRoom
            /\ e.pendingPushRequests = left
  <2>1. Joined(e, d)
    BY <1>8, <1>9, <1>10, <1>12, JoinedIs
  <2> QED BY <1>4, <1>7, <1>12, <2>1 DEF Conversation
<1> QED BY <1>6, <1>11, <1>12

-----------------------------------------------------------------------------
(***************************************************************************)
(* What the client receives.                                               *)
(***************************************************************************)
\* What is on its way is what arrives, and what is on its way after that.
LEMMA DeliverData ==
    ASSUME NEW d \in Session, d.wire # <<>>
    PROVE  LET e == [d EXCEPT !.wire = Tail(@)]
               msg == Head(d.wire)
           IN  /\ e \in Session /\ msg \in ServerMessage
               /\ SessionData(d) = DataOf(msg) \o SessionData(e)
               /\ Listening(e) <=> Listening(d)
               /\ NoConnects(d.wire) => NoConnects(e.wire)
               /\ NoConnects(d.wire) => msg.type # "connect"
<1> DEFINE left == Tail(d.wire)
           msg == Head(d.wire)
           e == [d EXCEPT !.wire = left]
           rest == IF d.open THEN d.outstanding ELSE <<>>
<1>1. d.wire \in Seq(ServerMessage) /\ d.outstanding \in Seq(DataMessage)
  BY OrderlyQueues
<1>2. left \in Seq(ServerMessage) /\ msg \in ServerMessage
  BY <1>1
<1>3. WireData(d.wire) = DataOf(msg) \o WireData(left)
  BY <1>1, WireDataHead
<1>4. NoConnects(d.wire) => NoConnects(left) /\ msg.type # "connect"
  <2> SUFFICES ASSUME \A i \in 1..Len(d.wire) : d.wire[i].type # "connect"
               PROVE  NoConnects(left) /\ msg.type # "connect"
    BY DEF NoConnects
  <2> DEFINE wire == d.wire
  <2>1. wire \in Seq(ServerMessage) /\ wire # <<>>
    BY <1>1
  <2> HIDE DEF wire
  <2>2. /\ Len(Tail(wire)) = Len(wire) - 1 /\ Len(wire) \in Nat /\ Len(wire) >= 1
        /\ Head(wire) = wire[1]
        /\ \A i \in 1..Len(wire) - 1 : Tail(wire)[i] = wire[i + 1]
    BY <2>1
  <2>3. ASSUME NEW i \in 1..Len(left) PROVE left[i].type # "connect"
    <3>1. i \in 1..Len(wire) - 1 /\ i + 1 \in 1..Len(wire)
      BY <2>2 DEF wire
    <3>2. left[i] = wire[i + 1]
      BY <2>2, <3>1 DEF wire
    <3>3. wire[i + 1].type # "connect"
      BY <3>1 DEF wire
    <3> QED BY <3>2, <3>3
  <2>4. msg = wire[1] /\ 1 \in 1..Len(wire)
    BY <2>2 DEF wire
  <2> QED BY <2>3, <2>4 DEF NoConnects, wire
<1> HIDE DEF left, msg
<1>5. /\ e \in Session /\ e.wire = left /\ e.open = d.open /\ e.state = d.state
      /\ e.outstanding = d.outstanding
  BY <1>2, Zenon DEF Session
<1>6. /\ DataOf(msg) \in Seq(DataMessage) /\ WireData(left) \in Seq(DataMessage)
      /\ rest \in Seq(DataMessage)
  <2>1. <<>> \in Seq(DataMessage)
    OBVIOUS
  <2> QED BY <1>1, <1>2, <2>1, DataOfType, WireDataType
<1>7. SessionData(d) = WireData(d.wire) \o rest
  BY DEF SessionData
<1>8. SessionData(e) = WireData(left) \o rest
  <2> HIDE DEF e
  <2> QED BY <1>5 DEF SessionData
<1>9. SessionData(d) = DataOf(msg) \o SessionData(e)
  <2> HIDE DEF rest, e
  <2>1. (DataOf(msg) \o WireData(left)) \o rest
          = DataOf(msg) \o (WireData(left) \o rest)
    BY <1>6, MessagesAssoc, Zenon
  <2> QED BY <1>3, <1>7, <1>8, <2>1
<1>10. Listening(e) <=> Listening(d)
  <2> HIDE DEF e
  <2> QED BY <1>5 DEF Listening
<1> QED BY <1>2, <1>4, <1>5, <1>9, <1>10 DEF left, msg

\* The session after data has arrived.
Delivered(d, e, data) ==
    /\ SessionData(d) = data \o SessionData(e)
    /\ Listening(e) <=> Listening(d)
    /\ NoConnects(d.wire) => NoConnects(e.wire)

\* A client with another buffer.
LEMMA BufferIs ==
    ASSUME NEW c \in Client, NEW buffer
    PROVE  LET b == [c EXCEPT !.incomingDiffBuffer = buffer]
           IN  /\ b.incomingDiffBuffer = buffer
               /\ b.out = c.out /\ b.status = c.status
               /\ b.pendingPushRequests = c.pendingPushRequests
               /\ c.isConnectedToRoom => b.isConnectedToRoom
BY DEF Client

\* Messages arrive in the buffer of a client that is connected.
LEMMA ConversationData ==
    ASSUME NEW c \in Client, NEW d \in Session, NEW e \in Session,
           NEW data \in Seq(DataMessage), Conversation(c, d),
           Delivered(d, e, data)
    PROVE  /\ c.isConnectedToRoom =>
                Conversation([c EXCEPT !.incomingDiffBuffer = @ \o data], e)
           /\ ~c.isConnectedToRoom => Conversation(c, e)
<1> DEFINE buffer == c.incomingDiffBuffer
           first == AnsweredBy(buffer)
           next == AnsweredBy(data)
           rest == AnsweredBy(SessionData(e))
           both == buffer \o data
           b == [c EXCEPT !.incomingDiffBuffer = both]
<1>1. buffer \in Seq(DataMessage) /\ SessionData(e) \in Seq(DataMessage)
  BY SessionDataType DEF Client
<1>2. first \in Seq(Nat) /\ next \in Seq(Nat) /\ rest \in Seq(Nat)
  BY <1>1, AnsweredByType
<1>3. AnsweredBy(SessionData(d)) = next \o rest
  BY <1>1, AnsweredConcat DEF Delivered
<1>4. AnsweredBy(buffer \o data) = first \o next
  BY <1>1, AnsweredConcat
<1>5. ASSUME c.isConnectedToRoom PROVE Conversation(b, e)
  <2>1. /\ b.incomingDiffBuffer = both /\ b.out = c.out /\ b.status = c.status
        /\ b.pendingPushRequests = c.pendingPushRequests
        /\ b.isConnectedToRoom
    <3> HIDE DEF both
    <3> QED BY <1>5, BufferIs
  <2>2. Told(b, e) = (first \o next) \o rest
    <3> HIDE DEF b
    <3> QED BY <1>4, <2>1 DEF Told
  <2>3. Told(c, d) = first \o (next \o rest)
    BY <1>3 DEF Told
  <2> HIDE DEF b, both, first, next, rest
  <2>7. (first \o next) \o rest = first \o (next \o rest)
    BY <1>2, ClocksAssoc, Zenon
  <2>4. Told(b, e) = Told(c, d)
    BY <2>2, <2>3, <2>7
  <2>5. c.status = SocketOnline /\ Joined(c, d)
    BY <1>5 DEF Conversation
  <2>6. Joined(b, e)
    BY <2>1, <2>4, <2>5, JoinedIs DEF Delivered
  <2> QED BY <1>5, <2>1, <2>5, <2>6 DEF Conversation
<1>6. ASSUME ~c.isConnectedToRoom PROVE Conversation(c, e)
  <2>1. ASSUME Apart(c, d) PROVE Apart(c, e)
    <3> HIDE DEF next, rest
    <3>1. next \o rest = <<>>
      BY <1>3, <2>1 DEF Apart
    <3>2. next = <<>>
      BY <1>2, <3>1, BothEmpty
    <3>3. <<>> \o rest = rest
      BY <1>2, ConcatEmpty
    <3>4. rest = <<>>
      BY <3>1, <3>2, <3>3
    <3> QED BY <2>1, <3>4 DEF Apart, rest, Delivered
  <2> QED BY <1>6, <2>1 DEF Conversation
<1> QED BY <1>5, <1>6

\* didReconnect: nothing, a reset, or a client that has nothing on its socket
\* and whose requests, if any, were not sent.
LEMMA DidReconnectIs ==
    ASSUME NEW c \in Client, NEW event \in ConnectEvent
    PROVE  LET e == DidReconnect(c, event)
           IN  \/ e = c
               \/ /\ e.status # SocketOnline /\ ~e.isConnectedToRoom
                  /\ e.pendingPushRequests = <<>> /\ e.incomingDiffBuffer = <<>>
               \/ /\ ~c.isConnectedToRoom /\ e.isConnectedToRoom
                  /\ e.status = c.status /\ e.out = c.out
                  /\ e.incomingDiffBuffer = c.incomingDiffBuffer
                  /\ MoreUnsent(c.pendingPushRequests, e.pendingPushRequests)
<1> DEFINE hydrated == Hydrated(c, event)
           reapplied == ApplyChanges(hydrated, c.speculativeChanges)
           there == RemoteChange(c, reapplied)
           rebased == [there EXCEPT !.speculativeChanges = NoChanges,
                                    !.isConnectedToRoom = TRUE]
           answered == [c EXCEPT !.latestConnectRequestId = NoRequest]
           difference == Between(hydrated, reapplied)
           pushed == Push(rebased, difference)
           astray == pushed.astray \/ HasUnflushedChanges(c)
           done == [pushed EXCEPT !.latestConnectRequestId = NoRequest,
                                  !.lastServerClock = event.serverClock,
                                  !.loaded = TRUE,
                                  !.astray = astray]
<1>1. hydrated \in Stores
  BY HydratedType
<1>2. c.speculativeChanges \in DocChanges
  BY DEF Client
<1>3. /\ reapplied \in Stores
      /\ \A p \in RecordIds \ Ids : reapplied[p] = hydrated[p]
  <2> HIDE DEF hydrated
  <2> QED BY <1>1, <1>2, ApplyDocChanges
<1>4. difference \in DocChanges
  <2> HIDE DEF hydrated, reapplied
  <2> QED BY <1>1, <1>3, DocumentsBetween
<1>5. /\ there \in Client /\ there.status = c.status /\ there.out = c.out
      /\ there.incomingDiffBuffer = c.incomingDiffBuffer
      /\ there.pendingPushRequests = c.pendingPushRequests
  <2> HIDE DEF reapplied
  <2>1. there \in Client
    BY <1>3, RemoteChangeType
  <2>2. /\ there.status = c.status /\ there.out = c.out
        /\ there.incomingDiffBuffer = c.incomingDiffBuffer
        /\ there.pendingPushRequests = c.pendingPushRequests
    BY DEF RemoteChange, Client
  <2> QED BY <2>1, <2>2
<1>6. /\ rebased \in Client /\ rebased.isConnectedToRoom
      /\ rebased.status = c.status /\ rebased.out = c.out
      /\ rebased.incomingDiffBuffer = c.incomingDiffBuffer
      /\ rebased.pendingPushRequests = c.pendingPushRequests
  <2> HIDE DEF there
  <2>1. NoChanges \in DocChanges
    BY NoChangesInDiffs DEF DocChanges
  <2> QED BY <1>5, <2>1 DEF Client
<1>7. pushed \in Client /\ OnlyPushes(rebased, pushed)
  <2> HIDE DEF rebased, difference
  <2> QED BY <1>4, <1>6, PushType, PushPushed, PushedOnlyPushes
<1>8. answered \in Client
  BY DEF Client, NoRequest
<1>9. LET e == ResetConnection(answered, TRUE)
      IN  /\ e.status # SocketOnline /\ ~e.isConnectedToRoom
          /\ e.pendingPushRequests = <<>> /\ e.incomingDiffBuffer = <<>>
  <2> HIDE DEF answered
  <2> QED BY <1>8, ResetIs
<1>10. /\ done.isConnectedToRoom /\ done.status = c.status /\ done.out = c.out
       /\ done.incomingDiffBuffer = c.incomingDiffBuffer
       /\ MoreUnsent(c.pendingPushRequests, done.pendingPushRequests)
  <2> HIDE DEF pushed, rebased, astray
  <2>1. /\ done.isConnectedToRoom = pushed.isConnectedToRoom
        /\ done.status = pushed.status /\ done.out = pushed.out
        /\ done.incomingDiffBuffer = pushed.incomingDiffBuffer
        /\ done.pendingPushRequests = pushed.pendingPushRequests
    BY <1>7 DEF Client
  <2> HIDE DEF done
  <2> QED BY <1>6, <1>7, <2>1 DEF OnlyPushes
<1>11. \/ DidReconnect(c, event) = c
       \/ DidReconnect(c, event) = ResetConnection(answered, TRUE)
       \/ ~c.isConnectedToRoom /\ DidReconnect(c, event) = done
  BY DEF DidReconnect
<1> HIDE DEF done, answered
<1> QED BY <1>9, <1>10, <1>11

\* A client that the room has accepted has nothing on its socket, and nothing
\* is on its way that answers a request.
LEMMA ConversationStarts ==
    ASSUME NEW c \in Client, NEW a \in Client, NEW e \in Session,
           c.status = SocketOnline, ~c.isConnectedToRoom, Conversation(c, e),
           c.out = <<>>,
           a.isConnectedToRoom, a.status = c.status, a.out = c.out,
           a.incomingDiffBuffer = c.incomingDiffBuffer,
           MoreUnsent(c.pendingPushRequests, a.pendingPushRequests)
    PROVE  Conversation(a, e)
<1>1. /\ c.pendingPushRequests = <<>> /\ c.incomingDiffBuffer = <<>>
      /\ AnsweredBy(SessionData(e)) = <<>>
  BY DEF Conversation, Apart
<1>2. Told(a, e) = <<>>
  <2>1. AnsweredBy(a.incomingDiffBuffer) = <<>>
    BY <1>1, AnsweredEmpty
  <2>2. <<>> \o <<>> = <<>>
    OBVIOUS
  <2> QED BY <1>1, <2>1, <2>2 DEF Told
<1>3. Agree(<<>>, <<>>, <<>>, TRUE)
  <2>1. Len(<<>>) = 0 /\ 0 \in 0..0
    OBVIOUS
  <2>2. Matched(<<>>, <<>>) /\ SentUpTo(<<>>, 0) /\ InFlight(<<>>, <<>>, 0, 0)
    BY <2>1 DEF Matched, SentUpTo, InFlight
  <2> QED BY <2>1, <2>2 DEF Agree
<1> DEFINE more == a.pendingPushRequests
<1>4. /\ <<>> \in Seq(Nat) /\ <<>> \in Seq(ClientMessage)
      /\ <<>> \in Seq(DocRequest) /\ more \in Seq(DocRequest)
      /\ TRUE \in BOOLEAN
  BY ConversationType
<1>5. MoreUnsent(<<>>, more)
  BY <1>1
<1> HIDE DEF more
<1>6. Agree(<<>>, <<>>, more, TRUE)
  BY <1>3, <1>4, <1>5, AgreeOnMore
<1>7. Agree(<<>>, <<>>, more, FALSE)
  BY <1>6 DEF Agree
<1>8. Joined(a, e)
  BY <1>2, <1>6, <1>7, JoinedIs DEF more
<1> QED BY <1>8 DEF Conversation

\* Whatever arrives, the conversation goes on or ends.
LEMMA ConversationReceives ==
    ASSUME NEW c \in Client, NEW d \in Session, d.wire # <<>>,
           Conversation(c, d), c.status = SocketOnline
    PROVE  LET msg == Head(d.wire)
           IN  Conversation(IF msg.type = "close" THEN ConnectionLost(c, msg.fatal)
                            ELSE HandleServerEvent(c, msg),
                            [d EXCEPT !.wire = Tail(@)])
<1> DEFINE msg == Head(d.wire)
           e == [d EXCEPT !.wire = Tail(@)]
           data == DataOf(msg)
<1>1. /\ e \in Session /\ msg \in ServerMessage
      /\ SessionData(d) = data \o SessionData(e)
      /\ Listening(e) <=> Listening(d)
      /\ NoConnects(d.wire) => NoConnects(e.wire)
      /\ NoConnects(d.wire) => msg.type # "connect"
  BY DeliverData
<1> HIDE DEF msg, e
<1>2. data \in Seq(DataMessage) /\ SessionData(e) \in Seq(DataMessage)
  BY <1>1, DataOfType, SessionDataType
<1>3. Delivered(d, e, data)
  BY <1>1 DEF Delivered
<1>4. CASE msg.type = "close"
  <2>1. msg.fatal \in BOOLEAN
    BY <1>1, <1>4 DEF ServerMessage
  <2>2. Conversation(ConnectionLost(c, msg.fatal), e)
    BY <2>1, LostIs
  <2> QED BY <1>4, <2>2 DEF msg, e
<1>5. CASE msg.type = "data"
  <2>1. data = msg.data
    BY <1>5 DEF DataOf
  <2> HIDE DEF data
  <2>2. CASE c.isConnectedToRoom
    <3>1. Conversation([c EXCEPT !.incomingDiffBuffer = @ \o data], e)
      BY <1>1, <1>2, <1>3, <2>2, ConversationData
    <3>2. HandleServerEvent(c, msg) = [c EXCEPT !.incomingDiffBuffer = @ \o msg.data]
      BY <1>5, <2>2 DEF HandleServerEvent
    <3>3. Conversation(HandleServerEvent(c, msg), e)
      BY <2>1, <3>1, <3>2
    <3> QED BY <1>5, <3>3 DEF msg, e
  <2>3. CASE ~c.isConnectedToRoom
    <3>1. Conversation(c, e)
      BY <1>1, <1>2, <1>3, <2>3, ConversationData
    <3>2. HandleServerEvent(c, msg) = c
      BY <1>5, <2>3 DEF HandleServerEvent
    <3>3. Conversation(HandleServerEvent(c, msg), e)
      BY <3>1, <3>2
    <3> QED BY <1>5, <3>3 DEF msg, e
  <2> QED BY <2>2, <2>3
<1>6. ASSUME msg.type # "data" PROVE Conversation(c, e)
  <2>1. data = <<>>
    BY <1>6 DEF DataOf
  <2> HIDE DEF data
  <2> DEFINE buffer == c.incomingDiffBuffer
  <2>2. buffer \in Seq(DataMessage) /\ c = [c EXCEPT !.incomingDiffBuffer = buffer]
    BY DEF Client
  <2>3. buffer \o data = buffer
    <3> HIDE DEF buffer
    <3> QED BY <2>1, <2>2, ConcatEmpty
  <2>4. c.isConnectedToRoom =>
          Conversation([c EXCEPT !.incomingDiffBuffer = buffer \o data], e)
    BY <1>1, <1>2, <1>3, ConversationData
  <2>5. ~c.isConnectedToRoom => Conversation(c, e)
    BY <1>1, <1>2, <1>3, ConversationData
  <2> HIDE DEF buffer
  <2> QED BY <2>2, <2>3, <2>4, <2>5
<1>7. CASE msg.type = "connect"
  <2> DEFINE a == DidReconnect(c, msg)
  <2>1. Conversation(c, e)
    BY <1>6, <1>7
  <2>2. msg \in ConnectEvent
    BY <1>1, <1>7 DEF ServerMessage, ConnectEvent
  <2>3. a \in Client
    BY <2>2, DidReconnectType
  <2>4. \/ a = c
        \/ /\ a.status # SocketOnline /\ ~a.isConnectedToRoom
           /\ a.pendingPushRequests = <<>> /\ a.incomingDiffBuffer = <<>>
        \/ /\ ~c.isConnectedToRoom /\ a.isConnectedToRoom
           /\ a.status = c.status /\ a.out = c.out
           /\ a.incomingDiffBuffer = c.incomingDiffBuffer
           /\ MoreUnsent(c.pendingPushRequests, a.pendingPushRequests)
    BY <2>2, DidReconnectIs
  <2>5. ~c.isConnectedToRoom => c.out = <<>>
    BY <1>1, <1>7 DEF Conversation, Apart
  <2>6. HandleServerEvent(c, msg) = a
    BY <1>7 DEF HandleServerEvent
  <2> HIDE DEF a
  <2>7. CASE a = c
    BY <1>7, <2>1, <2>6, <2>7 DEF msg, e
  <2>8. CASE /\ a.status # SocketOnline /\ ~a.isConnectedToRoom
             /\ a.pendingPushRequests = <<>> /\ a.incomingDiffBuffer = <<>>
    <3>1. Conversation(a, e)
      BY <2>8, ConversationOver
    <3> QED BY <1>7, <2>6, <3>1 DEF msg, e
  <2>9. CASE /\ ~c.isConnectedToRoom /\ a.isConnectedToRoom
             /\ a.status = c.status /\ a.out = c.out
             /\ a.incomingDiffBuffer = c.incomingDiffBuffer
             /\ MoreUnsent(c.pendingPushRequests, a.pendingPushRequests)
    <3>1. Conversation(a, e)
      BY <1>1, <2>1, <2>3, <2>5, <2>9, ConversationStarts
    <3> QED BY <1>7, <2>6, <3>1 DEF msg, e
  <2> QED BY <2>4, <2>7, <2>8, <2>9
<1>8. CASE msg.type \notin {"close", "data", "connect"}
  <2>1. HandleServerEvent(c, msg) = c
    BY <1>8 DEF HandleServerEvent
  <2> QED BY <1>6, <1>8, <2>1 DEF msg, e
<1> QED BY <1>4, <1>5, <1>7, <1>8

-----------------------------------------------------------------------------
(***************************************************************************)
(* What the room receives.                                                 *)
(***************************************************************************)
\* What is not known of the socket is known of it.
LEMMA AgreeFalse ==
    ASSUME NEW told, NEW out, NEW reqs, Agree(told, out, reqs, TRUE)
    PROVE  Agree(told, out, reqs, FALSE)
BY DEF Agree

\* A client with fewer messages on its socket.
LEMMA OutIs ==
    ASSUME NEW c \in Client, NEW e
    PROVE  LET b == [c EXCEPT !.out = Tail(@)]
           IN  /\ b.out = Tail(c.out) /\ b.status = c.status
               /\ b.pendingPushRequests = c.pendingPushRequests
               /\ b.incomingDiffBuffer = c.incomingDiffBuffer
               /\ b.isConnectedToRoom <=> c.isConnectedToRoom
               /\ Told(b, e) = Told(c, e)
<1> DEFINE out == Tail(c.out)
           b == [c EXCEPT !.out = out]
<1>1. /\ b.out = out /\ b.status = c.status
      /\ b.pendingPushRequests = c.pendingPushRequests
      /\ b.incomingDiffBuffer = c.incomingDiffBuffer
      /\ b.isConnectedToRoom <=> c.isConnectedToRoom
  <2> HIDE DEF out
  <2> QED BY DEF Client
<1> HIDE DEF b
<1>2. Told(b, e) = Told(c, e)
  BY <1>1 DEF Told
<1> QED BY <1>1, <1>2 DEF b

\* The rest of at most one message.
LEMMA TailOfOne ==
    ASSUME NEW out \in Seq(ClientMessage), out # <<>>
    PROVE  /\ Tail(out) \in Seq(ClientMessage)
           /\ Len(out) <= 1 => Tail(out) = <<>>
           /\ Head(out) = out[1] /\ 1 \in 1..Len(out)
<1>1. Len(out) \in Nat /\ Len(out) >= 1 /\ Len(Tail(out)) = Len(out) - 1
      /\ Tail(out) \in Seq(ClientMessage) /\ Head(out) = out[1]
  OBVIOUS
<1>2. Len(out) <= 1 => Len(Tail(out)) = 0
  BY <1>1
<1>3. Len(Tail(out)) = 0 => Tail(out) = <<>>
  <2> DEFINE rest == Tail(out)
  <2>1. rest \in Seq(ClientMessage)
    BY <1>1
  <2> HIDE DEF rest
  <2>2. Len(rest) = 0 => rest = <<>>
    BY <2>1
  <2> QED BY <2>2 DEF rest
<1> QED BY <1>1, <1>2, <1>3

\* One answer more, after the rest.
LEMMA ThenOne ==
    ASSUME NEW first \in Seq(Nat), NEW all \in Seq(Nat), NEW clk \in Nat
    PROVE  (first \o all) \o <<clk>> = first \o (all \o <<clk>>)
<1> DEFINE one == <<clk>>
<1>1. one \in Seq(Nat)
  OBVIOUS
<1> HIDE DEF one
<1>2. (first \o all) \o one = first \o (all \o one)
  BY <1>1, ClocksAssoc, Zenon
<1> QED BY <1>2 DEF one

\* The room takes a message of a session that does not listen.
LEMMA ConversationIgnored ==
    ASSUME NEW c \in Client, NEW e \in Session, Conversation(c, e),
           c.out # <<>>, ~Listening(e)
    PROVE  Conversation([c EXCEPT !.out = Tail(@)], e)
<1> DEFINE b == [c EXCEPT !.out = Tail(@)]
           told == Told(c, e)
           reqs == c.pendingPushRequests
<1>1. /\ b.out = Tail(c.out) /\ b.status = c.status
      /\ b.pendingPushRequests = c.pendingPushRequests
      /\ b.incomingDiffBuffer = c.incomingDiffBuffer
      /\ b.isConnectedToRoom <=> c.isConnectedToRoom
      /\ Told(b, e) = told
  BY OutIs
<1> HIDE DEF b
<1>2. /\ c.out \in Seq(ClientMessage) /\ told \in Seq(Nat)
      /\ reqs \in Seq(DocRequest)
  BY ConversationType
<1>3. Len(c.out) <= 1 => Tail(c.out) = <<>>
  BY <1>2, TailOfOne
<1>4. Apart(c, e) => Apart(b, e)
  <2>1. Len(<<>>) = 0
    OBVIOUS
  <2> QED BY <1>1, <1>3, <2>1 DEF Apart
<1>5. ASSUME Joined(c, e) PROVE Joined(b, e)
  <2>1. Agree(told, c.out, reqs, FALSE)
    BY <1>5, JoinedIs
  <2>2. Agree(told, Tail(c.out), reqs, FALSE)
    <3> HIDE DEF told, reqs
    <3> QED BY <1>2, <2>1, AgreeOnAnswer
  <2> QED BY <1>1, <2>2, JoinedIs
<1> QED BY <1>1, <1>4, <1>5 DEF Conversation, b

\* The room answers a push, or rejects its session.
LEMMA ConversationAnswered ==
    ASSUME NEW c \in Client, NEW d \in Session, NEW e \in Session,
           Conversation(c, d), c.out # <<>>, Head(c.out).type = "push",
           NEW msg \in DataMessage, IsAnswer(msg),
           msg.clientClock = Head(c.out).clientClock, Hears(d, e, <<msg>>)
    PROVE  Conversation([c EXCEPT !.out = Tail(@)], e)
<1> DEFINE b == [c EXCEPT !.out = Tail(@)]
           told == Told(c, d)
           less == Told(c, e)
           reqs == c.pendingPushRequests
           out == c.out
           clk == Head(out).clientClock
           first == AnsweredBy(c.incomingDiffBuffer)
           all == AnsweredBy(SessionData(d))
           rest == AnsweredBy(SessionData(e))
           full == all \o IF Listening(d) THEN AnsweredBy(<<msg>>) ELSE <<>>
<1>1. /\ b.out = Tail(out) /\ b.status = c.status
      /\ b.pendingPushRequests = c.pendingPushRequests
      /\ b.incomingDiffBuffer = c.incomingDiffBuffer
      /\ b.isConnectedToRoom <=> c.isConnectedToRoom
      /\ Told(b, e) = less
  BY OutIs
<1> HIDE DEF b
<1>2. /\ out \in Seq(ClientMessage) /\ told \in Seq(Nat) /\ less \in Seq(Nat)
      /\ reqs \in Seq(DocRequest) /\ first \in Seq(Nat) /\ all \in Seq(Nat)
      /\ rest \in Seq(Nat)
  BY ConversationType
<1>3. ~Apart(c, d)
  BY <1>2, TailOfOne DEF Apart
<1>4. AnsweredBy(<<msg>>) = <<clk>>
  BY AnsweredOne
<1>5. /\ \E more \in Seq(Nat) : full = rest \o more
      /\ Listening(e) => Listening(d) /\ rest = full
  <2>1. <<msg>> \in Seq(DataMessage)
    OBVIOUS
  <2> QED BY <2>1, HeardAnswers
<1>6. PICK more : more \in Seq(Nat) /\ full = rest \o more
  BY <1>5
<1>7. first \o (rest \o more) = less \o more
  BY <1>6, ToldLess
<1>8. told = first \o all /\ less = first \o rest
  BY DEF Told
<1>9. ASSUME Joined(c, d) PROVE Joined(b, e)
  <2>1. /\ Agree(told, out, reqs, FALSE)
        /\ Listening(d) => Agree(told, out, reqs, TRUE)
    BY <1>9, JoinedIs
  <2>2. CASE Listening(d)
    <3>1. full = all \o <<clk>>
      BY <1>4, <2>2
    <3> HIDE DEF told, less, reqs, out, clk, first, all, rest, full
    <3>2. Agree(told \o <<clk>>, Tail(out), reqs, TRUE) /\ clk \in Nat
      BY <1>2, <2>1, <2>2, AgreeOnAnswer DEF clk, out
    <3>4. (first \o all) \o <<clk>> = first \o (all \o <<clk>>)
      BY <1>2, <3>2, ThenOne
    <3>5. told \o <<clk>> = first \o full
      BY <1>8, <3>1, <3>4
    <3>6. told \o <<clk>> = less \o more
      BY <1>6, <1>7, <3>5
    <3>7. Agree(less \o more, Tail(out), reqs, FALSE)
      BY <3>2, <3>6, AgreeFalse
    <3>8. Tail(out) \in Seq(ClientMessage)
      BY <1>2, TailOfOne DEF out
    <3>9. Agree(less, Tail(out), reqs, FALSE)
      BY <1>2, <1>6, <3>7, <3>8, LessDeaf
    <3>10. Listening(e) => Agree(less, Tail(out), reqs, TRUE)
      BY <1>5, <1>8, <3>2, <3>5
    <3> QED BY <1>1, <3>9, <3>10, JoinedIs DEF reqs, out
  <2>3. CASE ~Listening(d)
    <3>1. full = all
      <4>1. all \o <<>> = all
        BY <1>2, ConcatEmpty
      <4> QED BY <2>3, <4>1
    <3> HIDE DEF told, less, reqs, out, clk, first, all, rest, full
    <3>2. Agree(told, Tail(out), reqs, FALSE)
      BY <1>2, <2>1, AgreeOnAnswer DEF out
    <3>3. told = less \o more
      BY <1>6, <1>7, <1>8, <3>1
    <3>4. Agree(less \o more, Tail(out), reqs, FALSE)
      BY <3>2, <3>3
    <3>5. Tail(out) \in Seq(ClientMessage)
      BY <1>2, TailOfOne DEF out
    <3>6. Agree(less, Tail(out), reqs, FALSE)
      BY <1>2, <1>6, <3>4, <3>5, LessDeaf
    <3> QED BY <1>1, <1>5, <2>3, <3>6, JoinedIs DEF reqs, out
  <2> QED BY <2>2, <2>3
<1> QED BY <1>1, <1>3, <1>9 DEF Conversation, b

-----------------------------------------------------------------------------
(***************************************************************************)
(* The room accepts a client.                                              *)
(***************************************************************************)
\* A session that hears nothing new still has nothing to answer.
LEMMA SilentStays ==
    ASSUME NEW d \in Session, NEW e \in Session, Hears(d, e, <<>>),
           AnsweredBy(SessionData(d)) = <<>>
    PROVE  AnsweredBy(SessionData(e)) = <<>>
<1>1. <<>> \in Seq(DataMessage)
  OBVIOUS
<1> DEFINE all == AnsweredBy(SessionData(d)) \o
                    IF Listening(d) THEN AnsweredBy(<<>>) ELSE <<>>
           rest == AnsweredBy(SessionData(e))
<1>2. rest \in Seq(Nat) /\ \E more \in Seq(Nat) : all = rest \o more
  BY <1>1, HeardAnswers
<1>3. all = <<>>
  <2>1. <<>> \o <<>> = <<>>
    OBVIOUS
  <2> QED BY <2>1, AnsweredEmpty
<1> HIDE DEF all, rest
<1>4. rest = <<>>
  BY <1>2, <1>3, BothEmpty
<1> QED BY <1>4 DEF rest

\* A message that is not data answers nothing.
LEMMA NoDataOnWire ==
    ASSUME NEW d \in Session, NEW msg \in ServerMessage, msg.type # "data"
    PROVE  SessionData(SendOnSocket(d, msg)) = SessionData(d)
<1>1. CASE ~d.open
  BY <1>1 DEF SendOnSocket
<1>2. CASE d.open
  <2> DEFINE wire == Append(d.wire, msg)
             e == [d EXCEPT !.wire = wire]
  <2>1. e.wire = wire /\ e.open = d.open /\ e.outstanding = d.outstanding
    BY Zenon DEF Session
  <2>2. d.wire \in Seq(ServerMessage)
    BY DEF Session
  <2>3. WireData(wire) = WireData(d.wire) \o DataOf(msg)
    BY <2>2, WireDataAppend
  <2>4. DataOf(msg) = <<>>
    BY DEF DataOf
  <2>5. WireData(d.wire) \in Seq(DataMessage)
    BY <2>2, WireDataType
  <2>6. WireData(d.wire) \o <<>> = WireData(d.wire)
    BY <2>5, ConcatEmpty
  <2> HIDE DEF wire, e
  <2>7. WireData(e.wire) = WireData(d.wire)
    BY <2>1, <2>3, <2>4, <2>6
  <2>8. SessionData(e) = SessionData(d)
    BY <2>1, <2>7 DEF SessionData
  <2>9. SendOnSocket(d, msg) = e
    BY <1>2 DEF SendOnSocket, e, wire
  <2> QED BY <2>8, <2>9
<1> QED BY <1>1, <1>2

\* A session that is accepted is left without what waited for its debounce
\* timer, and answers nothing but the connect request.
LEMMA ConnectAnswersNothing ==
    ASSUME NEW d \in Session, NEW x \in Session, x.wire = d.wire,
           x.outstanding = <<>>, AnsweredBy(SessionData(d)) = <<>>,
           NEW msg \in ServerMessage, msg.type = "connect"
    PROVE  AnsweredBy(SessionData(SendMessage(x, msg))) = <<>>
<1>1. AnsweredBy(SessionData(x)) = <<>>
  <2>1. SessionData(x) = WireData(d.wire)
    BY SessionDataIs
  <2>2. Prefix(SessionData(x), SessionData(d)) /\ SessionData(x) \in Seq(DataMessage)
    BY <2>1, SessionDataIs
  <2>3. PICK more \in Seq(Nat) :
          AnsweredBy(SessionData(d)) = AnsweredBy(SessionData(x)) \o more
    BY <2>2, PrefixAnswers
  <2>4. AnsweredBy(SessionData(x)) \in Seq(Nat)
    BY <2>2, PrefixAnswers
  <2> DEFINE a == AnsweredBy(SessionData(x))
  <2>5. a \in Seq(Nat) /\ a \o more = <<>>
    BY <2>3, <2>4
  <2> HIDE DEF a
  <2>6. a = <<>>
    BY <2>5, BothEmpty
  <2> QED BY <2>6 DEF a
<1>2. CASE x.state # Connected
  BY <1>1, <1>2 DEF SendMessage
<1>3. CASE x.state = Connected /\ ~x.open
  <2>1. CancelSession(x) \in Session /\ Hears(x, CancelSession(x), <<>>)
    BY HearsCancel
  <2>2. SendMessage(x, msg) = CancelSession(x)
    BY <1>3 DEF SendMessage
  <2> QED BY <1>1, <2>1, <2>2, SilentStays
<1>4. CASE x.state = Connected /\ x.open
  <2> DEFINE y == FlushDataMessages(x)
  <2>1. y \in Session /\ Hears(x, y, <<>>)
    BY HearsFlush
  <2>2. SendMessage(x, msg) = SendOnSocket(y, msg)
    BY <1>4 DEF SendMessage
  <2> HIDE DEF y
  <2>3. AnsweredBy(SessionData(y)) = <<>>
    BY <1>1, <2>1, SilentStays
  <2>4. SessionData(SendOnSocket(y, msg)) = SessionData(y)
    BY <2>1, NoDataOnWire
  <2> QED BY <2>2, <2>3, <2>4
<1> QED BY <1>2, <1>3, <1>4

\* handleConnectRequest, of a client of the room's own version.
LEMMA ConnectRequestAnswersNothing ==
    ASSUME TypeOK, NEW s \in SessionIds, NEW k \in Nat, NEW reqId \in Nat,
           HandleConnectRequest(s, k, TLSYNC_PROTOCOL_VERSION, TRUE, reqId)
    PROVE  /\ AnsweredBy(SessionData(sessions[s])) = <<>> =>
                AnsweredBy(SessionData(sessions'[s])) = <<>>
           /\ \A t \in SessionIds \ {s} : sessions'[t] = sessions[t]
<1> DEFINE c == [sessions[s] EXCEPT
                   !.requiresLegacyRejection = TLSYNC_PROTOCOL_VERSION \in {5, 6}]
           diff == Hydration(c, k)
           view == ApplyNetworkDiff(BaseView(k), diff)
           joined == [c EXCEPT
                        !.state = Connected,
                        !.debouncing = FALSE, !.outstanding = <<>>,
                        !.view = view, !.stale = ForgottenSince(k)]
           msg == [type |-> "connect",
                   hydrationType |-> IF WipesAll(k)
                                     THEN "wipe_all" ELSE "wipe_presence",
                   diff |-> diff, serverClock |-> clock,
                   connectRequestId |-> reqId, isReadonly |-> c.isReadonly]
<1>1. sessions[s] \in Session
  BY DEF TypeOK
<1>2. c \in Session /\ c.wire = sessions[s].wire
  <2>1. (TLSYNC_PROTOCOL_VERSION \in {5, 6}) \in BOOLEAN
    OBVIOUS
  <2> QED BY <1>1, <2>1, Zenon DEF Session
<1>3. diff \in NetworkDiff
  BY HydrationType
<1>4. sessions' = [sessions EXCEPT ![s] = SendMessage(joined, msg)]
  <2>1. EffectiveVersion(TLSYNC_PROTOCOL_VERSION) = TLSYNC_PROTOCOL_VERSION
    BY DEF EffectiveVersion, TLSYNC_PROTOCOL_VERSION
  <2> QED BY <2>1 DEF HandleConnectRequest
<1> HIDE DEF c, diff
<1>5. joined \in Session /\ joined.wire = sessions[s].wire
      /\ joined.outstanding = <<>>
  <2>1. view \in [RecordIds -> MaybeRecord]
    BY <1>3, BaseViewType, ApplyNetworkDiffType
  <2>2. ForgottenSince(k) \in SUBSET Ids
    BY DEF ForgottenSince
  <2>3. <<>> \in Seq(DataMessage)
    OBVIOUS
  <2> HIDE DEF view
  <2> QED BY <1>2, <2>1, <2>2, <2>3, Zenon DEF Session
<1>6. msg \in ServerMessage /\ msg.type = "connect"
  <2>1. c.isReadonly \in BOOLEAN
    BY <1>2 DEF Session
  <2>2. clock \in Nat
    BY DEF TypeOK
  <2> QED BY <1>3, <2>1, <2>2 DEF ServerMessage
<1> HIDE DEF joined, msg
<1>7. AnsweredBy(SessionData(sessions[s])) = <<>> =>
        AnsweredBy(SessionData(SendMessage(joined, msg))) = <<>>
  BY <1>1, <1>5, <1>6, ConnectAnswersNothing
<1>8. /\ sessions'[s] = SendMessage(joined, msg)
      /\ \A t \in SessionIds \ {s} : sessions'[t] = sessions[t]
  BY <1>4 DEF TypeOK
<1> QED BY <1>7, <1>8

\* The room takes the connect request of a client that is not in its room.
LEMMA ConversationAccepted ==
    ASSUME NEW c \in Client, NEW d \in Session, NEW e \in Session,
           Conversation(c, d), c.out # <<>>, Head(c.out).type = "connect",
           AnsweredBy(SessionData(d)) = <<>> => AnsweredBy(SessionData(e)) = <<>>
    PROVE  Conversation([c EXCEPT !.out = Tail(@)], e)
<1> DEFINE b == [c EXCEPT !.out = Tail(@)]
<1>1. /\ b.out = Tail(c.out) /\ b.status = c.status
      /\ b.pendingPushRequests = c.pendingPushRequests
      /\ b.incomingDiffBuffer = c.incomingDiffBuffer
      /\ b.isConnectedToRoom <=> c.isConnectedToRoom
  BY OutIs
<1> HIDE DEF b
<1>2. c.out \in Seq(ClientMessage)
  BY ConversationType
<1>3. Head(c.out) = c.out[1] /\ 1 \in 1..Len(c.out)
      /\ (Len(c.out) <= 1 => Tail(c.out) = <<>>)
  BY <1>2, TailOfOne
<1>4. ~Joined(c, d)
  <2>1. ASSUME Agree(Told(c, d), c.out, c.pendingPushRequests, FALSE) PROVE FALSE
    BY <1>3, <2>1 DEF Agree
  <2> QED BY <2>1, JoinedIs
<1>5. Apart(c, d) => Apart(b, e)
  <2> SUFFICES ASSUME Apart(c, d) PROVE Apart(b, e)
    OBVIOUS
  <2>1. b.out = <<>> /\ AnsweredBy(SessionData(e)) = <<>>
    BY <1>1, <1>3 DEF Apart
  <2>2. Len(<<>>) = 0
    OBVIOUS
  <2> QED BY <2>1, <2>2 DEF Apart
<1> QED BY <1>1, <1>4, <1>5 DEF Conversation, b

-----------------------------------------------------------------------------
(***************************************************************************)
(* The steps of clients, sockets and room.                                 *)
(***************************************************************************)
\* Where the sockets are in order, nothing is left of earlier ones.
InConversation ==
    /\ SyncTyping /\ RecordsInv /\ MessagesInv /\ Conversations /\ ~scenario.late

\* What each session and each client of it have.
LEMMA InConversationHas ==
    ASSUME InConversation
    PROVE  /\ TypeOK
           /\ \A s \in SessionIds :
                /\ clients[s] \in Client /\ sessions[s] \in Session
                /\ late[s] = <<>>
                /\ Conversation(clients[s], sessions[s])
BY DEF InConversation, MessagesInv, TypeOK, SyncTyping, Conversations

\* A step of one client.
LEMMA OneClientConverses ==
    ASSUME InConversation, NEW s \in SessionIds, NEW next, ClientStep(s, next),
           Conversation(next, sessions[s])
    PROVE  Conversations'
<1>1. /\ clients' = [clients EXCEPT ![s] = next]
      /\ UNCHANGED <<sessions, late, scenario>>
  BY DEF ClientStep, vars
<1>2. \A t \in SessionIds : clients'[t] = IF t = s THEN next ELSE clients[t]
  BY <1>1 DEF InConversation, SyncTyping
<1> QED BY <1>1, <1>2, InConversationHas DEF Conversations

\* A client that only has more to push.
LEMMA OnePushes ==
    ASSUME InConversation, NEW s \in SessionIds, NEW next \in Client,
           ClientStep(s, next), OnlyPushes(clients[s], next)
    PROVE  Conversations'
<1>1. Conversation(next, sessions[s])
  BY InConversationHas, ConversationPushed
<1> QED BY <1>1, OneClientConverses

\* A client's edits count nothing here.
LEMMA EditCountPushes ==
    ASSUME NEW c \in Client, NEW d \in Client, OnlyPushes(c, d)
    PROVE  /\ [d EXCEPT !.edits = @ + 1] \in Client
           /\ OnlyPushes(c, [d EXCEPT !.edits = @ + 1])
<1> DEFINE n == d.edits + 1
           e == [d EXCEPT !.edits = n]
<1>1. n \in Nat
  <2>1. d.edits \in Nat
    BY DEF Client
  <2> QED BY <2>1
<1> HIDE DEF n
<1>2. /\ e \in Client
      /\ e.status = d.status /\ e.isConnectedToRoom = d.isConnectedToRoom
      /\ e.incomingDiffBuffer = d.incomingDiffBuffer /\ e.out = d.out
      /\ e.pendingPushRequests = d.pendingPushRequests
  <2>1. e \in Client
    BY <1>1 DEF Client
  <2>2. e.status = d.status /\ e.isConnectedToRoom = d.isConnectedToRoom
    BY DEF Client
  <2>3. e.incomingDiffBuffer = d.incomingDiffBuffer /\ e.out = d.out
    BY DEF Client
  <2>4. e.pendingPushRequests = d.pendingPushRequests
    BY DEF Client
  <2> QED BY <2>1, <2>2, <2>3, <2>4
<1> HIDE DEF e
<1>3. OnlyPushes(d, e)
  BY <1>2, OnlyPushesNothing
<1>4. OnlyPushes(c, e)
  BY <1>2, <1>3, OnlyPushesTransitive
<1> QED BY <1>2, <1>4 DEF e, n

\* A user edits.
LEMMA EditConverses ==
    ASSUME InConversation, NEW s \in SessionIds, NEW id \in Ids,
           NEW record \in scenario.edits[s][id], Edit(s, id, record)
    PROVE  Conversations'
<1> DEFINE c == clients[s]
           next == [c.store EXCEPT ![id] = record]
           changed == UserChange(c, next)
           d == [changed EXCEPT !.edits = @ + 1]
<1>1. c \in Client /\ record \in MaybeRecord
  BY ScenarioType DEF InConversation, SyncTyping
<1>2. changed \in Client
  <2> HIDE DEF c
  <2> QED BY <1>1, UserChangeType
<1>3. ClientStep(s, d)
  BY DEF Edit
<1> HIDE DEF next
<1>4. /\ changed.status = c.status /\ changed.isConnectedToRoom = c.isConnectedToRoom
      /\ changed.incomingDiffBuffer = c.incomingDiffBuffer /\ changed.out = c.out
      /\ changed.pendingPushRequests = c.pendingPushRequests
  <2> HIDE DEF c
  <2> QED BY <1>1 DEF UserChange, Client
<1> HIDE DEF changed, c
<1>5. OnlyPushes(c, changed)
  BY <1>1, <1>2, <1>4, OnlyPushesNothing
<1>6. d \in Client /\ OnlyPushes(c, d)
  BY <1>1, <1>2, <1>5, EditCountPushes
<1> HIDE DEF d
<1> QED BY <1>3, <1>6, OnePushes DEF c

\* A cursor moves.
LEMMA MoveConverses ==
    ASSUME InConversation, NEW s \in SessionIds, NEW presence \in scenario.moves,
           Move(s, presence)
    PROVE  Conversations'
<1> DEFINE c == clients[s]
           moved == [c EXCEPT !.presence = presence]
           flushed == FlushHistory(moved)
           changed == PushPresence(c, presence)
           d == [changed EXCEPT !.edits = @ + 1]
<1>1. c \in Client /\ presence \in MaybeRecord
  BY ScenarioType DEF InConversation, SyncTyping
<1>2. ClientStep(s, d)
  BY DEF Move
<1>3. changed = PushPresenceOp(flushed, presence)
  BY DEF PushPresence
<1> HIDE DEF c
<1>4. changed \in Client
  BY <1>1, PushPresenceType
<1> HIDE DEF changed
<1>5. /\ moved \in Client
      /\ moved.status = c.status /\ moved.isConnectedToRoom = c.isConnectedToRoom
      /\ moved.incomingDiffBuffer = c.incomingDiffBuffer /\ moved.out = c.out
      /\ moved.pendingPushRequests = c.pendingPushRequests
  BY <1>1 DEF Client
<1> HIDE DEF moved
<1>6. OnlyPushes(c, moved)
  BY <1>1, <1>5, OnlyPushesNothing
<1>7. flushed \in Client /\ OnlyPushes(moved, flushed)
  BY <1>5, FlushHistoryPushed, PushedOnlyPushes
<1> HIDE DEF flushed
<1>8. OnlyPushes(flushed, changed)
  BY <1>1, <1>3, <1>7, PresenceOnlyPushes
<1>9. OnlyPushes(c, flushed)
  BY <1>1, <1>5, <1>6, <1>7, OnlyPushesTransitive
<1>10. OnlyPushes(c, changed)
  BY <1>1, <1>4, <1>7, <1>8, <1>9, OnlyPushesTransitive
<1>11. d \in Client /\ OnlyPushes(c, d)
  BY <1>1, <1>4, <1>10, EditCountPushes
<1> HIDE DEF d
<1> QED BY <1>2, <1>11, OnePushes DEF c

\* The throttled functions run, or the connection is lost.
LEMMA OwnStepsConverse ==
    ASSUME InConversation, NEW s \in SessionIds,
           \/ ListenerFlush(s) \/ SendPushes(s) \/ RunRebase(s) \/ LoseConnection(s)
    PROVE  Conversations'
<1> DEFINE c == clients[s]
           d == sessions[s]
<1>1. c \in Client /\ d \in Session /\ Conversation(c, d)
  BY InConversationHas
<1>2. CASE ListenerFlush(s)
  <2> DEFINE next == FlushHistory(c)
  <2>1. next \in Client /\ OnlyPushes(c, next)
    BY <1>1, FlushHistoryPushed, PushedOnlyPushes
  <2>2. ClientStep(s, next)
    BY <1>2 DEF ListenerFlush
  <2> HIDE DEF next
  <2> QED BY <2>1, <2>2, OnePushes
<1>3. CASE SendPushes(s)
  <2>1. Conversation(FlushPendingPushRequests(c), d)
    BY <1>1, ConversationFlushed
  <2> QED BY <1>3, <2>1, OneClientConverses DEF SendPushes
<1>4. CASE RunRebase(s)
  <2>1. PICK early \in SUBSET Ids : ClientStep(s, Rebase(c, early))
    BY <1>4 DEF RunRebase
  <2>2. c.incomingDiffBuffer # <<>>
    BY <1>4 DEF RunRebase
  <2>3. Conversation(Rebase(c, early), d)
    BY <1>1, <2>2, ConversationRebased
  <2> QED BY <2>1, <2>3, OneClientConverses
<1>5. CASE LoseConnection(s)
  <2>1. Conversation(ConnectionLost(c, FALSE), d)
    BY <1>1, LostIs
  <2> QED BY <1>5, <2>1, OneClientConverses DEF LoseConnection
<1> QED BY <1>2, <1>3, <1>4, <1>5

\* A client opens a socket: a new conversation begins.
LEMMA ConnectConverses ==
    ASSUME InConversation, NEW s \in SessionIds, Connect(s)
    PROVE  Conversations'
<1> DEFINE c == clients[s]
           request == [type |-> "connect", connectRequestId |-> c.requests + 1,
                       lastServerClock |-> c.lastServerClock]
           quiet == [c EXCEPT !.out = <<>>]
           next == SendConnectMessage(quiet)
<1>1. c \in Client /\ sessions[s] \in Session /\ Conversation(c, sessions[s])
  BY InConversationHas
<1>2. /\ ~c.isConnectedToRoom /\ c.pendingPushRequests = <<>>
      /\ c.incomingDiffBuffer = <<>>
  <2>1. c.status # SocketOnline
    BY DEF Connect, SocketOnline, SocketOffline
  <2> QED BY <1>1, <2>1 DEF Conversation
<1>3. PICK presenceId :
        sessions' = [sessions EXCEPT ![s] =
           [NoSession EXCEPT !.state = AwaitingConnectMessage,
                             !.presenceId = presenceId,
                             !.isReadonly = FALSE, !.open = TRUE]]
  BY DEF Connect, HandleNewSession
<1> DEFINE e == [NoSession EXCEPT !.state = AwaitingConnectMessage,
                                  !.presenceId = presenceId,
                                  !.isReadonly = FALSE, !.open = TRUE]
<1>4. e.wire = <<>> /\ e.outstanding = <<>> /\ e.open
  BY DEF NoSession
<1> HIDE DEF e
<1>5. SessionData(e) = <<>>
  <2>1. <<>> \o <<>> = <<>>
    OBVIOUS
  <2> QED BY <1>4, <2>1, WireDataEmpty DEF SessionData
<1>6. NoConnects(e.wire)
  BY <1>4 DEF NoConnects
<1>7. /\ clients' = [clients EXCEPT ![s] = next] /\ UNCHANGED scenario
      /\ late' = [late EXCEPT ![s] = <<>>]
  BY DEF Connect, InConversation
<1>8. /\ next.status = SocketOnline /\ next.isConnectedToRoom = c.isConnectedToRoom
      /\ next.pendingPushRequests = c.pendingPushRequests
      /\ next.incomingDiffBuffer = c.incomingDiffBuffer
      /\ next.out = Append(<<>>, request)
  <2> HIDE DEF c
  <2>1. <<>> \in Seq(ClientMessage)
    OBVIOUS
  <2>2. /\ quiet \in Client /\ quiet.out = <<>>
        /\ quiet.requests = c.requests
        /\ quiet.lastServerClock = c.lastServerClock
        /\ quiet.isConnectedToRoom = c.isConnectedToRoom
        /\ quiet.pendingPushRequests = c.pendingPushRequests
        /\ quiet.incomingDiffBuffer = c.incomingDiffBuffer
    BY <1>1, <2>1 DEF Client
  <2> DEFINE sent == Append(quiet.out,
                       [type |-> "connect", connectRequestId |-> quiet.requests + 1,
                        lastServerClock |-> quiet.lastServerClock])
             requests == quiet.requests + 1
  <2>3. sent = Append(<<>>, request)
    BY <2>2
  <2>4. next = [quiet EXCEPT !.status = SocketOnline, !.requests = requests,
                             !.latestConnectRequestId = requests, !.out = sent]
    BY DEF SendConnectMessage
  <2> HIDE DEF quiet, sent, requests, next
  <2>5. /\ next.status = SocketOnline
        /\ next.isConnectedToRoom = quiet.isConnectedToRoom
        /\ next.pendingPushRequests = quiet.pendingPushRequests
        /\ next.incomingDiffBuffer = quiet.incomingDiffBuffer
        /\ next.out = sent
    BY <2>2, <2>4 DEF Client
  <2> HIDE DEF request, c
  <2> QED BY <2>2, <2>3, <2>5
<1> HIDE DEF next
<1>9. Len(next.out) = 1 /\ next.out[1].type = "connect"
  <2>1. request.type = "connect"
    OBVIOUS
  <2> HIDE DEF request
  <2>2. Append(<<>>, request) = <<request>>
    OBVIOUS
  <2> QED BY <1>8, <2>1, <2>2
<1>10. Apart(next, e)
  BY <1>5, <1>6, <1>9, AnsweredEmpty DEF Apart
<1>11. Conversation(next, e)
  BY <1>2, <1>8, <1>10 DEF Conversation
<1>12. \A t \in SessionIds :
         /\ clients'[t] = IF t = s THEN next ELSE clients[t]
         /\ sessions'[t] = IF t = s THEN e ELSE sessions[t]
         /\ late'[t] = <<>>
  BY <1>3, <1>7, InConversationHas DEF InConversation, SyncTyping, TypeOK, e
<1> QED BY <1>11, <1>12, InConversationHas DEF Conversations

\* A client hears of its session.
LEMMA ClientReceiveConverses ==
    ASSUME InConversation, NEW s \in SessionIds, ClientReceive(s)
    PROVE  Conversations'
<1> DEFINE c == clients[s]
           d == sessions[s]
           msg == Head(d.wire)
           next == IF msg.type = "close" THEN ConnectionLost(c, msg.fatal)
                   ELSE HandleServerEvent(c, msg)
           left == [d EXCEPT !.wire = Tail(@)]
<1>1. c \in Client /\ d \in Session /\ Conversation(c, d)
  BY InConversationHas
<1>2. /\ d.wire # <<>> /\ c.status = SocketOnline
      /\ sessions' = [sessions EXCEPT ![s] = left]
      /\ clients' = [clients EXCEPT ![s] = next] /\ UNCHANGED <<late, scenario>>
  BY DEF ClientReceive, Deliver
<1>3. Conversation(next, left)
  <2> HIDE DEF c, d
  <2> QED BY <1>1, <1>2, ConversationReceives
<1> HIDE DEF next, left
<1>4. \A t \in SessionIds :
         /\ clients'[t] = IF t = s THEN next ELSE clients[t]
         /\ sessions'[t] = IF t = s THEN left ELSE sessions[t]
         /\ late'[t] = late[t]
  BY <1>2, InConversationHas DEF InConversation, SyncTyping, TypeOK
<1> QED BY <1>2, <1>3, <1>4, InConversationHas DEF Conversations

\* The room's own steps.
LEMMA RoomStepConverses ==
    ASSUME InConversation, TypeOK', RoomStep
    PROVE  Conversations'
<1>1. UNCHANGED <<clients, late, scenario>>
  BY DEF RoomStep
<1>2. AllOverhear
  <2>1. ASSUME NEW s \in SessionIds, \/ FlushTimer(s)
                                     \/ MayLose(s) /\ SocketCloses(s)
                                     \/ ~sessions[s].open /\ HandleClose(s)
        PROVE  AllOverhear
    BY <2>1, InConversationHas, SessionOpsOverheard
  <2>2. ASSUME NEW timedOut \in scenario.timeOuts, PruneSessions(timedOut)
        PROVE  AllOverhear
    BY <2>2, ScenarioType, PruneSessionsOverheard DEF InConversation
  <2>3. PruneTombstones => AllOverhear
    BY InConversationHas, OverhearsItself DEF PruneTombstones, AllOverhear, SameDocs
  <2> QED BY <2>1, <2>2, <2>3 DEF RoomStep
<1>3. \A s \in SessionIds : sessions'[s] \in Session
  BY DEF TypeOK
<1>4. ASSUME NEW s \in SessionIds PROVE Conversation(clients[s], sessions'[s])
  BY <1>2, <1>3, InConversationHas, ConversationOverheard DEF AllOverhear
<1> QED BY <1>1, <1>4, InConversationHas DEF Conversations

\* The room handles a client's message: it accepts the client, answers its push
\* or rejects it, or ignores what it says.
LEMMA RoomReceiveConverses ==
    ASSUME InConversation, TypeOK', NEW s \in SessionIds, RoomReceive(s)
    PROVE  Conversations'
<1> DEFINE c == clients[s]
           d == sessions[s]
           e == sessions'[s]
           msg == Head(c.out)
           next == [c EXCEPT !.out = Tail(@)]
<1>1. /\ c \in Client /\ d \in Session /\ e \in Session /\ Conversation(c, d)
      /\ c.out \in Seq(ClientMessage) /\ TypeOK
  BY InConversationHas, ConversationType DEF TypeOK
<1>2. /\ c.out # <<>> /\ RoomHandles(s, msg)
      /\ clients' = [clients EXCEPT ![s] = next]
      /\ UNCHANGED <<late, scenario>>
  BY DEF RoomReceive
<1>3. msg \in ClientMessage
  BY <1>1, <1>2
<1>4. SUFFICES /\ Conversation(next, e)
               /\ \A t \in SessionIds \ {s} : Overhears(sessions[t], sessions'[t])
  <2>1. SUFFICES ASSUME Conversation(next, e),
                        \A t \in SessionIds \ {s} : Overhears(sessions[t], sessions'[t])
                 PROVE  Conversations'
    OBVIOUS
  <2> HIDE DEF next
  <2>2. \A t \in SessionIds : clients'[t] = IF t = s THEN next ELSE clients[t]
    BY <1>2 DEF InConversation, SyncTyping
  <2>3. ASSUME NEW t \in SessionIds, t # s
        PROVE  Conversation(clients[t], sessions'[t])
    <3>1. sessions'[t] \in Session
      BY DEF TypeOK
    <3> QED BY <2>1, <2>3, <3>1, InConversationHas, ConversationOverheard
  <2> QED BY <1>2, <2>1, <2>2, <2>3, InConversationHas DEF Conversations
<1>5. ASSUME SameDocs, \A t \in SessionIds \ {s} : sessions'[t] = sessions[t]
      PROVE  \A t \in SessionIds \ {s} : Overhears(sessions[t], sessions'[t])
  BY <1>5, InConversationHas, OverhearsItself
<1>6. CASE /\ msg.type = "connect"
           /\ HandleConnectRequest(s, msg.lastServerClock, TLSYNC_PROTOCOL_VERSION,
                                   TRUE, msg.connectRequestId)
  <2>1. msg.lastServerClock \in Nat /\ msg.connectRequestId \in Nat
    BY <1>3, <1>6 DEF ClientMessage
  <2>2. AnsweredBy(SessionData(d)) = <<>> => AnsweredBy(SessionData(e)) = <<>>
    BY <1>1, <1>6, <2>1, ConnectRequestAnswersNothing
  <2>3. \A t \in SessionIds \ {s} : sessions'[t] = sessions[t]
    BY <1>1, <1>6, <2>1, ConnectRequestAnswersNothing
  <2>4. Conversation(next, e)
    <3> HIDE DEF c, d, e
    <3> QED BY <1>1, <1>2, <1>6, <2>2, ConversationAccepted
  <2>5. SameDocs
    BY <1>6 DEF HandleConnectRequest, ClocksUnchanged, SameDocs
  <2> QED BY <1>5, <2>3, <2>4, <2>5
<1>7. CASE /\ msg.type = "push"
           /\ HandlePushRequest(s, msg.diff, msg.presence, msg.clientClock)
  <2>1. /\ msg.diff \in DocDiffs /\ msg.presence \in PresencePushes
        /\ msg.clientClock \in Nat
    BY <1>3, <1>7 DEF ClientMessage
  <2>2. /\ \A t \in SessionIds \ {s} : Overhears(sessions[t], sessions'[t])
        /\ \/ Overhears(d, e) /\ ~Listening(e)
           \/ \E answer \in DataMessage :
                /\ IsAnswer(answer) /\ answer.clientClock = msg.clientClock
                /\ Hears(d, e, <<answer>>)
    <3>1. MessagesInv /\ RecordsInv
      BY DEF InConversation
    <3> HIDE DEF msg
    <3> QED BY <1>7, <2>1, <3>1, HandlePushRequestOverheard DEF Settles
  <2>3. ASSUME Overhears(d, e), ~Listening(e) PROVE Conversation(next, e)
    <3> HIDE DEF c, d, e
    <3>1. Conversation(c, e)
      BY <1>1, <2>3, ConversationOverheard
    <3> QED BY <1>1, <1>2, <2>3, <3>1, ConversationIgnored
  <2>4. ASSUME NEW answer \in DataMessage, IsAnswer(answer),
               answer.clientClock = msg.clientClock, Hears(d, e, <<answer>>)
        PROVE  Conversation(next, e)
    <3> HIDE DEF c, d, e
    <3> QED BY <1>1, <1>2, <1>7, <2>4, ConversationAnswered
  <2> QED BY <2>2, <2>3, <2>4
<1>8. CASE /\ \/ sessions[s].state = "none"
              \/ sessions[s].state # Connected /\ msg.type = "push"
           /\ UNCHANGED vars
  <2>1. sessions' = sessions
    BY <1>8 DEF vars
  <2>2. ~Listening(d)
    BY <1>8 DEF Listening, Connected
  <2>3. Conversation(next, d)
    <3> HIDE DEF c, d, e
    <3> QED BY <1>1, <1>2, <2>2, ConversationIgnored
  <2>4. SameDocs
    BY <1>8 DEF vars, SameDocs
  <2> QED BY <1>5, <2>1, <2>3, <2>4
<1> QED BY <1>2, <1>6, <1>7, <1>8 DEF RoomHandles

\* Every step keeps clients and sessions in conversation.
LEMMA NextConverses ==
    ASSUME SyncTyping, RoomInv, MessagesInv, Conversations, [SyncNext]_syncVars,
           TypeOK'
    PROVE  Conversations'
<1>1. SUFFICES ASSUME ~scenario.late PROVE Conversations'
  <2>1. scenario' = scenario
    BY DEF SyncNext, syncVars, Edit, Move, ListenerFlush, SendPushes, RunRebase,
           Connect, LoseConnection, ClientReceive, RoomReceive, RoomReceiveLate,
           RoomStep, ClientStep
  <2> QED BY <2>1 DEF Conversations
<1>2. InConversation
  BY <1>1 DEF InConversation, RoomInv
<1>3. ASSUME NEW s \in SessionIds, NEW id \in Ids,
             NEW record \in scenario.edits[s][id], Edit(s, id, record)
      PROVE  Conversations'
  BY <1>2, <1>3, EditConverses
<1>4. ASSUME NEW s \in SessionIds, NEW presence \in scenario.moves,
             Move(s, presence)
      PROVE  Conversations'
  BY <1>2, <1>4, MoveConverses
<1>5. ASSUME NEW s \in SessionIds,
             \/ ListenerFlush(s) \/ SendPushes(s) \/ RunRebase(s) \/ LoseConnection(s)
      PROVE  Conversations'
  BY <1>2, <1>5, OwnStepsConverse
<1>6. ASSUME NEW s \in SessionIds, Connect(s) PROVE Conversations'
  BY <1>2, <1>6, ConnectConverses
<1>7. ASSUME NEW s \in SessionIds, ClientReceive(s) PROVE Conversations'
  BY <1>2, <1>7, ClientReceiveConverses
<1>8. ASSUME NEW s \in SessionIds, RoomReceive(s) PROVE Conversations'
  BY <1>2, <1>8, RoomReceiveConverses
<1>9. ASSUME NEW s \in SessionIds PROVE ~RoomReceiveLate(s)
  BY <1>2, InConversationHas DEF RoomReceiveLate
<1>10. RoomStep => Conversations'
  BY <1>2, RoomStepConverses
<1>11. UNCHANGED syncVars => Conversations'
  BY DEF syncVars, vars, Conversations
<1> QED BY <1>3, <1>4, <1>5, <1>6, <1>7, <1>8, <1>9, <1>10, <1>11 DEF SyncNext

\* At first nobody is connected.
LEMMA InitConverses ==
    ASSUME SyncInit
    PROVE  Conversations
<1>1. \A s \in SessionIds : clients[s] = NewClient /\ late[s] = <<>>
  BY DEF SyncInit
<1>2. /\ NewClient.status # SocketOnline /\ ~NewClient.isConnectedToRoom
      /\ NewClient.pendingPushRequests = <<>> /\ NewClient.incomingDiffBuffer = <<>>
  BY DEF NewClient, SocketOnline, SocketOffline
<1>3. \A s \in SessionIds : Conversation(clients[s], sessions[s])
  BY <1>1, <1>2, ConversationOver
<1> QED BY <1>1, <1>3 DEF Conversations

\* rebase never meets an answer that is not for the request at the front of the
\* queue: what the room answers, a socket carries, a debounce timer holds back
\* and a buffer collects stays in step with pendingPushRequests, through lost
\* connections, rejections, closed sockets and sessions that time out, as long
\* as no earlier socket of the tab delivers what the client has forgotten.
THEOREM AnswersInOrderCorrect == SyncSpec => []AnswersInOrder
<1>1. SyncInit => Conversations
  BY InitConverses
<1>2. /\ Conversations /\ (SyncTyping /\ TypeOK) /\ (SyncTyping /\ TypeOK)'
      /\ (RoomInv /\ MessagesInv) /\ [SyncNext]_syncVars
      => Conversations'
  BY NextConverses
<1>3. Conversations /\ (SyncTyping /\ TypeOK) => AnswersInOrder
  <2>1. ASSUME SyncTyping, TypeOK, Conversations, ~scenario.late, NEW s \in SessionIds
        PROVE  AnswersMatch(clients[s])
    BY <2>1, ConversationMatches DEF SyncTyping, TypeOK, Conversations
  <2> QED BY <2>1 DEF AnswersInOrder
<1> QED BY <1>1, <1>2, <1>3, SyncTypingCorrect, SyncRoomCorrect, PTL DEF SyncSpec

-----------------------------------------------------------------------------
(***************************************************************************)
(* What changes do to the documents of a store: the presence records that  *)
(* lie beside them do not matter.                                          *)
(***************************************************************************)
DocsOf(store) == [id \in Ids |-> store[id]]

\* The changes lead from one version of the documents to another.
Leads(x, d, y) == Applicable(x, d) /\ ApplyChanges(x, d) = y

\* The documents of a store, and what leads from them.
LEMMA DocsAre ==
    /\ \A store \in Stores : DocsOf(store) \in Docs
    /\ \A x \in Docs, d \in DocChanges : \A y : Leads(x, d, y) => y \in Docs
<1>1. \A store \in Stores : DocsOf(store) \in Docs
  BY DEF DocsOf, Docs, Stores, RecordIds
<1>2. \A x \in Docs, d \in DocChanges : \A y : Leads(x, d, y) => y \in Docs
  BY ApplyInStores DEF Leads, Docs, DocChanges, MaybeRecord
<1> QED BY <1>1, <1>2

\* Squashed changes lead as far as both.
LEMMA SquashLeads ==
    ASSUME NEW x, NEW y, NEW z, NEW d, NEW e, Leads(x, d, y), Leads(y, e, z)
    PROVE  Leads(x, Squash(d, e), z)
BY SquashComposes DEF Leads

\* No changes lead nowhere.
LEMMA NoChangesLead ==
    ASSUME NEW x \in Docs
    PROVE  Leads(x, NoChanges, x) /\ \A y : Leads(x, NoChanges, y) => y = x
<1>1. /\ DOMAIN NoChanges.added = {} /\ DOMAIN NoChanges.updated = {}
      /\ DOMAIN NoChanges.removed = {}
  BY DEF NoChanges, NoRecords
<1>2. Applicable(x, NoChanges)
  BY <1>1 DEF Applicable, Touched
<1>3. ApplyChanges(x, NoChanges) = x
  BY <1>1 DEF ApplyChanges, Docs
<1> QED BY <1>2, <1>3 DEF Leads

\* Changes of documents, made to a store or undone in it.
LEMMA DocsChange ==
    ASSUME NEW store \in Stores, NEW d \in DocChanges
    PROVE  /\ DocsOf(ApplyChanges(store, d)) = ApplyChanges(DocsOf(store), d)
           /\ \A x \in Docs : Leads(x, d, DocsOf(store)) =>
                DocsOf(ApplyChanges(store, ReverseRecordsDiff(d))) = x
<1>1. ASSUME NEW e
      PROVE  DocsOf(ApplyChanges(store, e)) = ApplyChanges(DocsOf(store), e)
  BY DEF DocsOf, ApplyChanges, Stores, RecordIds
<1>2. ASSUME NEW x \in Docs, Leads(x, d, DocsOf(store))
      PROVE  DocsOf(ApplyChanges(store, ReverseRecordsDiff(d))) = x
  <2>1. x = [id \in DOMAIN x |-> x[id]]
    BY DEF Docs
  <2>2. ApplyChanges(ApplyChanges(x, d), ReverseRecordsDiff(d)) = x
    BY <1>2, <2>1, ReverseInverts DEF Leads
  <2> QED BY <1>1, <1>2, <2>2 DEF Leads
<1> QED BY <1>1, <1>2

\* Network diffs of a store.
LEMMA DocsDiff ==
    ASSUME NEW store \in Stores, NEW diff
    PROVE  DocsOf(ApplyNetworkDiff(store, diff)) = ApplyNetworkDiff(DocsOf(store), diff)
BY DEF DocsOf, ApplyNetworkDiff, Stores, RecordIds

\* The entry of the changes from one store to another.
LEMMA BetweenDocs ==
    ASSUME NEW old \in Stores, NEW new \in Stores,
           \A p \in RecordIds \ Ids : new[p] = old[p]
    PROVE  Leads(DocsOf(old), Between(old, new), DocsOf(new))
<1>1. {id \in DOMAIN old : old[id] # new[id]}
        = {id \in DOMAIN DocsOf(old) : DocsOf(old)[id] # DocsOf(new)[id]}
  BY DEF Stores, RecordIds, DocsOf
<1>2. Between(old, new) = Between(DocsOf(old), DocsOf(new))
  BY <1>1 DEF Between, DocsOf
<1>3. DOMAIN DocsOf(new) = DOMAIN DocsOf(old)
      /\ DocsOf(new) = [id \in DOMAIN DocsOf(old) |-> DocsOf(new)[id]]
  BY DEF DocsOf
<1> QED BY <1>2, <1>3, BetweenLeads DEF Leads

\* What a client pushes for changes is what they do.
LEMMA PushedLeads ==
    ASSUME NEW x \in Docs, NEW d \in DocChanges, NEW y, Leads(x, d, y)
    PROVE  /\ ApplyNetworkDiff(x, GetNetworkDiff(d)) = y
           /\ GetNetworkDiff(d) = EmptyDiff => y = x
<1> DEFINE diff == GetNetworkDiff(d)
           updated == {id \in DOMAIN d.updated : d.updated[id].from # d.updated[id].to}
<1>1. /\ Applicable(x, d) /\ y = ApplyChanges(x, d) /\ y \in Docs
      /\ DOMAIN x = Ids /\ \A id \in Ids : x[id] \in MaybeRecord
  BY DocsAre DEF Leads, Docs
<1>2. /\ DOMAIN diff = DOMAIN d.added \cup updated \cup DOMAIN d.removed
      /\ \A id \in DOMAIN diff :
           diff[id] = IF id \in DOMAIN d.removed THEN RemoveOp
                      ELSE IF id \in updated
                        THEN PatchOp(DiffRecord(d.updated[id].from, d.updated[id].to))
                      ELSE PutOp(d.added[id])
  BY DEF GetNetworkDiff
<1> HIDE DEF diff
<1>3. ASSUME NEW id \in Ids
      PROVE  y[id] = IF id \in DOMAIN diff THEN ApplyOp(x[id], diff[id]) ELSE x[id]
  <2>1. y[id] \in MaybeRecord /\ x[id] \in MaybeRecord
    BY <1>1 DEF Docs
  <2>2. CASE id \in DOMAIN d.removed
    <3>1. y[id] = Absent
      BY <1>1, <2>2, AppliedValue
    <3>2. diff[id] = OpBetween(x[id], y[id])
      BY <1>2, <2>2, <3>1 DEF OpBetween
    <3> QED BY <1>2, <2>1, <2>2, <3>2, OpBetweenApplies
  <2>3. CASE id \in DOMAIN d.updated
    <3>1. /\ y[id] = d.updated[id].to /\ x[id] = d.updated[id].from
          /\ x[id] # Absent /\ y[id] # Absent
          /\ id \notin DOMAIN d.added /\ id \notin DOMAIN d.removed
      BY <1>1, <2>3, AppliedValue, PartsDisjoint DEF Applicable
    <3>2. CASE x[id] = y[id]
      BY <1>2, <3>1, <3>2
    <3>3. CASE x[id] # y[id]
      <4>1. id \in DOMAIN diff /\ diff[id] = OpBetween(x[id], y[id])
        BY <1>2, <2>3, <3>1, <3>3 DEF OpBetween
      <4> QED BY <2>1, <4>1, OpBetweenApplies
    <3> QED BY <3>2, <3>3
  <2>4. CASE id \in DOMAIN d.added
    <3>1. /\ y[id] = d.added[id] /\ x[id] = Absent /\ y[id] # Absent
          /\ id \notin DOMAIN d.updated /\ id \notin DOMAIN d.removed
      BY <1>1, <2>4, AppliedValue, PartsDisjoint DEF Applicable
    <3>2. id \in DOMAIN diff /\ diff[id] = OpBetween(x[id], y[id])
      BY <1>2, <2>4, <3>1 DEF OpBetween
    <3> QED BY <2>1, <3>2, OpBetweenApplies
  <2>5. CASE id \notin Touched(d)
    BY <1>1, <1>2, <2>5, AppliedValue DEF Touched
  <2> QED BY <2>2, <2>3, <2>4, <2>5 DEF Touched
<1>4. ApplyNetworkDiff(x, diff)
        = [id \in Ids |-> IF id \in DOMAIN diff THEN ApplyOp(x[id], diff[id])
                          ELSE x[id]]
  BY <1>1 DEF ApplyNetworkDiff
<1>5. y = [id \in Ids |-> y[id]]
  BY <1>1 DEF Docs
<1>6. ApplyNetworkDiff(x, diff) = y
  BY <1>3, <1>4, <1>5
<1>7. diff = EmptyDiff => ApplyNetworkDiff(x, diff) = x
  BY <1>1, <1>4 DEF EmptyDiff, Docs
<1> QED BY <1>6, <1>7 DEF diff

-----------------------------------------------------------------------------
(***************************************************************************)
(* The changes of a history lead, one after the other, from the documents  *)
(* before it to those after it.                                            *)
(***************************************************************************)
Path(history, x, y) ==
    \E steps \in [0..Len(history) -> Docs] :
        /\ steps[0] = x /\ steps[Len(history)] = y
        /\ \A i \in 1..Len(history) : Leads(steps[i - 1], history[i], steps[i])

\* No history leads nowhere.
LEMMA PathEmpty ==
    ASSUME NEW x \in Docs
    PROVE  Path(<<>>, x, x) /\ \A y : Path(<<>>, x, y) => y = x
<1>1. Len(<<>>) = 0
  OBVIOUS
<1>2. Path(<<>>, x, x)
  <2> DEFINE steps == [i \in 0..0 |-> x]
  <2>1. steps \in [0..0 -> Docs] /\ steps[0] = x
    OBVIOUS
  <2> HIDE DEF steps
  <2>2. \E path \in [0..0 -> Docs] :
          /\ path[0] = x /\ path[0] = x
          /\ \A i \in 1..0 : Leads(path[i - 1], <<>>[i], path[i])
    BY <2>1
  <2> QED BY <1>1, <2>2, Zenon DEF Path
<1> QED BY <1>1, <1>2 DEF Path

\* A history leads between documents.
LEMMA PathType ==
    ASSUME NEW history \in Seq(DocChanges), NEW x, NEW y, Path(history, x, y)
    PROVE  x \in Docs /\ y \in Docs
<1>1. Len(history) \in Nat
  OBVIOUS
<1> QED BY <1>1 DEF Path

\* One more entry.
LEMMA PathAppend ==
    ASSUME NEW history \in Seq(DocChanges), NEW x, NEW y, Path(history, x, y),
           NEW e \in DocChanges, NEW z, Leads(y, e, z)
    PROVE  Path(Append(history, e), x, z)
<1> DEFINE n == Len(history)
           more == Append(history, e)
<1>1. PICK steps \in [0..n -> Docs] :
        /\ steps[0] = x /\ steps[n] = y
        /\ \A i \in 1..n : Leads(steps[i - 1], history[i], steps[i])
  BY DEF Path
<1>2. n \in Nat /\ Len(more) = n + 1 /\ more[n + 1] = e
      /\ \A i \in 1..n : more[i] = history[i]
  OBVIOUS
<1>3. z \in Docs
  BY PathType, DocsAre
<1> DEFINE next == [i \in 0..n + 1 |-> IF i <= n THEN steps[i] ELSE z]
<1> HIDE DEF n, more
<1>4. next \in [0..n + 1 -> Docs]
  BY <1>1, <1>2, <1>3
<1>5. next[0] = x /\ next[n + 1] = z
  BY <1>1, <1>2
<1>6. ASSUME NEW i \in 1..n + 1 PROVE Leads(next[i - 1], more[i], next[i])
  <2>1. CASE i \in 1..n
    BY <1>1, <1>2, <2>1
  <2>2. CASE i = n + 1
    <3>1. next[i - 1] = y /\ next[i] = z
      BY <1>1, <1>2, <2>2
    <3> QED BY <1>2, <2>2, <3>1
  <2> QED BY <1>2, <2>1, <2>2
<1> HIDE DEF next
<1>7. \E path \in [0..n + 1 -> Docs] :
        /\ path[0] = x /\ path[n + 1] = z
        /\ \A i \in 1..n + 1 : Leads(path[i - 1], more[i], path[i])
  BY <1>4, <1>5, <1>6
<1> QED BY <1>2, <1>7 DEF Path, more

\* An entry that joins the last one.
LEMMA PathSquash ==
    ASSUME NEW history \in Seq(DocChanges), history # <<>>,
           NEW x, NEW y, Path(history, x, y),
           NEW e \in DocChanges, NEW z, Leads(y, e, z)
    PROVE  Path([history EXCEPT ![Len(history)] = Squash(history[Len(history)], e)],
                x, z)
<1> DEFINE n == Len(history)
           squashed == Squash(history[n], e)
           more == [history EXCEPT ![n] = squashed]
<1>1. PICK steps \in [0..n -> Docs] :
        /\ steps[0] = x /\ steps[n] = y
        /\ \A i \in 1..n : Leads(steps[i - 1], history[i], steps[i])
  BY DEF Path
<1>2. n \in Nat /\ n > 0 /\ Len(more) = n
      /\ \A i \in 1..n - 1 : more[i] = history[i]
      /\ more[n] = squashed
  <2> HIDE DEF squashed
  <2> QED OBVIOUS
<1>3. z \in Docs
  BY PathType, DocsAre
<1> DEFINE next == [i \in 0..n |-> IF i < n THEN steps[i] ELSE z]
<1> HIDE DEF n, more, squashed
<1>4. Leads(steps[n - 1], squashed, z)
  <2>1. n \in 1..n
    BY <1>2
  <2>2. Leads(steps[n - 1], history[n], steps[n])
    BY <1>1, <2>1
  <2> QED BY <1>1, <2>2, SquashLeads, Zenon DEF squashed
<1>5. next \in [0..n -> Docs]
  BY <1>1, <1>2, <1>3
<1>6. next[0] = x /\ next[n] = z
  BY <1>1, <1>2
<1>7. ASSUME NEW i \in 1..n PROVE Leads(next[i - 1], more[i], next[i])
  <2>1. CASE i \in 1..n - 1
    <3>1. next[i - 1] = steps[i - 1] /\ next[i] = steps[i]
      BY <1>2, <2>1
    <3>2. i \in 1..n /\ more[i] = history[i]
      BY <1>2, <2>1
    <3> QED BY <1>1, <3>1, <3>2
  <2>2. CASE i = n
    <3>1. next[i - 1] = steps[n - 1] /\ next[i] = z /\ more[i] = squashed
      BY <1>2, <2>2
    <3> QED BY <1>4, <3>1, Zenon
  <2> QED BY <1>2, <2>1, <2>2
<1> HIDE DEF next
<1>8. \E path \in [0..n -> Docs] :
        /\ path[0] = x /\ path[n] = z
        /\ \A i \in 1..n : Leads(path[i - 1], more[i], path[i])
  BY <1>5, <1>6, <1>7
<1>9. Path(more, x, z)
  BY <1>2, <1>8 DEF Path
<1> QED BY <1>9 DEF more, squashed, n

\* The history accumulator takes an entry.
LEMMA PathWithEntry ==
    ASSUME NEW history \in Seq(DocChanges), NEW x, NEW y, Path(history, x, y),
           NEW e \in DocChanges, NEW z, Leads(y, e, z)
    PROVE  Path(WithEntry(history, e), x, z)
<1>1. Len(history) > 0 => history # <<>>
  OBVIOUS
<1>2. WithEntry(history, e)
        = IF Len(history) > 0 /\ history[Len(history)] # NoChanges
            THEN [history EXCEPT ![Len(history)] = Squash(history[Len(history)], e)]
            ELSE Append(history, e)
  BY DEF WithEntry
<1> QED BY <1>1, <1>2, PathAppend, PathSquash

\* A history before which there are changes.
LEMMA PathFrom ==
    ASSUME NEW history \in Seq(DocChanges), NEW x, NEW y, Path(history, x, y),
           NEW base \in Docs, NEW d \in DocChanges, Leads(base, d, x)
    PROVE  Path(<<d>> \o history, base, y)
<1> DEFINE n == Len(history)
           more == <<d>> \o history
<1>1. PICK steps \in [0..n -> Docs] :
        /\ steps[0] = x /\ steps[n] = y
        /\ \A i \in 1..n : Leads(steps[i - 1], history[i], steps[i])
  BY DEF Path
<1>2. n \in Nat /\ Len(more) = n + 1 /\ more[1] = d
      /\ \A i \in 2..n + 1 : more[i] = history[i - 1]
  OBVIOUS
<1> DEFINE next == [i \in 0..n + 1 |-> IF i = 0 THEN base ELSE steps[i - 1]]
<1> HIDE DEF n, more
<1>3. next \in [0..n + 1 -> Docs]
  BY <1>1, <1>2
<1>4. next[0] = base /\ next[n + 1] = y
  BY <1>1, <1>2
<1>5. ASSUME NEW i \in 1..n + 1 PROVE Leads(next[i - 1], more[i], next[i])
  <2>1. CASE i = 1
    <3>1. next[i - 1] = base /\ next[i] = x
      BY <1>1, <1>2, <2>1
    <3> QED BY <1>2, <2>1, <3>1
  <2>2. CASE i \in 2..n + 1
    <3>1. i - 1 \in 1..n /\ next[i - 1] = steps[i - 1 - 1] /\ next[i] = steps[i - 1]
      BY <1>2, <2>2
    <3> QED BY <1>1, <1>2, <2>2, <3>1
  <2> QED BY <1>2, <2>1, <2>2
<1> HIDE DEF next
<1>6. \E path \in [0..n + 1 -> Docs] :
        /\ path[0] = base /\ path[n + 1] = y
        /\ \A i \in 1..n + 1 : Leads(path[i - 1], more[i], path[i])
  BY <1>3, <1>4, <1>5
<1> QED BY <1>2, <1>6 DEF Path, more

\* A history of nothing but remote changes leads nowhere.
LEMMA PathDone ==
    ASSUME NEW history \in Seq(DocChanges), NEW x, NEW y, Path(history, x, y),
           \A i \in 1..Len(history) : history[i] = NoChanges
    PROVE  x = y
<1> DEFINE n == Len(history)
<1>1. PICK steps \in [0..n -> Docs] :
        /\ steps[0] = x /\ steps[n] = y
        /\ \A i \in 1..n : Leads(steps[i - 1], history[i], steps[i])
  BY DEF Path
<1>2. n \in Nat
  OBVIOUS
<1> DEFINE S == {i \in Nat : i <= n => steps[i] = x}
<1> HIDE DEF n
<1>3. 0 \in S
  BY <1>1
<1>4. ASSUME NEW i \in Nat, i \in S PROVE i + 1 \in S
  <2> SUFFICES ASSUME i + 1 <= n PROVE steps[i + 1] = x
    OBVIOUS
  <2>1. steps[i] = x /\ i + 1 \in 1..n /\ (i + 1) - 1 = i /\ x \in Docs
    BY <1>1, <1>2, <1>4
  <2>2. Leads(steps[i], history[i + 1], steps[i + 1])
    BY <1>1, <2>1
  <2>3. history[i + 1] = NoChanges
    BY <2>1 DEF n
  <2> QED BY <2>1, <2>2, <2>3, NoChangesLead
<1> HIDE DEF S
<1>5. Nat \subseteq S
  BY <1>3, <1>4, Pushing!SetInduction
<1> QED BY <1>1, <1>2, <1>5 DEF S

\* The first entry that touches a document tells what it was before them all.
LEMMA PathUndone ==
    ASSUME NEW history \in Seq(DocChanges), NEW x, NEW store,
           Path(history, x, DocsOf(store))
    PROVE  Undone(store, history) = x
<1> DEFINE n == Len(history)
           touching(id) == {i \in 1..n : id \in Touched(history[i])}
<1>1. PICK steps \in [0..n -> Docs] :
        /\ steps[0] = x /\ steps[n] = DocsOf(store)
        /\ \A i \in 1..n : Leads(steps[i - 1], history[i], steps[i])
  BY DEF Path
<1>2. n \in Nat /\ DOMAIN history = 1..n
  OBVIOUS
<1>3. x \in Docs
  BY PathType
<1> HIDE DEF n
<1>4. ASSUME NEW id \in Ids, NEW i \in 1..n
      PROVE  /\ steps[i - 1] \in Docs
             /\ id \notin Touched(history[i]) => steps[i][id] = steps[i - 1][id]
             /\ id \in Touched(history[i]) =>
                  BeforeChange(history[i], id) = steps[i - 1][id]
  <2>1. Applicable(steps[i - 1], history[i])
        /\ steps[i] = ApplyChanges(steps[i - 1], history[i])
    BY <1>1 DEF Leads
  <2>2. i - 1 \in 0..n
    BY <1>2
  <2>3. steps[i - 1] \in Docs
    BY <1>1, <2>2
  <2> DEFINE old == steps[i - 1]
             d == history[i]
  <2> HIDE DEF old, d
  <2>4. DOMAIN old = Ids
    BY <2>3 DEF Docs, old
  <2>5. id \notin Touched(d) => ApplyChanges(old, d)[id] = old[id]
    BY <2>1, <2>4, AppliedValue DEF old, d
  <2>6. id \in Touched(d) => BeforeChange(d, id) = old[id]
    BY <2>1 DEF old, d, Touched, BeforeChange, Applicable
  <2> QED BY <2>1, <2>3, <2>5, <2>6 DEF old, d
<1>5. ASSUME NEW id \in Ids, NEW m \in 0..n, \A i \in 1..m : i \notin touching(id)
      PROVE  steps[m][id] = x[id]
  <2> DEFINE S == {i \in Nat : i <= m => steps[i][id] = x[id]}
  <2>1. 0 \in S
    BY <1>1
  <2>2. ASSUME NEW i \in Nat, i \in S PROVE i + 1 \in S
    <3> SUFFICES ASSUME i + 1 <= m PROVE steps[i + 1][id] = x[id]
      OBVIOUS
    <3>1. steps[i][id] = x[id] /\ i + 1 \in 1..n /\ (i + 1) - 1 = i /\ i + 1 \in 1..m
      BY <1>2, <2>2
    <3>2. id \notin Touched(history[i + 1])
      BY <1>5, <3>1
    <3>3. steps[i + 1][id] = steps[i][id]
      BY <1>4, <3>1, <3>2
    <3> QED BY <3>1, <3>3
  <2> HIDE DEF S
  <2>3. Nat \subseteq S
    BY <2>1, <2>2, Pushing!SetInduction
  <2> QED BY <1>2, <2>3 DEF S
<1>6. ASSUME NEW id \in Ids PROVE Undone(store, history)[id] = x[id]
  <2> DEFINE t == touching(id)
  <2>1. Undone(store, history)[id]
          = IF t = {} THEN store[id] ELSE BeforeChange(history[Min(t)], id)
    BY <1>2 DEF Undone
  <2>2. CASE t = {}
    <3>1. n \in 0..n /\ \A i \in 1..n : i \notin t
      BY <1>2, <2>2
    <3>2. steps[n][id] = x[id]
      BY <1>5, <3>1
    <3>3. DocsOf(store)[id] = store[id]
      BY DEF DocsOf
    <3> QED BY <1>1, <2>1, <2>2, <3>2, <3>3
  <2>3. CASE t # {}
    <3>1. t \in SUBSET Nat
      BY <1>2
    <3> HIDE DEF t
    <3>2. \E m \in t : \A i \in t : m <= i
      BY <2>3, <3>1, Pushing!LeastNumber
    <3> DEFINE m == Min(t)
    <3>3. m \in t /\ \A i \in t : m <= i
      BY <3>2 DEF Min
    <3> HIDE DEF m
    <3>4. m \in 1..n /\ id \in Touched(history[m]) /\ m - 1 \in 0..n
      BY <1>2, <3>3 DEF t
    <3>5. \A i \in 1..m - 1 : i \notin touching(id)
      BY <1>2, <3>3, <3>4 DEF t
    <3>6. steps[m - 1][id] = x[id]
      BY <1>5, <3>4, <3>5
    <3>7. BeforeChange(history[m], id) = steps[m - 1][id]
      BY <1>4, <3>4
    <3> QED BY <2>1, <2>3, <3>6, <3>7 DEF m
  <2> QED BY <2>2, <2>3
<1>7. Undone(store, history) = [id \in Ids |-> Undone(store, history)[id]]
  BY DEF Undone
<1> QED BY <1>3, <1>6, <1>7 DEF Docs

-----------------------------------------------------------------------------
(***************************************************************************)
(* How a client's store is related to a version of the room's documents:   *)
(* its speculative changes lead from there to what the listener has seen,  *)
(* and its history from there to the store.                                *)
(***************************************************************************)
Shown(c, base, x) ==
    /\ Leads(base, c.speculativeChanges, x)
    /\ c.isConnectedToRoom => x = WithPending(c, base)

Ahead(c, base) ==
    \E x \in Docs : Shown(c, base, x) /\ Path(c.history, x, DocsOf(c.store))

\* Undoing is going back.
LEMMA AheadConfirms ==
    ASSUME NEW c \in Client, NEW base \in Docs, Ahead(c, base)
    PROVE  /\ Confirmed(c) = base
           /\ c.isConnectedToRoom => Flushed(c) = WithPending(c, Confirmed(c))
<1> DEFINE d == c.speculativeChanges
           history == c.history
           all == <<d>> \o history
<1>1. PICK x \in Docs : /\ Leads(base, d, x)
                        /\ Path(history, x, DocsOf(c.store))
                        /\ c.isConnectedToRoom => x = WithPending(c, base)
  BY DEF Ahead, Shown
<1>2. d \in DocChanges /\ history \in Seq(DocChanges)
  BY DEF Client
<1>3. Confirmed(c) = Undone(c.store, all) /\ Flushed(c) = Undone(c.store, history)
  BY DEF Confirmed, Flushed
<1> HIDE DEF d, history
<1>4. all \in Seq(DocChanges)
  BY <1>2
<1>5. Path(all, base, DocsOf(c.store))
  BY <1>1, <1>2, PathFrom
<1> HIDE DEF all
<1>6. Undone(c.store, all) = base /\ Undone(c.store, history) = x
  BY <1>1, <1>2, <1>4, <1>5, PathUndone
<1> QED BY <1>1, <1>3, <1>6

\* The pending requests, one after the other.
LEMMA WithPendingIs ==
    \A c, x : WithPending(c, x) = Requesting!Fold(x, c.pendingPushRequests)
BY DEF WithPending, FoldLeft, MapThenFoldSet, Max, Requesting!Fold,
       Requesting!MapThenFoldSet, Requesting!Greatest

\* What the requests change, without what they say of presence and whether they
\* were sent.
SameDiffs(reqs, more) ==
    Len(more) = Len(reqs) /\ \A i \in 1..Len(reqs) : more[i].diff = reqs[i].diff

\* A client whose requests say the same of documents shows the same.
LEMMA WithPendingSame ==
    ASSUME NEW c \in Client, NEW e \in Client, NEW x,
           SameDiffs(c.pendingPushRequests, e.pendingPushRequests)
    PROVE  WithPending(e, x) = WithPending(c, x)
<1> DEFINE reqs == c.pendingPushRequests
           more == e.pendingPushRequests
<1>1. reqs \in Seq(DocRequest) /\ more \in Seq(DocRequest)
  BY DEF Client
<1>2. SameDiffs(reqs, more)
  OBVIOUS
<1> HIDE DEF reqs, more
<1>3. PICK acc : /\ acc[0] = x
                 /\ \A i \in 1..Len(reqs) : acc[i] = ApplyRequest(acc[i - 1], reqs[i])
                 /\ Requesting!Fold(x, reqs) = acc[Len(reqs)]
  BY <1>1, Requesting!FoldTrace
<1>4. \A i \in 1..Len(more) : acc[i] = ApplyRequest(acc[i - 1], more[i])
  BY <1>2, <1>3 DEF SameDiffs, ApplyRequest
<1>5. Requesting!Fold(x, more) = acc[Len(more)]
  BY <1>1, <1>3, <1>4, Requesting!FoldIs
<1>6. Len(more) = Len(reqs)
  BY <1>2 DEF SameDiffs
<1> QED BY <1>3, <1>5, <1>6, WithPendingIs DEF reqs, more

\* Nothing pending, or one more request.
LEMMA WithPendingMore ==
    ASSUME NEW c \in Client, NEW x
    PROVE  /\ c.pendingPushRequests = <<>> => WithPending(c, x) = x
           /\ \A e, req : req \in DocRequest
                /\ e.pendingPushRequests = Append(c.pendingPushRequests, req) =>
                     WithPending(e, x) = ApplyNetworkDiff(WithPending(c, x), req.diff)
<1>1. c.pendingPushRequests = <<>> => WithPending(c, x) = x
  BY WithPendingIs, Requesting!FoldEmpty
<1>2. ASSUME NEW e, NEW req \in DocRequest,
             e.pendingPushRequests = Append(c.pendingPushRequests, req)
      PROVE  WithPending(e, x) = ApplyNetworkDiff(WithPending(c, x), req.diff)
  <2> DEFINE reqs == c.pendingPushRequests
  <2>1. reqs \in Seq(DocRequest)
    BY DEF Client
  <2> HIDE DEF reqs
  <2>2. Requesting!Fold(x, Append(reqs, req))
          = ApplyRequest(Requesting!Fold(x, reqs), req)
    BY <2>1, Requesting!FoldAppend
  <2> QED BY <1>2, <2>2, WithPendingIs DEF reqs, ApplyRequest
<1> QED BY <1>1, <1>2

\* An empty diff does nothing.
LEMMA EmptyDiffApplies ==
    ASSUME NEW x \in Docs
    PROVE  ApplyNetworkDiff(x, EmptyDiff) = x
BY DEF ApplyNetworkDiff, EmptyDiff, Docs

(***************************************************************************)
(* The clocks of the pending requests: none is used twice.                 *)
(***************************************************************************)
PendingPushes(c) ==
    {[clientClock |-> c.pendingPushRequests[i].clientClock,
      diff |-> c.pendingPushRequests[i].diff] :
        i \in 1..Len(c.pendingPushRequests)}

Numbered(c) ==
    \A p \in PendingPushes(c) :
        /\ p.clientClock < c.clientClock
        /\ \A q \in PendingPushes(c) : q.clientClock = p.clientClock => q = p

\* What the pending requests are.
LEMMA PushesHave ==
    ASSUME NEW c \in Client
    PROVE  /\ c.clientClock \in Nat
           /\ \A p \in PendingPushes(c) : p.clientClock \in Nat /\ p.diff \in DocDiffs
<1>1. c.pendingPushRequests \in Seq(DocRequest) /\ c.clientClock \in Nat
  BY DEF Client
<1>2. \A i \in 1..Len(c.pendingPushRequests) :
        /\ c.pendingPushRequests[i].clientClock \in Nat
        /\ c.pendingPushRequests[i].diff \in DocDiffs
  <2> DEFINE reqs == c.pendingPushRequests
  <2>1. \A i \in 1..Len(reqs) : reqs[i] \in DocRequest
    BY <1>1
  <2>2. \A req \in DocRequest : req.clientClock \in Nat /\ req.diff \in DocDiffs
    BY DEF DocRequest
  <2> QED BY <2>1, <2>2
<1>3. ASSUME NEW p \in PendingPushes(c)
      PROVE  p.clientClock \in Nat /\ p.diff \in DocDiffs
  <2>1. PICK i \in 1..Len(c.pendingPushRequests) :
          p = [clientClock |-> c.pendingPushRequests[i].clientClock,
               diff |-> c.pendingPushRequests[i].diff]
    BY DEF PendingPushes
  <2>2. p.clientClock = c.pendingPushRequests[i].clientClock
        /\ p.diff = c.pendingPushRequests[i].diff
    BY <2>1
  <2> QED BY <1>2, <2>2
<1> QED BY <1>1, <1>3

\* What is new is numbered on.
NumbersOn(c, e) ==
    /\ c.clientClock <= e.clientClock
    /\ \A p \in PendingPushes(e) : p \in PendingPushes(c) \/ p.clientClock >= c.clientClock
    /\ Numbered(c) => Numbered(e)

\* Where requests stay or go.
LEMMA NumbersFewer ==
    ASSUME NEW c \in Client, NEW e \in Client, e.clientClock = c.clientClock,
           PendingPushes(e) \subseteq PendingPushes(c)
    PROVE  NumbersOn(c, e)
<1>1. c.clientClock \in Nat
  BY DEF Client
<1> QED BY <1>1 DEF NumbersOn, Numbered

\* In two steps.
LEMMA NumbersTransitive ==
    ASSUME NEW a \in Client, NEW b \in Client, NEW c \in Client,
           NumbersOn(a, b), NumbersOn(b, c)
    PROVE  NumbersOn(a, c)
<1>1. /\ a.clientClock \in Nat /\ b.clientClock \in Nat /\ c.clientClock \in Nat
      /\ \A p \in PendingPushes(c) : p.clientClock \in Nat
  BY PushesHave
<1> QED BY <1>1 DEF NumbersOn

\* A new request.
LEMMA AddNumbers ==
    ASSUME NEW c \in Client, NEW diff \in DocDiffs, NEW presence \in PresencePushes
    PROVE  LET e == AddPushRequest(c, diff, presence)
           IN  /\ e \in Client /\ NumbersOn(c, e)
               /\ \A x : WithPending(e, x) = ApplyNetworkDiff(WithPending(c, x), diff)
<1> DEFINE req == [diff |-> diff, presence |-> presence,
                   clientClock |-> c.clientClock, sent |-> FALSE]
           reqs == c.pendingPushRequests
           e == AddPushRequest(c, diff, presence)
<1>1. e \in Client
  BY AddPushRequestType
<1>2. reqs \in Seq(DocRequest) /\ c.clientClock \in Nat /\ req \in DocRequest
  BY DEF Client, DocRequest
<1>3. e.pendingPushRequests = Append(reqs, req) /\ e.clientClock = c.clientClock + 1
  BY DEF AddPushRequest, Client
<1>4. req.diff = diff /\ req.clientClock = c.clientClock
  OBVIOUS
<1> HIDE DEF e, req
<1>5. \A x : WithPending(e, x) = ApplyNetworkDiff(WithPending(c, x), diff)
  BY <1>2, <1>3, <1>4, WithPendingMore
<1> DEFINE new == [clientClock |-> c.clientClock, diff |-> diff]
<1>6. ASSUME NEW p \in PendingPushes(e) PROVE p \in PendingPushes(c) \/ p = new
  <2>1. PICK i \in 1..Len(e.pendingPushRequests) :
          p = [clientClock |-> e.pendingPushRequests[i].clientClock,
               diff |-> e.pendingPushRequests[i].diff]
    BY DEF PendingPushes
  <2>2. /\ i <= Len(reqs) => i \in 1..Len(reqs)
        /\ e.pendingPushRequests[i] = IF i <= Len(reqs) THEN reqs[i] ELSE req
    BY <1>2, <1>3
  <2> HIDE DEF reqs
  <2>3. CASE i <= Len(reqs)
    <3>1. p = [clientClock |-> reqs[i].clientClock, diff |-> reqs[i].diff]
      BY <2>1, <2>2, <2>3
    <3> QED BY <2>2, <2>3, <3>1, Zenon DEF PendingPushes, reqs
  <2>4. CASE ~(i <= Len(reqs))
    BY <1>4, <2>1, <2>2, <2>4
  <2> QED BY <2>3, <2>4
<1>7. new.clientClock = c.clientClock
  OBVIOUS
<1> HIDE DEF new, reqs
<1>8. NumbersOn(c, e)
  <2>1. /\ c.clientClock <= e.clientClock
        /\ \A p \in PendingPushes(e) : p \in PendingPushes(c) \/ p.clientClock >= c.clientClock
    BY <1>2, <1>3, <1>6, <1>7
  <2>2. Numbered(c) => Numbered(e)
    <3> SUFFICES ASSUME Numbered(c), NEW p \in PendingPushes(e)
                 PROVE  /\ p.clientClock < e.clientClock
                        /\ \A q \in PendingPushes(e) : q.clientClock = p.clientClock => q = p
      BY DEF Numbered
    <3>1. \A q \in PendingPushes(c) : q.clientClock < c.clientClock /\ q.clientClock \in Nat
      BY PushesHave DEF Numbered
    <3>2. \A r, q \in PendingPushes(c) : q.clientClock = r.clientClock => q = r
      BY DEF Numbered
    <3> QED BY <1>2, <1>3, <1>6, <1>7, <3>1, <3>2
  <2> QED BY <2>1, <2>2 DEF NumbersOn
<1> QED BY <1>1, <1>5, <1>8 DEF e

\* No request is new or gone.
LEMMA NumbersSame ==
    ASSUME NEW c \in Client, NEW e \in Client, e.clientClock = c.clientClock,
           SameDiffs(c.pendingPushRequests, e.pendingPushRequests),
           \A i \in 1..Len(c.pendingPushRequests) :
             e.pendingPushRequests[i].clientClock = c.pendingPushRequests[i].clientClock
    PROVE  NumbersOn(c, e) /\ PendingPushes(e) = PendingPushes(c)
<1> DEFINE reqs == c.pendingPushRequests
           more == e.pendingPushRequests
<1>1. Len(more) = Len(reqs)
      /\ \A i \in 1..Len(reqs) : more[i].diff = reqs[i].diff
                                 /\ more[i].clientClock = reqs[i].clientClock
  BY DEF SameDiffs
<1>2. PendingPushes(e) = PendingPushes(c)
  <2> HIDE DEF reqs, more
  <2>1. {[clientClock |-> more[i].clientClock, diff |-> more[i].diff] :
           i \in 1..Len(more)}
          = {[clientClock |-> reqs[i].clientClock, diff |-> reqs[i].diff] :
               i \in 1..Len(reqs)}
    BY <1>1
  <2> QED BY <2>1, Zenon DEF PendingPushes, reqs, more
<1> QED BY <1>2, NumbersFewer

\* Nothing is new.
LEMMA NumbersAlike ==
    ASSUME NEW c \in Client, NEW e \in Client, e.clientClock = c.clientClock,
           e.pendingPushRequests = c.pendingPushRequests
    PROVE  /\ NumbersOn(c, e) /\ PendingPushes(e) = PendingPushes(c)
           /\ \A x : WithPending(e, x) = WithPending(c, x)
<1>1. SameDiffs(c.pendingPushRequests, e.pendingPushRequests)
  BY DEF SameDiffs
<1>2. NumbersOn(c, e) /\ PendingPushes(e) = PendingPushes(c)
  BY <1>1, NumbersSame
<1>3. \A x : WithPending(e, x) = WithPending(c, x)
  BY <1>1, WithPendingSame
<1> QED BY <1>2, <1>3

\* push numbers its request.
LEMMA PushNumbers ==
    ASSUME NEW c \in Client, NEW change \in DocChanges
    PROVE  /\ NumbersOn(c, Push(c, change))
           /\ Push(c, change).history = c.history
           /\ \A base \in Docs, x \in Docs : \A y :
                Shown(c, base, x) /\ Leads(x, change, y) =>
                  Shown(Push(c, change), base, y)
<1> DEFINE diff == GetNetworkDiff(change)
           squashed == Squash(c.speculativeChanges, change)
           stashed == [c EXCEPT !.speculativeChanges = squashed]
           added == AddPushRequest(stashed, diff, NoOp)
           e == Push(c, change)
<1>1. squashed \in DocChanges /\ diff \in DocDiffs /\ NoOp \in PresencePushes
  BY SquashDocChanges, GetNetworkDiffType DEF Client, PresencePushes
<1>2. \/ e = c /\ diff = EmptyDiff
      \/ e = stashed /\ ~c.isConnectedToRoom
      \/ e = added /\ c.isConnectedToRoom
  BY DEF Push
<1>3. e \in Client
  BY PushType
<1> HIDE DEF e
<1>4. /\ stashed \in Client /\ stashed.speculativeChanges = squashed
      /\ stashed.pendingPushRequests = c.pendingPushRequests
      /\ stashed.clientClock = c.clientClock /\ stashed.history = c.history
      /\ stashed.isConnectedToRoom = c.isConnectedToRoom
  <2> HIDE DEF squashed
  <2> QED BY <1>1 DEF Client
<1> HIDE DEF stashed, squashed
<1>5. /\ NumbersOn(c, stashed)
      /\ \A x : WithPending(stashed, x) = WithPending(c, x)
  BY <1>4, NumbersAlike
<1>6. /\ added \in Client /\ NumbersOn(stashed, added)
      /\ \A x : WithPending(added, x) = ApplyNetworkDiff(WithPending(stashed, x), diff)
  <2> HIDE DEF diff
  <2> QED BY <1>1, <1>4, AddNumbers
<1>7. /\ added.speculativeChanges = squashed /\ added.history = c.history
      /\ added.isConnectedToRoom = c.isConnectedToRoom
  <2> HIDE DEF diff
  <2> QED BY <1>4 DEF AddPushRequest, Client
<1> HIDE DEF added
<1>8. NumbersOn(c, c) /\ NumbersOn(c, added)
  BY <1>4, <1>5, <1>6, NumbersAlike, NumbersTransitive
<1>9. ASSUME NEW base \in Docs, NEW x \in Docs, NEW y,
             Shown(c, base, x), Leads(x, change, y)
      PROVE  Shown(e, base, y)
  <2>1. /\ ApplyNetworkDiff(x, diff) = y
        /\ diff = EmptyDiff => y = x
    BY <1>9, PushedLeads
  <2>2. Leads(base, squashed, y)
    BY <1>9, SquashLeads DEF Shown, squashed
  <2> HIDE DEF diff
  <2>3. e = stashed /\ ~c.isConnectedToRoom => Shown(e, base, y)
    BY <1>4, <2>2 DEF Shown
  <2>4. e = added /\ c.isConnectedToRoom => Shown(e, base, y)
    BY <1>5, <1>6, <1>7, <1>9, <2>1, <2>2 DEF Shown
  <2> QED BY <1>2, <1>9, <2>1, <2>3, <2>4
<1>10. NumbersOn(c, e) /\ e.history = c.history
  BY <1>2, <1>4, <1>5, <1>7, <1>8
<1> QED BY <1>9, <1>10 DEF e

\* Flushing the history shows what it leads to.
LEMMA FlushShows ==
    ASSUME NEW c \in Client
    PROVE  LET e == FlushHistory(c)
           IN  /\ e.history = <<>> /\ NumbersOn(c, e)
               /\ \A base \in Docs, x \in Docs : \A y :
                    Shown(c, base, x) /\ Path(c.history, x, y) =>
                      Shown(e, base, y)
<1> DEFINE first == [c EXCEPT !.history = <<>>]
           history == c.history
           n == Len(history)
           U == {u \in Client : u.history = <<>> /\ NumbersOn(c, u)}
           e == FlushHistory(c)
<1>1. /\ first \in Client /\ history \in Seq(DocChanges) /\ first.history = <<>>
      /\ first.pendingPushRequests = c.pendingPushRequests
      /\ first.clientClock = c.clientClock
      /\ first.speculativeChanges = c.speculativeChanges
      /\ first.isConnectedToRoom = c.isConnectedToRoom
  <2>1. <<>> \in Seq(DocChanges)
    OBVIOUS
  <2> QED BY <2>1 DEF Client
<1>2. e = Pushing!Fold(first, history)
  BY ClientFolds DEF FlushHistory
<1> HIDE DEF first, history, e
<1>3. NumbersOn(c, first) /\ \A x : WithPending(first, x) = WithPending(c, x)
  BY <1>1, NumbersAlike
<1>4. e \in U
  <2>1. first \in U
    BY <1>1, <1>3
  <2>2. \A u \in U, d \in DocChanges : Push(u, d) \in U
    BY PushType, PushNumbers, NumbersTransitive
  <2> HIDE DEF U
  <2> QED BY <1>1, <1>2, <2>1, <2>2, Pushing!FoldKeeps
<1>5. ASSUME NEW base \in Docs, NEW x \in Docs, NEW y,
             Shown(c, base, x), Path(history, x, y)
      PROVE  Shown(e, base, y)
  <2>1. PICK steps \in [0..n -> Docs] :
          /\ steps[0] = x /\ steps[n] = y
          /\ \A i \in 1..n : Leads(steps[i - 1], history[i], steps[i])
    BY <1>5 DEF Path
  <2>2. PICK acc : /\ acc[0] = first
                   /\ \A i \in 1..n : acc[i] = Push(acc[i - 1], history[i])
                   /\ Pushing!Fold(first, history) = acc[n]
    BY <1>1, Pushing!FoldTrace
  <2>3. n \in Nat /\ \A i \in 1..n : history[i] \in DocChanges
    BY <1>1
  <2> DEFINE S == {i \in Nat : i <= n => acc[i] \in Client /\ Shown(acc[i], base, steps[i])}
  <2> HIDE DEF n
  <2>4. 0 \in S
    <3>1. Shown(first, base, x)
      BY <1>1, <1>3, <1>5 DEF Shown
    <3> QED BY <1>1, <2>1, <2>2, <3>1
  <2>5. ASSUME NEW i \in Nat, i \in S PROVE i + 1 \in S
    <3> SUFFICES ASSUME i + 1 <= n
                 PROVE  acc[i + 1] \in Client /\ Shown(acc[i + 1], base, steps[i + 1])
      OBVIOUS
    <3>1. i + 1 \in 1..n /\ (i + 1) - 1 = i /\ steps[i] \in Docs
          /\ acc[i] \in Client /\ Shown(acc[i], base, steps[i])
      BY <2>1, <2>3, <2>5
    <3>2. Leads(steps[i], history[i + 1], steps[i + 1])
      BY <2>1, <3>1
    <3>3. acc[i + 1] = Push(acc[i], history[i + 1]) /\ history[i + 1] \in DocChanges
      BY <2>2, <2>3, <3>1
    <3>4. Push(acc[i], history[i + 1]) \in Client
      BY <3>1, <3>3, PushType
    <3>5. Shown(Push(acc[i], history[i + 1]), base, steps[i + 1])
      BY <3>1, <3>2, <3>3, PushNumbers
    <3> QED BY <3>3, <3>4, <3>5
  <2> HIDE DEF S
  <2>6. Nat \subseteq S
    BY <2>4, <2>5, Pushing!SetInduction
  <2>7. Shown(acc[n], base, steps[n])
    BY <2>3, <2>6 DEF S
  <2> QED BY <1>2, <2>1, <2>2, <2>7
<1> QED BY <1>4, <1>5 DEF e, history

-----------------------------------------------------------------------------
(***************************************************************************)
(* What a client does by itself keeps it ahead of the same version.        *)
(***************************************************************************)
\* The messages that a client may have sent in so many connect requests: a push
\* is an earlier request, or one that is pending still.
Sendable(c, n) ==
    {msg \in ClientMessage :
        /\ msg.type = "connect" => msg.connectRequestId \in 1..n
        /\ msg.type = "push" =>
             /\ msg.clientClock < c.clientClock
             /\ \A p \in PendingPushes(c) :
                  p.clientClock = msg.clientClock => p.diff = msg.diff}

Continues(c, e) ==
    /\ e.status = c.status /\ e.isConnectedToRoom = c.isConnectedToRoom
    /\ e.incomingDiffBuffer = c.incomingDiffBuffer
    /\ e.lastServerClock = c.lastServerClock
    /\ e.latestConnectRequestId = c.latestConnectRequestId
    /\ e.requests = c.requests /\ e.loaded = c.loaded /\ e.astray = c.astray
    /\ ~c.isConnectedToRoom =>
         e.pendingPushRequests = c.pendingPushRequests /\ e.out = c.out
    /\ NumbersOn(c, e)
    /\ \A n \in Nat : Numbered(c) /\ c.out \in Seq(Sendable(c, n)) =>
                        e.out \in Seq(Sendable(e, n))
    /\ \A base \in Docs : Ahead(c, base) => Ahead(e, base)

\* A sequence of a larger set.
LEMMA SeqMore ==
    ASSUME NEW S, NEW T, S \subseteq T, NEW seq \in Seq(S)
    PROVE  seq \in Seq(T)
<1>1. seq \in [1..Len(seq) -> S] /\ Len(seq) \in Nat
  OBVIOUS
<1>2. seq \in [1..Len(seq) -> T]
  BY <1>1
<1> QED BY <1>1, <1>2, SeqDef

\* What was sent stays sent.
LEMMA StillSendable ==
    ASSUME NEW c \in Client, NEW e \in Client, NumbersOn(c, e),
           NEW n \in Nat, NEW m \in Nat, n <= m
    PROVE  /\ Sendable(c, n) \subseteq Sendable(e, m)
           /\ \A seq \in Seq(Sendable(c, n)) : seq \in Seq(Sendable(e, m))
<1>1. c.clientClock \in Nat /\ e.clientClock \in Nat
  BY PushesHave
<1>2. ASSUME NEW msg \in Sendable(c, n) PROVE msg \in Sendable(e, m)
  <2>1. msg \in ClientMessage
        /\ (msg.type = "connect" => msg.connectRequestId \in 1..n)
        /\ (msg.type = "push" =>
              /\ msg.clientClock < c.clientClock
              /\ \A p \in PendingPushes(c) :
                   p.clientClock = msg.clientClock => p.diff = msg.diff)
    BY DEF Sendable
  <2>2. msg.type = "connect" => msg.connectRequestId \in 1..m
    BY <2>1
  <2>3. ASSUME msg.type = "push"
        PROVE  /\ msg.clientClock < e.clientClock
               /\ \A p \in PendingPushes(e) :
                    p.clientClock = msg.clientClock => p.diff = msg.diff
    <3>1. msg.clientClock \in Nat
      BY <2>1, <2>3 DEF ClientMessage
    <3>2. \A p \in PendingPushes(e) : p.clientClock \in Nat
      BY PushesHave
    <3> QED BY <1>1, <2>1, <2>3, <3>1, <3>2 DEF NumbersOn
  <2> QED BY <2>1, <2>2, <2>3 DEF Sendable
<1>3. Sendable(c, n) \subseteq Sendable(e, m)
  BY <1>2
<1> QED BY <1>3, SeqMore

\* What does not touch the requests, the records or the connection.
LEMMA ContinuesAlike ==
    ASSUME NEW c \in Client, NEW e \in Client,
           e.status = c.status, e.isConnectedToRoom = c.isConnectedToRoom,
           e.incomingDiffBuffer = c.incomingDiffBuffer,
           e.lastServerClock = c.lastServerClock,
           e.latestConnectRequestId = c.latestConnectRequestId,
           e.requests = c.requests, e.loaded = c.loaded, e.astray = c.astray,
           e.out = c.out, e.clientClock = c.clientClock,
           e.pendingPushRequests = c.pendingPushRequests,
           \A base \in Docs, x \in Docs :
             Leads(base, c.speculativeChanges, x) /\ Path(c.history, x, DocsOf(c.store)) =>
               Leads(base, e.speculativeChanges, x) /\ Path(e.history, x, DocsOf(e.store))
    PROVE  Continues(c, e)
<1>1. NumbersOn(c, e) /\ \A x : WithPending(e, x) = WithPending(c, x)
  BY NumbersAlike
<1>2. \A n \in Nat : c.out \in Seq(Sendable(c, n)) => e.out \in Seq(Sendable(e, n))
  BY <1>1, StillSendable
<1>3. ASSUME NEW base \in Docs, Ahead(c, base) PROVE Ahead(e, base)
  <2>1. PICK x \in Docs : Shown(c, base, x) /\ Path(c.history, x, DocsOf(c.store))
    BY <1>3 DEF Ahead
  <2>2. Shown(e, base, x) /\ Path(e.history, x, DocsOf(e.store))
    BY <1>1, <2>1 DEF Shown
  <2> QED BY <2>2 DEF Ahead
<1> QED BY <1>1, <1>2, <1>3 DEF Continues

\* One thing after the other.
LEMMA ContinuesTransitive ==
    ASSUME NEW a \in Client, NEW b \in Client, NEW c \in Client,
           Continues(a, b), Continues(b, c)
    PROVE  Continues(a, c)
<1>1. NumbersOn(a, c) /\ (Numbered(a) => Numbered(b))
  BY NumbersTransitive DEF Continues, NumbersOn
<1> QED BY <1>1 DEF Continues

\* The user changes document records.
LEMMA UserContinues ==
    ASSUME NEW c \in Client, NEW id \in Ids, NEW record \in MaybeRecord
    PROVE  Continues(c, UserChange(c, [c.store EXCEPT ![id] = record]))
<1> DEFINE next == [c.store EXCEPT ![id] = record]
           entry == Between(c.store, next)
           e == UserChange(c, next)
           history == WithEntry(c.history, entry)
<1>1. c.store \in Stores /\ c.history \in Seq(DocChanges)
  BY DEF Client
<1>2. next \in Stores /\ \A p \in RecordIds \ Ids : next[p] = c.store[p]
  BY <1>1, IdsAssumption DEF Stores, RecordIds
<1>3. entry \in DocChanges /\ Leads(DocsOf(c.store), entry, DocsOf(next))
  <2> HIDE DEF next
  <2> QED BY <1>1, <1>2, DocumentsBetween, BetweenDocs
<1>4. e \in Client
  BY UserChangeType
<1>5. e = [c EXCEPT !.store = next, !.history = history]
  BY DEF UserChange
<1> HIDE DEF next, entry, history, e
<1>6. /\ e.store = next /\ e.history = history
      /\ e.status = c.status /\ e.isConnectedToRoom = c.isConnectedToRoom
      /\ e.incomingDiffBuffer = c.incomingDiffBuffer
      /\ e.lastServerClock = c.lastServerClock
      /\ e.latestConnectRequestId = c.latestConnectRequestId
      /\ e.requests = c.requests /\ e.loaded = c.loaded /\ e.astray = c.astray
      /\ e.out = c.out /\ e.clientClock = c.clientClock
      /\ e.pendingPushRequests = c.pendingPushRequests
      /\ e.speculativeChanges = c.speculativeChanges
  BY <1>5 DEF Client
<1>7. \A x \in Docs : Path(c.history, x, DocsOf(c.store)) =>
        Path(e.history, x, DocsOf(e.store))
  BY <1>1, <1>3, <1>6, PathWithEntry DEF history
<1>8. Continues(c, e)
  BY <1>4, <1>6, <1>7, ContinuesAlike
<1> QED BY <1>8 DEF e, next

\* The listener hears of the history.
LEMMA FlushContinues ==
    ASSUME NEW c \in Client
    PROVE  Continues(c, FlushHistory(c))
<1> DEFINE e == FlushHistory(c)
<1>1. e \in Client /\ Pushed(c, e)
  BY FlushHistoryPushed
<1>2. e.history = <<>> /\ NumbersOn(c, e)
  BY FlushShows
<1>3. ASSUME NEW base \in Docs, Ahead(c, base) PROVE Ahead(e, base)
  <2>1. PICK x \in Docs : Shown(c, base, x) /\ Path(c.history, x, DocsOf(c.store))
    BY <1>3 DEF Ahead
  <2>2. Shown(e, base, DocsOf(c.store))
    BY <2>1, FlushShows
  <2> HIDE DEF e
  <2>3. e.store = c.store /\ DocsOf(c.store) \in Docs
    BY <1>1, DocsAre DEF Pushed, Client
  <2> QED BY <1>2, <2>2, <2>3, PathEmpty DEF Ahead
<1> HIDE DEF e
<1>4. /\ e.status = c.status /\ e.isConnectedToRoom = c.isConnectedToRoom
      /\ e.incomingDiffBuffer = c.incomingDiffBuffer
      /\ e.lastServerClock = c.lastServerClock
      /\ e.latestConnectRequestId = c.latestConnectRequestId
      /\ e.requests = c.requests /\ e.loaded = c.loaded /\ e.astray = c.astray
      /\ e.out = c.out
      /\ ~c.isConnectedToRoom => e.pendingPushRequests = c.pendingPushRequests
  BY <1>1 DEF Pushed, Client
<1>5. \A n \in Nat : c.out \in Seq(Sendable(c, n)) => e.out \in Seq(Sendable(e, n))
  BY <1>1, <1>2, <1>4, StillSendable
<1> QED BY <1>2, <1>3, <1>4, <1>5 DEF Continues, e

\* The presence that a client pushes says nothing of documents.
LEMMA PresenceContinues ==
    ASSUME NEW c \in Client, NEW next \in MaybeRecord
    PROVE  Continues(c, PushPresenceOp(c, next))
<1> DEFINE pushed == [c EXCEPT !.lastPushedPresenceState = next]
           reqs == c.pendingPushRequests
           n == Len(reqs)
           e == PushPresenceOp(c, next)
<1>1. e \in Client /\ OnlyPushes(c, e)
  BY PushPresenceOpType, PresenceOnlyPushes
<1>2. \/ e = c
      \/ \E op \in PresencePushes :
           \/ e = [pushed EXCEPT !.pendingPushRequests[n].presence = op]
           \/ e = AddPushRequest(pushed, EmptyDiff, op)
  BY PushPresenceOpType
<1> HIDE DEF e
<1>3. /\ pushed \in Client /\ pushed.pendingPushRequests = reqs
      /\ pushed.clientClock = c.clientClock /\ reqs \in Seq(DocRequest)
  BY DEF Client
<1>4. /\ e.status = c.status /\ e.isConnectedToRoom = c.isConnectedToRoom
      /\ e.incomingDiffBuffer = c.incomingDiffBuffer
      /\ e.lastServerClock = c.lastServerClock
      /\ e.latestConnectRequestId = c.latestConnectRequestId
      /\ e.requests = c.requests /\ e.loaded = c.loaded /\ e.astray = c.astray
      /\ e.out = c.out /\ e.speculativeChanges = c.speculativeChanges
      /\ e.history = c.history /\ e.store = c.store
  BY <1>2 DEF AddPushRequest, Client
<1>5. /\ NumbersOn(c, e)
      /\ \A base, x \in Docs : x = WithPending(c, base) => x = WithPending(e, base)
  <2>1. CASE e = c
    BY <1>1, <2>1, NumbersAlike
  <2>2. ASSUME NEW op \in PresencePushes,
               e = [pushed EXCEPT !.pendingPushRequests[n].presence = op]
        PROVE  /\ NumbersOn(c, e)
               /\ \A base, x \in Docs : x = WithPending(c, base) => x = WithPending(e, base)
    <3>1. Len(e.pendingPushRequests) = Len(reqs) /\ e.clientClock = c.clientClock
      BY <1>3, <2>2 DEF Client
    <3>2. /\ SameDiffs(reqs, e.pendingPushRequests)
          /\ \A i \in 1..Len(reqs) :
               e.pendingPushRequests[i].clientClock = reqs[i].clientClock
      BY <1>1, <3>1 DEF OnlyPushes, MoreUnsent, SameDiffs
    <3> QED BY <1>1, <3>1, <3>2, NumbersSame, WithPendingSame
  <2>3. ASSUME NEW op \in PresencePushes, e = AddPushRequest(pushed, EmptyDiff, op)
        PROVE  /\ NumbersOn(c, e)
               /\ \A base, x \in Docs : x = WithPending(c, base) => x = WithPending(e, base)
    <3>1. EmptyDiff \in DocDiffs
      BY InputsAreOpen
    <3> HIDE DEF pushed
    <3>2. /\ NumbersOn(pushed, e)
          /\ \A x : WithPending(e, x) = ApplyNetworkDiff(WithPending(pushed, x), EmptyDiff)
      BY <1>3, <2>3, <3>1, AddNumbers
    <3>3. NumbersOn(c, pushed) /\ \A x : WithPending(pushed, x) = WithPending(c, x)
      BY <1>3, NumbersAlike
    <3>4. NumbersOn(c, e)
      BY <1>1, <1>3, <3>2, <3>3, NumbersTransitive
    <3> QED BY <3>2, <3>3, <3>4, EmptyDiffApplies
  <2> QED BY <1>2, <2>1, <2>2, <2>3
<1>6. ASSUME NEW base \in Docs, Ahead(c, base) PROVE Ahead(e, base)
  <2>1. PICK x \in Docs : Shown(c, base, x) /\ Path(c.history, x, DocsOf(c.store))
    BY <1>6 DEF Ahead
  <2>2. Shown(e, base, x) /\ Path(e.history, x, DocsOf(e.store))
    BY <1>4, <1>5, <2>1 DEF Shown
  <2> QED BY <2>2 DEF Ahead
<1>7. \A m \in Nat : c.out \in Seq(Sendable(c, m)) => e.out \in Seq(Sendable(e, m))
  BY <1>1, <1>4, <1>5, StillSendable
<1>8. ~c.isConnectedToRoom => e.pendingPushRequests = c.pendingPushRequests
  BY <1>1 DEF OnlyPushes
<1> QED BY <1>4, <1>5, <1>6, <1>7, <1>8 DEF Continues, e

\* The presence changes.
LEMMA PushPresenceContinues ==
    ASSUME NEW c \in Client, NEW next \in MaybeRecord
    PROVE  Continues(c, PushPresence(c, next))
<1> DEFINE moved == [c EXCEPT !.presence = next]
           flushed == FlushHistory(moved)
<1>1. moved \in Client
  BY DEF Client
<1>2. Continues(c, moved)
  <2>1. /\ moved.status = c.status /\ moved.isConnectedToRoom = c.isConnectedToRoom
        /\ moved.incomingDiffBuffer = c.incomingDiffBuffer
        /\ moved.lastServerClock = c.lastServerClock
        /\ moved.latestConnectRequestId = c.latestConnectRequestId
        /\ moved.requests = c.requests /\ moved.loaded = c.loaded
        /\ moved.astray = c.astray /\ moved.out = c.out
        /\ moved.clientClock = c.clientClock /\ moved.store = c.store
        /\ moved.pendingPushRequests = c.pendingPushRequests
        /\ moved.speculativeChanges = c.speculativeChanges
        /\ moved.history = c.history
    BY DEF Client
  <2> HIDE DEF moved
  <2> QED BY <1>1, <2>1, ContinuesAlike
<1> HIDE DEF moved
<1>3. flushed \in Client /\ Continues(moved, flushed)
  BY <1>1, FlushHistoryType, FlushContinues
<1> HIDE DEF flushed
<1>4. /\ PushPresenceOp(flushed, next) \in Client
      /\ Continues(flushed, PushPresenceOp(flushed, next))
  BY <1>3, PushPresenceOpType, PresenceContinues
<1>5. Continues(c, PushPresenceOp(flushed, next))
  BY <1>1, <1>2, <1>3, <1>4, ContinuesTransitive
<1> QED BY <1>5 DEF PushPresence, flushed, moved

\* What waits to be sent is pending.
LEMMA PendingSendable ==
    ASSUME NEW c \in Client, Numbered(c), NEW n \in Nat
    PROVE  \A i \in 1..Len(c.pendingPushRequests) :
             PushMessage(c.pendingPushRequests[i]) \in Sendable(c, n)
<1> DEFINE reqs == c.pendingPushRequests
<1>1. TAKE i \in 1..Len(reqs)
<1> DEFINE req == reqs[i]
           msg == PushMessage(req)
           p == [clientClock |-> req.clientClock, diff |-> req.diff]
<1>2. req \in DocRequest
  <2>1. reqs \in Seq(DocRequest)
    BY DEF Client
  <2> HIDE DEF reqs
  <2> QED BY <2>1
<1>3. p \in PendingPushes(c)
  BY Zenon DEF PendingPushes
<1> HIDE DEF req
<1>4. /\ msg \in ClientMessage /\ msg.type = "push"
      /\ msg.clientClock = req.clientClock /\ msg.diff = req.diff
  BY <1>2 DEF PushMessage, ClientMessage, DocRequest
<1>5. p.clientClock = req.clientClock /\ p.diff = req.diff
  OBVIOUS
<1> HIDE DEF msg, p
<1>6. /\ p.clientClock < c.clientClock
      /\ \A q \in PendingPushes(c) : q.clientClock = p.clientClock => q = p
  BY <1>3, Zenon DEF Numbered
<1>7. msg \in Sendable(c, n)
  BY <1>4, <1>5, <1>6 DEF Sendable
<1> QED BY <1>7 DEF msg, req

\* The requests go to the socket.
LEMMA SendContinues ==
    ASSUME NEW c \in Client
    PROVE  Continues(c, FlushPendingPushRequests(c))
<1> DEFINE reqs == c.pendingPushRequests
           out == FoldLeft(SendPush, c.out, reqs)
           marked == Flagged(reqs)
           e == FlushPendingPushRequests(c)
<1>1. e \in Client
  BY FlushPendingType
<1>2. \/ e = c
      \/ c.isConnectedToRoom /\ e = [c EXCEPT !.out = out, !.pendingPushRequests = marked]
  BY DEF FlushPendingPushRequests, Flagged
<1> HIDE DEF e
<1>3. reqs \in Seq(DocRequest) /\ c.out \in Seq(ClientMessage)
  BY DEF Client
<1>4. ASSUME e = c PROVE Continues(c, e)
  <2>1. NumbersOn(c, c)
    BY NumbersAlike
  <2>2. Continues(c, c)
    BY <2>1 DEF Continues
  <2> HIDE DEF out, marked, reqs
  <2> QED BY <1>4, <2>2, Zenon
<1>5. ASSUME c.isConnectedToRoom,
             e = [c EXCEPT !.out = out, !.pendingPushRequests = marked]
      PROVE  Continues(c, e)
  <2>1. /\ e.status = c.status /\ e.isConnectedToRoom = c.isConnectedToRoom
        /\ e.incomingDiffBuffer = c.incomingDiffBuffer
        /\ e.lastServerClock = c.lastServerClock
        /\ e.latestConnectRequestId = c.latestConnectRequestId
        /\ e.requests = c.requests /\ e.loaded = c.loaded /\ e.astray = c.astray
        /\ e.out = out /\ e.pendingPushRequests = marked
        /\ e.speculativeChanges = c.speculativeChanges
        /\ e.history = c.history /\ e.store = c.store
        /\ e.clientClock = c.clientClock
    <3> HIDE DEF out, marked
    <3> QED BY <1>5 DEF Client
  <2>2. /\ SameDiffs(reqs, marked)
        /\ \A i \in 1..Len(reqs) : marked[i].clientClock = reqs[i].clientClock
    <3> HIDE DEF reqs
    <3>3. DOMAIN reqs = 1..Len(reqs) /\ Len(reqs) \in Nat
          /\ \A i \in 1..Len(reqs) : reqs[i] \in DocRequest
      BY <1>3
    <3>4. marked = [i \in 1..Len(reqs) |-> [reqs[i] EXCEPT !.sent = TRUE]]
      BY <3>3 DEF Flagged
    <3>5. \A i \in 1..Len(reqs) : [reqs[i] EXCEPT !.sent = TRUE] \in DocRequest
      BY <3>3 DEF DocRequest
    <3>6. marked \in Seq(DocRequest) /\ Len(marked) = Len(reqs)
      BY <3>3, <3>4, <3>5
    <3>1. Len(marked) = Len(reqs)
          /\ \A i \in 1..Len(reqs) :
               marked[i] = [reqs[i] EXCEPT !.sent = TRUE] /\ reqs[i] \in DocRequest
      BY <3>3, <3>4, <3>6
    <3> HIDE DEF marked
    <3>2. \A i \in 1..Len(reqs) : /\ marked[i].diff = reqs[i].diff
                                  /\ marked[i].clientClock = reqs[i].clientClock
      BY <3>1 DEF DocRequest
    <3> QED BY <3>1, <3>2 DEF SameDiffs
  <2> HIDE DEF marked
  <2>3. /\ NumbersOn(c, e) /\ PendingPushes(e) = PendingPushes(c)
        /\ \A x : WithPending(e, x) = WithPending(c, x)
    BY <1>1, <2>1, <2>2, NumbersSame, WithPendingSame
  <2>4. ASSUME NEW base \in Docs, Ahead(c, base) PROVE Ahead(e, base)
    <3>1. PICK x \in Docs : Shown(c, base, x) /\ Path(c.history, x, DocsOf(c.store))
      BY <2>4 DEF Ahead
    <3>2. Shown(e, base, x) /\ Path(e.history, x, DocsOf(e.store))
      BY <2>1, <2>3, <3>1 DEF Shown
    <3> QED BY <3>2 DEF Ahead
  <2>5. ASSUME NEW n \in Nat, Numbered(c), c.out \in Seq(Sendable(c, n))
        PROVE  e.out \in Seq(Sendable(e, n))
    <3> DEFINE M == Sendable(c, n)
               R == {req \in DocRequest : PushMessage(req) \in M}
    <3>1. \A i \in 1..Len(reqs) : reqs[i] \in R
      BY <1>3, <2>5, PendingSendable
    <3>2. reqs \in Seq(R)
      <4> HIDE DEF R
      <4> QED BY <1>3, <3>1
    <3>3. \A o \in Seq(M), req \in R : SendPush(o, req) \in Seq(M)
      <4> HIDE DEF M
      <4> QED BY DEF SendPush
    <3> HIDE DEF R, M
    <3>4. Sending!Fold(c.out, reqs) \in Seq(M)
      BY <2>5, <3>2, <3>3, Sending!FoldKeeps DEF M
    <3>5. out \in Seq(M)
      BY <3>4, ClientFolds
    <3>6. n <= n
      OBVIOUS
    <3>7. M \subseteq Sendable(e, n)
      BY <1>1, <2>3, <3>6, StillSendable DEF M
    <3>8. out \in Seq(Sendable(e, n))
      BY <3>5, <3>7, SeqMore
    <3> QED BY <2>1, <3>8
  <2>6. c.isConnectedToRoom
    BY <1>5
  <2> HIDE DEF out, reqs
  <2> QED BY <2>1, <2>3, <2>4, <2>5, <2>6 DEF Continues
<1> QED BY <1>2, <1>4, <1>5 DEF e

-----------------------------------------------------------------------------
(***************************************************************************)
(* A client that loses its connection, or resets it, keeps its records.    *)
(***************************************************************************)
LetsGo(c, e) ==
    /\ e.status # SocketOnline /\ ~e.isConnectedToRoom
    /\ e.pendingPushRequests = <<>> /\ e.incomingDiffBuffer = <<>>
    /\ e.lastServerClock = c.lastServerClock
    /\ e.requests = c.requests /\ e.loaded = c.loaded /\ e.astray = c.astray
    /\ e.out = c.out /\ e.clientClock = c.clientClock
    /\ e.latestConnectRequestId = c.latestConnectRequestId
    /\ NumbersOn(c, e)
    /\ \A base \in Docs : Ahead(c, base) => Ahead(e, base)

\* A remote change that leaves the documents as they are.
LEMMA RemoteAhead ==
    ASSUME NEW history \in Seq(DocChanges), NEW x, NEW y, Path(history, x, y)
    PROVE  Path(Append(history, NoChanges), x, y)
<1>1. NoChanges \in DocChanges
  BY NoChangesInDiffs DEF DocChanges
<1>2. Leads(y, NoChanges, y)
  BY PathType, NoChangesLead
<1> QED BY <1>1, <1>2, PathAppend

\* resetConnection.
LEMMA ResetLetsGo ==
    ASSUME NEW c \in Client
    PROVE  LetsGo(c, ResetConnection(c, FALSE))
<1> DEFINE next == [id \in RecordIds |-> IF id \in PresenceIds THEN Absent
                                         ELSE c.store[id]]
           e == ResetConnection(c, FALSE)
           history == IF c.store = next \/ c.history = <<>> THEN c.history
                      ELSE Append(c.history, NoChanges)
           there == RemoteChange(c, next)
           status == IF there.status = SocketOnline THEN SocketOffline
                     ELSE there.status
<1>1. e \in Client
  BY ResetConnectionType
<1>2. /\ e.status # SocketOnline /\ ~e.isConnectedToRoom
      /\ e.pendingPushRequests = <<>> /\ e.incomingDiffBuffer = <<>>
      /\ e.out = c.out
  BY ResetIs
<1>3. c.history \in Seq(DocChanges)
  BY DEF Client
<1>4. /\ there.lastServerClock = c.lastServerClock /\ there.history = history
      /\ there.requests = c.requests /\ there.loaded = c.loaded
      /\ there.astray = c.astray /\ there.clientClock = c.clientClock
      /\ there.store = next /\ there.speculativeChanges = c.speculativeChanges
      /\ there.latestConnectRequestId = c.latestConnectRequestId
      /\ there \in Client
  <2>1. next \in Stores
    BY DEF Client, Stores, MaybeRecord
  <2>2. there \in Client
    BY <2>1, RemoteChangeType
  <2>3. there = [c EXCEPT !.store = next, !.history = history]
    BY DEF RemoteChange
  <2> HIDE DEF next, history, there
  <2> QED BY <2>2, <2>3 DEF Client
<1>5. e = [there EXCEPT !.lastServerClock = there.lastServerClock,
                        !.lastPushedPresenceState = Absent,
                        !.isConnectedToRoom = FALSE,
                        !.pendingPushRequests = <<>>,
                        !.incomingDiffBuffer = <<>>,
                        !.status = status]
  BY DEF ResetConnection
<1>6. DocsOf(next) = DocsOf(c.store)
  BY IdsAssumption DEF DocsOf, RecordIds
<1> HIDE DEF there, next, e, status
<1>7. /\ e.lastServerClock = c.lastServerClock /\ e.history = history
      /\ e.requests = c.requests /\ e.loaded = c.loaded
      /\ e.astray = c.astray /\ e.clientClock = c.clientClock
      /\ e.store = next /\ e.speculativeChanges = c.speculativeChanges
      /\ e.latestConnectRequestId = c.latestConnectRequestId
  <2> HIDE DEF history
  <2> QED BY <1>4, <1>5 DEF Client
<1>8. PendingPushes(e) = {}
  BY <1>2 DEF PendingPushes
<1>9. NumbersOn(c, e)
  BY <1>1, <1>7, <1>8, NumbersFewer
<1>10. ASSUME NEW base \in Docs, Ahead(c, base) PROVE Ahead(e, base)
  <2>1. PICK x \in Docs : Shown(c, base, x) /\ Path(c.history, x, DocsOf(c.store))
    BY <1>10 DEF Ahead
  <2>2. Path(e.history, x, DocsOf(e.store))
    BY <1>3, <1>6, <1>7, <2>1, RemoteAhead
  <2>3. Shown(e, base, x)
    BY <1>2, <1>7, <2>1 DEF Shown
  <2> QED BY <2>2, <2>3 DEF Ahead
<1> QED BY <1>2, <1>7, <1>9, <1>10 DEF LetsGo, e

\* A socket that closes.
LEMMA LostLetsGo ==
    ASSUME NEW c \in Client, NEW fatal \in BOOLEAN
    PROVE  LetsGo(c, ConnectionLost(c, fatal))
<1> DEFINE lost == [c EXCEPT !.status = SocketOffline]
           reset == ResetConnection(lost, FALSE)
           closed == [reset EXCEPT !.status = SocketClosed]
<1>1. /\ lost \in Client /\ lost.lastServerClock = c.lastServerClock
      /\ lost.isConnectedToRoom = c.isConnectedToRoom
      /\ lost.requests = c.requests /\ lost.loaded = c.loaded
      /\ lost.astray = c.astray /\ lost.clientClock = c.clientClock
      /\ lost.out = c.out /\ lost.pendingPushRequests = c.pendingPushRequests
      /\ lost.speculativeChanges = c.speculativeChanges
      /\ lost.history = c.history /\ lost.store = c.store
      /\ lost.latestConnectRequestId = c.latestConnectRequestId
  BY DEF Client
<1> HIDE DEF lost
<1>2. /\ NumbersOn(c, lost) /\ \A x : WithPending(lost, x) = WithPending(c, x)
  BY <1>1, NumbersAlike
<1>3. \A base \in Docs : Ahead(c, base) => Ahead(lost, base)
  BY <1>1, <1>2 DEF Ahead, Shown
<1>4. reset \in Client /\ LetsGo(lost, reset)
  BY <1>1, ResetConnectionType, ResetLetsGo
<1> HIDE DEF reset
<1>5. LetsGo(c, reset)
  BY <1>1, <1>2, <1>3, <1>4, NumbersTransitive DEF LetsGo
<1>6. LetsGo(c, closed)
  <2>1. /\ closed \in Client /\ closed.status = SocketClosed
        /\ closed.lastServerClock = reset.lastServerClock
        /\ closed.isConnectedToRoom = reset.isConnectedToRoom
        /\ closed.requests = reset.requests /\ closed.loaded = reset.loaded
        /\ closed.astray = reset.astray /\ closed.clientClock = reset.clientClock
        /\ closed.out = reset.out
        /\ closed.pendingPushRequests = reset.pendingPushRequests
        /\ closed.incomingDiffBuffer = reset.incomingDiffBuffer
        /\ closed.speculativeChanges = reset.speculativeChanges
        /\ closed.history = reset.history /\ closed.store = reset.store
        /\ closed.latestConnectRequestId = reset.latestConnectRequestId
    BY <1>4 DEF Client
  <2> HIDE DEF closed
  <2>2. /\ NumbersOn(reset, closed)
        /\ \A x : WithPending(closed, x) = WithPending(reset, x)
    BY <1>4, <2>1, NumbersAlike
  <2>3. NumbersOn(c, closed)
    BY <1>4, <1>5, <2>1, <2>2, NumbersTransitive DEF LetsGo
  <2>4. \A base \in Docs : Ahead(reset, base) => Ahead(closed, base)
    BY <2>1, <2>2 DEF Ahead, Shown
  <2>5. SocketClosed # SocketOnline
    BY DEF SocketClosed, SocketOnline
  <2> QED BY <1>5, <2>1, <2>3, <2>4, <2>5 DEF LetsGo
<1>7. ConnectionLost(c, fatal) = IF fatal THEN closed ELSE reset
  BY DEF ConnectionLost, reset, lost
<1> QED BY <1>5, <1>6, <1>7

-----------------------------------------------------------------------------
(***************************************************************************)
(* A client that is accepted by the room.                                  *)
(***************************************************************************)
\* Entries that change nothing lead nowhere.
LEMMA PathIdle ==
    ASSUME NEW history \in Seq(DocChanges), NEW x \in Docs,
           \A i \in 1..Len(history) : history[i] = NoChanges
    PROVE  Path(history, x, x)
<1> DEFINE n == Len(history)
           steps == [i \in 0..n |-> x]
<1>1. n \in Nat
  OBVIOUS
<1> HIDE DEF n
<1>2. steps \in [0..n -> Docs] /\ steps[0] = x /\ steps[n] = x
  BY <1>1
<1>3. ASSUME NEW i \in 1..n PROVE Leads(steps[i - 1], history[i], steps[i])
  <2>1. steps[i - 1] = x /\ steps[i] = x
    BY <1>1
  <2>2. history[i] = NoChanges
    BY DEF n
  <2> HIDE DEF steps
  <2> QED BY <2>1, <2>2, NoChangesLead
<1> HIDE DEF steps
<1> QED BY <1>2, <1>3 DEF Path, n

NoDocs == [id \in Ids |-> Absent]

\* What the room's answer makes of the documents, once the speculative changes
\* are undone.
LEMMA HydratedDocs ==
    ASSUME NEW c \in Client, NEW event \in ConnectEvent, NEW base \in Docs,
           event.hydrationType # "wipe_all" =>
             Ahead(c, base) /\ ~HasUnflushedChanges(c)
    PROVE  DocsOf(Hydrated(c, event))
             = ApplyNetworkDiff(IF event.hydrationType = "wipe_all" THEN NoDocs
                                ELSE base, event.diff)
<1> DEFINE wiped == PresenceIds \cup
                      IF event.hydrationType = "wipe_all" THEN Ids ELSE {}
           undone == UndoneBeforeHydration(c, event)
           kept == [id \in RecordIds |-> IF id \in wiped THEN Absent ELSE undone[id]]
<1>1. c.store \in Stores /\ c.speculativeChanges \in DocChanges
      /\ c.history \in Seq(DocChanges)
  BY DEF Client
<1>2. ApplyChanges(c.store, ReverseRecordsDiff(c.speculativeChanges)) \in Stores
  BY <1>1, ReverseDocChanges, ApplyDocChanges
<1>3. undone \in Stores
  BY <1>1, <1>2 DEF UndoneBeforeHydration
<1>4. kept \in Stores
  BY <1>3 DEF Stores, MaybeRecord
<1>5. Hydrated(c, event) = ApplyNetworkDiff(kept, event.diff)
  BY DEF Hydrated
<1>6. ASSUME event.hydrationType = "wipe_all" PROVE DocsOf(kept) = NoDocs
  BY <1>6 DEF DocsOf, NoDocs, RecordIds
<1>7. ASSUME event.hydrationType # "wipe_all" PROVE DocsOf(kept) = base
  <2>1. PICK x \in Docs : /\ Leads(base, c.speculativeChanges, x)
                          /\ Path(c.history, x, DocsOf(c.store))
    BY <1>7 DEF Ahead, Shown
  <2>2. \A i \in 1..Len(c.history) : c.history[i] = NoChanges
    BY <1>1, <1>7 DEF HasUnflushedChanges
  <2>3. x = DocsOf(c.store)
    BY <1>1, <2>1, <2>2, PathDone
  <2>4. undone = ApplyChanges(c.store, ReverseRecordsDiff(c.speculativeChanges))
    BY <1>7 DEF UndoneBeforeHydration
  <2>5. DocsOf(undone) = base
    BY <1>1, <2>1, <2>3, <2>4, DocsChange
  <2>6. DocsOf(kept) = DocsOf(undone)
    BY <1>7, IdsAssumption DEF DocsOf, RecordIds
  <2> QED BY <2>5, <2>6
<1> HIDE DEF kept
<1> QED BY <1>4, <1>5, <1>6, <1>7, DocsDiff

\* didReconnect takes the room's records of its answer for confirmed.
LEMMA ReconnectShows ==
    ASSUME NEW c \in Client, NEW event \in ConnectEvent, NEW base \in Docs,
           ~c.isConnectedToRoom, c.pendingPushRequests = <<>>,
           event.connectRequestId = c.latestConnectRequestId,
           ~HasUnflushedChanges(c), DocsOf(Hydrated(c, event)) = base
    PROVE  LET e == DidReconnect(c, event)
           IN  /\ Ahead(e, base) /\ NumbersOn(c, e)
               /\ e.isConnectedToRoom /\ e.status = c.status /\ e.out = c.out
               /\ e.incomingDiffBuffer = c.incomingDiffBuffer
               /\ e.latestConnectRequestId = 0 /\ e.loaded
               /\ e.lastServerClock = event.serverClock
               /\ e.requests = c.requests
<1> DEFINE hydrated == Hydrated(c, event)
           reapplied == ApplyChanges(hydrated, c.speculativeChanges)
           history == IF c.store = reapplied \/ c.history = <<>> THEN c.history
                      ELSE Append(c.history, NoChanges)
           there == RemoteChange(c, reapplied)
           rebased == [there EXCEPT !.speculativeChanges = NoChanges,
                                    !.isConnectedToRoom = TRUE]
           difference == Between(hydrated, reapplied)
           pushed == Push(rebased, difference)
           astray == pushed.astray \/ HasUnflushedChanges(c)
           done == [pushed EXCEPT !.latestConnectRequestId = NoRequest,
                                  !.lastServerClock = event.serverClock,
                                  !.loaded = TRUE,
                                  !.astray = astray]
<1>1. hydrated \in Stores
  BY HydratedType
<1>2. c.speculativeChanges \in DocChanges /\ c.history \in Seq(DocChanges)
      /\ NoChanges \in DocChanges
  BY NoChangesInDiffs DEF Client, DocChanges
<1>3. /\ reapplied \in Stores
      /\ \A p \in RecordIds \ Ids : reapplied[p] = hydrated[p]
  <2> HIDE DEF hydrated
  <2> QED BY <1>1, <1>2, ApplyDocChanges
<1>4. /\ difference \in DocChanges
      /\ Leads(DocsOf(hydrated), difference, DocsOf(reapplied))
  <2> HIDE DEF hydrated, reapplied
  <2> QED BY <1>1, <1>3, DocumentsBetween, BetweenDocs
<1>5. /\ there \in Client /\ there.store = reapplied /\ there.history = history
      /\ there.status = c.status /\ there.out = c.out
      /\ there.incomingDiffBuffer = c.incomingDiffBuffer
      /\ there.pendingPushRequests = c.pendingPushRequests
      /\ there.requests = c.requests /\ there.clientClock = c.clientClock
  <2> HIDE DEF reapplied
  <2>1. there \in Client
    BY <1>3, RemoteChangeType
  <2>2. there = [c EXCEPT !.store = reapplied, !.history = history]
    BY DEF RemoteChange
  <2> HIDE DEF history, there
  <2> QED BY <2>1, <2>2 DEF Client
<1> HIDE DEF there
<1>6. /\ rebased \in Client /\ rebased.isConnectedToRoom
      /\ rebased.store = reapplied /\ rebased.history = history
      /\ rebased.speculativeChanges = NoChanges
      /\ rebased.status = c.status /\ rebased.out = c.out
      /\ rebased.incomingDiffBuffer = c.incomingDiffBuffer
      /\ rebased.pendingPushRequests = c.pendingPushRequests
      /\ rebased.requests = c.requests /\ rebased.clientClock = c.clientClock
  <2> HIDE DEF history, reapplied
  <2> QED BY <1>2, <1>5 DEF Client
<1> HIDE DEF rebased
<1>7. /\ pushed \in Client /\ Pushed(rebased, pushed)
      /\ NumbersOn(rebased, pushed) /\ pushed.history = rebased.history
      /\ \A x \in Docs : \A y : Shown(rebased, base, x) /\ Leads(x, difference, y) =>
                              Shown(pushed, base, y)
  <2> HIDE DEF difference
  <2> QED BY <1>4, <1>6, PushType, PushPushed, PushNumbers
<1> HIDE DEF pushed, astray
<1>8. /\ pushed.isConnectedToRoom /\ pushed.status = c.status
      /\ pushed.out = c.out /\ pushed.requests = c.requests
      /\ pushed.incomingDiffBuffer = c.incomingDiffBuffer
      /\ pushed.store = reapplied
  <2> HIDE DEF reapplied
  <2> QED BY <1>6, <1>7 DEF Pushed, Client
<1>9. Shown(rebased, base, base)
  <2>1. Leads(base, NoChanges, base)
    BY NoChangesLead
  <2>2. WithPending(rebased, base) = base
    BY <1>6, WithPendingMore
  <2> QED BY <1>6, <2>1, <2>2 DEF Shown
<1>10. Shown(pushed, base, DocsOf(reapplied))
  <2> HIDE DEF hydrated, reapplied, difference
  <2> QED BY <1>4, <1>7, <1>9 DEF hydrated
<1>11. Path(history, DocsOf(reapplied), DocsOf(reapplied))
  <2>1. history \in Seq(DocChanges)
    BY <1>2
  <2>2. \A i \in 1..Len(c.history) : c.history[i] = NoChanges
    BY <1>2 DEF HasUnflushedChanges
  <2>3. \A i \in 1..Len(history) : history[i] = NoChanges
    <3>1. CASE history = c.history
      BY <2>2, <3>1
    <3>2. CASE history = Append(c.history, NoChanges)
      BY <1>2, <2>2, <3>2
    <3> QED BY <3>1, <3>2
  <2>4. DocsOf(reapplied) \in Docs
    BY <1>3, DocsAre
  <2> HIDE DEF history, reapplied
  <2> QED BY <2>1, <2>3, <2>4, PathIdle
<1>12. /\ done \in Client /\ done.isConnectedToRoom /\ done.status = c.status
       /\ done.out = c.out /\ done.requests = c.requests
       /\ done.incomingDiffBuffer = c.incomingDiffBuffer
       /\ done.latestConnectRequestId = 0 /\ done.loaded
       /\ done.lastServerClock = event.serverClock
       /\ done.store = reapplied /\ done.history = history
       /\ done.speculativeChanges = pushed.speculativeChanges
       /\ done.pendingPushRequests = pushed.pendingPushRequests
       /\ done.clientClock = pushed.clientClock
  <2>1. astray \in BOOLEAN /\ event.serverClock \in Nat /\ NoRequest = 0
    BY <1>7 DEF Client, HasUnflushedChanges, ConnectEvent, NoRequest, astray
  <2> HIDE DEF history, reapplied
  <2> QED BY <1>6, <1>7, <1>8, <2>1 DEF Client
<1>13. DidReconnect(c, event) = done
  BY DEF DidReconnect, pushed, rebased, there, astray
<1> HIDE DEF done
<1>14. /\ NumbersOn(pushed, done)
       /\ \A x : WithPending(done, x) = WithPending(pushed, x)
  BY <1>7, <1>12, NumbersAlike
<1>15. NumbersOn(c, rebased)
  BY <1>6, NumbersAlike
<1>16. NumbersOn(c, done)
  BY <1>6, <1>7, <1>12, <1>14, <1>15, NumbersTransitive
<1>17. Shown(done, base, DocsOf(reapplied))
  <2> HIDE DEF reapplied
  <2> QED BY <1>8, <1>10, <1>12, <1>14 DEF Shown
<1>18. Ahead(done, base)
  <2>1. DocsOf(reapplied) \in Docs
    BY <1>3, DocsAre
  <2> HIDE DEF reapplied, history
  <2> QED BY <1>11, <1>12, <1>17, <2>1 DEF Ahead
<1> QED BY <1>12, <1>13, <1>16, <1>18
=============================================================================
