--------------------------- MODULE TLSyncRoomProofs --------------------------
(***************************************************************************)
(* Theorems about TLSyncRoom, for every set of sessions, records, pushes   *)
(* and clocks: first its records and what sessions are told of them, then  *)
(* what it schedules and announces, the order of messages, and presence.   *)
(***************************************************************************)
EXTENDS TLSyncRoom, FiniteSetTheorems, TLAPS

-----------------------------------------------------------------------------
(***************************************************************************)
(* The room in an open environment: connect and push requests come with    *)
(* any content of the right type, not only with what the CONSTANTS list.   *)
(* Every step of the room is one of these, and so is every step that the   *)
(* room takes in TLSync.                                                   *)
(***************************************************************************)
DocDiffs == {d \in NetworkDiff : DOMAIN d \subseteq Ids}

PresencePushes == {op \in RecordOp : op.type # "remove"} \cup {NoOp}

OpenSessionNext(s) ==
    \/ \E isReadonly \in BOOLEAN : HandleNewSession(s, isReadonly)
    \/ \E lastServerClock \in Nat, schemaOk \in BOOLEAN, reqId \in Nat :
         \E version :
           HandleConnectRequest(s, lastServerClock, version, schemaOk, reqId)
    \/ \E diff \in DocDiffs, presence \in PresencePushes, clientClock \in Nat :
         HandlePushRequest(s, diff, presence, clientClock)
    \/ HandlePing(s)
    \/ FlushTimer(s)
    \/ HandleClose(s)
    \/ \E fatal \in BOOLEAN : CloseSession(s, fatal)
    \/ Deliver(s)
    \/ SocketCloses(s)

OpenNext ==
    \/ \E s \in SessionIds : OpenSessionNext(s)
    \/ BeginUpdateStore
    \/ \E target \in StoreTargets : CommitUpdateStore(target)
    \/ \E timedOut \in SUBSET SessionIds : PruneSessions(timedOut)
    \/ PruneTombstones
    \/ Close

OpenSpec == Init /\ [][OpenNext]_vars

\* Nobody needs to send anything.
LEMMA EmptyDiffType == EmptyDiff \in NetworkDiff
BY DEF EmptyDiff, NetworkDiff, RecordOp

\* The requests that the CONSTANTS list have the right types.
LEMMA InputsAreOpen ==
    /\ PushDiffs \cup {EmptyDiff} \subseteq DocDiffs
    /\ PresenceOps \cup {NoOp} \subseteq PresencePushes
BY RoomAssumption, EmptyDiffType DEF DocDiffs, PresencePushes, EmptyDiff

\* A step of one session is one in an open environment.
LEMMA SessionNextIsOpen ==
    ASSUME NEW s \in SessionIds, SessionNext(s)
    PROVE  OpenSessionNext(s)
<1>1. 0..MaxClock + 1 \subseteq Nat
  BY RoomAssumption
<1> QED BY <1>1, InputsAreOpen, RoomAssumption DEF SessionNext, OpenSessionNext

\* Every behaviour of the room is one in an open environment.
LEMMA SpecIsOpen == Spec => OpenSpec
<1>1. [Next]_vars => [OpenNext]_vars
  BY SessionNextIsOpen DEF Next, OpenNext
<1> QED BY <1>1, PTL DEF Spec, OpenSpec

-----------------------------------------------------------------------------
(***************************************************************************)
(* Records and diffs.                                                      *)
(***************************************************************************)
\* The operations of diff.ts make records of records.
LEMMA ApplyOpType ==
    ASSUME NEW cur \in MaybeRecord, NEW op \in RecordOp
    PROVE  ApplyOp(cur, op) \in MaybeRecord
<1>1. CASE op.type = "put"
  BY <1>1 DEF ApplyOp, RecordOp, MaybeRecord, RemoveOp
<1>2. CASE op.type = "remove"
  BY <1>2 DEF ApplyOp, MaybeRecord
<1>3. CASE op.type = "patch"
  <2>1. op.diff \in ObjectDiff
    BY <1>3 DEF RecordOp, RemoveOp
  <2>2. ASSUME cur # Absent
        PROVE  ApplyObjectDiff(cur, op.diff) \in Record
    <3>1. cur \in Record
      BY <2>2 DEF MaybeRecord
    <3>2. \A g \in DOMAIN op.diff : op.diff[g] \in Vals
      BY <2>1 DEF ObjectDiff
    <3> QED BY <3>1, <3>2 DEF ApplyObjectDiff, Record
  <2> QED BY <1>3, <2>2 DEF ApplyOp, MaybeRecord
<1> QED BY <1>1, <1>2, <1>3 DEF RecordOp, RemoveOp

\* A network diff turns records into records.
LEMMA ApplyNetworkDiffType ==
    ASSUME NEW records \in [RecordIds -> MaybeRecord], NEW diff \in NetworkDiff
    PROVE  ApplyNetworkDiff(records, diff) \in [RecordIds -> MaybeRecord]
<1>1. \A id \in DOMAIN diff : diff[id] \in RecordOp
  BY DEF NetworkDiff
<1> QED BY <1>1, ApplyOpType DEF ApplyNetworkDiff

\* The operation between two records is one the protocol has.
LEMMA OpBetweenType ==
    ASSUME NEW cur \in MaybeRecord, NEW next \in MaybeRecord
    PROVE  OpBetween(cur, next) \in RecordOp
<1>1. CASE next = Absent
  BY <1>1 DEF OpBetween, RecordOp
<1>2. CASE next # Absent /\ cur = Absent
  BY <1>2 DEF OpBetween, RecordOp, PutOp, MaybeRecord
<1>3. CASE next # Absent /\ cur # Absent
  <2>1. cur \in Record /\ next \in Record
    BY <1>3 DEF MaybeRecord
  <2>2. DiffRecord(cur, next) \in [{g \in Fields : cur[g] # next[g]} -> Vals]
    BY <2>1 DEF DiffRecord, Record
  <2>3. DiffRecord(cur, next) \in ObjectDiff
    BY <2>2 DEF ObjectDiff
  <2> QED BY <1>3, <2>3 DEF OpBetween, RecordOp, PatchOp
<1> QED BY <1>1, <1>2, <1>3

\* A diff broadcast for a change makes the change: what handlePushRequest
\* propagates turns the old record into the new one.
LEMMA OpBetweenApplies ==
    ASSUME NEW cur \in MaybeRecord, NEW next \in MaybeRecord
    PROVE  ApplyOp(cur, OpBetween(cur, next)) = next
<1>1. CASE next = Absent
  BY <1>1 DEF OpBetween, ApplyOp, RemoveOp
<1>2. CASE next # Absent /\ cur = Absent
  BY <1>2 DEF OpBetween, ApplyOp, PutOp
<1>3. CASE next # Absent /\ cur # Absent
  <2>1. cur \in Record /\ next \in Record
    BY <1>3 DEF MaybeRecord
  <2>2. ApplyObjectDiff(cur, DiffRecord(cur, next)) = next
    BY <2>1 DEF ApplyObjectDiff, DiffRecord, Record
  <2> QED BY <1>3, <2>2 DEF OpBetween, ApplyOp, PatchOp
<1> QED BY <1>1, <1>2, <1>3

-----------------------------------------------------------------------------
(***************************************************************************)
(* The operations on one session keep its type.                            *)
(***************************************************************************)
LEMMA NoSessionType == NoSession \in Session
BY DEF NoSession, Session, NoView, MaybeRecord

\* Sending on a socket keeps its session well formed.
LEMMA SendOnSocketType ==
    ASSUME NEW c \in Session, NEW msg \in ServerMessage
    PROVE  SendOnSocket(c, msg) \in Session
<1>1. Append(c.wire, msg) \in Seq(ServerMessage)
  BY DEF Session
<1>2. [c EXCEPT !.wire = Append(@, msg)] \in Session
  BY <1>1, Zenon DEF Session
<1> QED BY <1>2 DEF SendOnSocket

\* Closing a socket keeps its session well formed.
LEMMA CloseSocketType ==
    ASSUME NEW c \in Session, NEW fatal \in BOOLEAN
    PROVE  CloseSocket(c, fatal) \in Session
<1>1. [type |-> "close", fatal |-> fatal] \in ServerMessage
  BY DEF ServerMessage
<1>2. Append(c.wire, [type |-> "close", fatal |-> fatal]) \in Seq(ServerMessage)
  BY <1>1 DEF Session
<1>3. [c EXCEPT !.open = FALSE,
                !.wire = Append(@, [type |-> "close", fatal |-> fatal])]
        \in Session
  BY <1>2, Zenon DEF Session
<1> QED BY <1>3 DEF CloseSocket

\* cancelSession keeps the session well formed.
LEMMA CancelSessionType ==
    ASSUME NEW c \in Session
    PROVE  CancelSession(c) \in Session
<1> DEFINE d == [c EXCEPT !.state = AwaitingRemoval,
                          !.debouncing = FALSE, !.outstanding = <<>>,
                          !.view = NoView, !.stale = {}]
<1>1. NoView \in [RecordIds -> MaybeRecord]
  BY DEF NoView, MaybeRecord
<1>2. d \in Session
  <2>1. <<>> \in Seq(DataMessage) /\ {} \in SUBSET Ids
    OBVIOUS
  <2> QED BY <1>1, <2>1, Zenon DEF Session
<1> HIDE DEF d
<1>3. CloseSocket(d, FALSE) \in Session
  BY <1>2, CloseSocketType
<1> QED BY <1>3 DEF CancelSession, d

\* _flushDataMessages keeps the session well formed.
LEMMA FlushDataMessagesType ==
    ASSUME NEW c \in Session
    PROVE  FlushDataMessages(c) \in Session
<1> DEFINE d == [c EXCEPT !.debouncing = FALSE, !.outstanding = <<>>]
           msg == [type |-> "data", data |-> c.outstanding]
<1>1. d \in Session /\ [c EXCEPT !.debouncing = FALSE] \in Session
  <2>1. <<>> \in Seq(DataMessage)
    OBVIOUS
  <2> QED BY <2>1, Zenon DEF Session
<1>2. msg \in ServerMessage
  BY DEF ServerMessage, Session
<1> HIDE DEF d, msg
<1>3. SendOnSocket(d, msg) \in Session
  BY <1>1, <1>2, SendOnSocketType
<1> QED BY <1>1, <1>3 DEF FlushDataMessages, d, msg

\* sendMessage keeps the session well formed.
LEMMA SendMessageType ==
    ASSUME NEW c \in Session, NEW msg \in ServerMessage
    PROVE  SendMessage(c, msg) \in Session
BY CancelSessionType, FlushDataMessagesType, SendOnSocketType DEF SendMessage

\* Sending data messages keeps the session well formed.
LEMMA SendDataType ==
    ASSUME NEW c \in Session, NEW msgs \in Seq(DataMessage),
           NEW diff \in NetworkDiff
    PROVE  SendData(c, msgs, diff) \in Session
<1> DEFINE view == ApplyNetworkDiff(c.view, diff)
<1>1. view \in [RecordIds -> MaybeRecord]
  BY ApplyNetworkDiffType DEF Session
<1> HIDE DEF view
<1>2. [c EXCEPT !.outstanding = @ \o msgs, !.view = view] \in Session
  <2>1. c.outstanding \o msgs \in Seq(DataMessage)
    BY DEF Session
  <2> QED BY <1>1, <2>1, Zenon DEF Session
<1>3. ASSUME msgs # <<>>
      PROVE  [c EXCEPT !.debouncing = TRUE,
                       !.outstanding = @ \o Tail(msgs),
                       !.wire = Append(@, [type |-> "data",
                                           data |-> <<Head(msgs)>>]),
                       !.view = view] \in Session
  <2>1. Head(msgs) \in DataMessage /\ Tail(msgs) \in Seq(DataMessage)
    BY <1>3
  <2>2. [type |-> "data", data |-> <<Head(msgs)>>] \in ServerMessage
    BY <2>1 DEF ServerMessage
  <2>3. c.outstanding \o Tail(msgs) \in Seq(DataMessage)
    BY <2>1 DEF Session
  <2>4. Append(c.wire, [type |-> "data", data |-> <<Head(msgs)>>])
          \in Seq(ServerMessage)
    BY <2>2 DEF Session
  <2> QED BY <1>1, <2>3, <2>4, Zenon DEF Session
<1> QED BY <1>2, <1>3, CancelSessionType DEF SendData, view

\* A removed session is well formed.
LEMMA RemovedSessionType ==
    ASSUME NEW c \in Session, NEW fatal \in BOOLEAN
    PROVE  RemovedSession(c, fatal) \in Session
<1>1. CloseSocket(c, fatal).wire \in Seq(ServerMessage)
  BY CloseSocketType DEF Session
<1> QED BY <1>1, NoSessionType, Zenon DEF RemovedSession, Session

-----------------------------------------------------------------------------
(***************************************************************************)
(* So do the operations on the table of sessions.                          *)
(***************************************************************************)
Sessions == [SessionIds -> Session]

\* Removals make a network diff.
LEMMA RemovalOfType ==
    ASSUME NEW ids \in SUBSET RecordIds
    PROVE  RemovalOf(ids) \in NetworkDiff
<1>1. RemovalOf(ids) \in [ids -> RecordOp]
  BY DEF RemovalOf, RecordOp
<1> QED BY <1>1 DEF NetworkDiff

\* A patch is a data message.
LEMMA PatchMessageType ==
    ASSUME clock' \in Nat, NEW diff \in NetworkDiff
    PROVE  PatchMessage(diff) \in DataMessage
BY DEF PatchMessage, DataMessage

\* broadcastPatch keeps the table of sessions well formed.
LEMMA BroadcastPatchType ==
    ASSUME clock' \in Nat, NEW sess \in Sessions, NEW diff \in NetworkDiff,
           NEW source
    PROVE  BroadcastPatch(sess, diff, source) \in Sessions
<1>1. <<PatchMessage(diff)>> \in Seq(DataMessage)
  BY PatchMessageType
<1>2. \A s \in SessionIds :
        SendData(sess[s], <<PatchMessage(diff)>>, diff) \in Session
  BY <1>1, SendDataType DEF Sessions
<1> QED BY <1>2 DEF BroadcastPatch, Sessions

\* A session's presence record is a presence record.
LEMMA PresenceOfType ==
    ASSUME NEW c, NEW docs
    PROVE  PresenceOf(c, docs) \in SUBSET PresenceIds
BY DEF PresenceOf

\* removeSession keeps the table of sessions well formed.
LEMMA RemoveSessionType ==
    ASSUME clock' \in Nat, NEW sess \in Sessions, NEW docs,
           NEW s \in SessionIds, NEW fatal \in BOOLEAN
    PROVE  RemoveSession(sess, docs, s, fatal) \in Sessions
<1> DEFINE gone == PresenceOf(sess[s], docs)
           rest == [sess EXCEPT ![s] = RemovedSession(@, fatal)]
<1>1. RemovedSession(sess[s], fatal) \in Session
  BY RemovedSessionType DEF Sessions
<1>2. rest \in Sessions
  BY <1>1 DEF Sessions
<1>3. RemovalOf(gone) \in NetworkDiff
  BY PresenceOfType, RemovalOfType DEF RecordIds
<1> HIDE DEF gone, rest
<1>4. BroadcastPatch(rest, RemovalOf(gone), s) \in Sessions
  BY <1>2, <1>3, BroadcastPatchType
<1> QED BY <1>2, <1>4 DEF RemoveSession, gone, rest

\* rejectSession keeps the table of sessions well formed.
LEMMA RejectSessionType ==
    ASSUME clock' \in Nat, NEW sess \in Sessions, NEW docs,
           NEW s \in SessionIds, NEW fatal \in BOOLEAN
    PROVE  RejectSession(sess, docs, s, fatal) \in Sessions
<1> DEFINE msg == [type |-> "incompatibility_error"]
           told == [sess EXCEPT ![s] = SendOnSocket(@, msg)]
<1>1. msg \in ServerMessage
  BY DEF ServerMessage
<1> HIDE DEF msg
<1>2. SendOnSocket(sess[s], msg) \in Session
  BY <1>1, SendOnSocketType DEF Sessions
<1>3. told \in Sessions
  BY <1>2 DEF Sessions
<1> HIDE DEF told
<1>4. RemoveSession(told, docs, s, FALSE) \in Sessions
  BY <1>3, RemoveSessionType
<1>5. RemoveSession(sess, docs, s, fatal) \in Sessions
  BY RemoveSessionType
<1> QED BY <1>4, <1>5 DEF RejectSession, told, msg

\* Removing records keeps the room's records well formed.
LEMMA WithoutRecordsType ==
    ASSUME NEW docs \in [RecordIds -> DocumentState], NEW ids
    PROVE  WithoutRecords(docs, ids) \in [RecordIds -> DocumentState]
BY DEF WithoutRecords, NoDocument, DocumentState, MaybeRecord

-----------------------------------------------------------------------------
(***************************************************************************)
(* Connecting and pushing.                                                 *)
(***************************************************************************)
LEMMA HydrationType ==
    ASSUME TypeOK, NEW c, NEW k
    PROVE  Hydration(c, k) \in NetworkDiff
<1> DEFINE puts == IF WipesAll(k) THEN Present \ {c.presenceId}
                   ELSE {id \in Present :
                           \/ documents[id].lastChangedClock > k
                           \/ id \in PresenceIds \ {c.presenceId}}
           removes == IF WipesAll(k) THEN {}
                      ELSE {id \in Ids : tombstones[id] > k}
           op(id) == IF id \in removes THEN RemoveOp
                     ELSE PutOp(documents[id].state)
<1>1. puts \in SUBSET Present /\ removes \in SUBSET Ids
  OBVIOUS
<1>2. \A id \in Present : PutOp(documents[id].state) \in RecordOp
  BY DEF Present, TypeOK, DocumentState, MaybeRecord, PutOp, RecordOp
<1>3. RemoveOp \in RecordOp
  BY DEF RecordOp
<1>4. puts \cup removes \in SUBSET RecordIds
  BY <1>1 DEF Present, RecordIds
<1> HIDE DEF puts, removes
<1>5. [id \in puts \cup removes |-> op(id)]
        \in [puts \cup removes -> RecordOp]
  BY <1>1, <1>2, <1>3
<1>6. Hydration(c, k) = [id \in puts \cup removes |-> op(id)]
  BY DEF Hydration, puts, removes
<1> HIDE DEF op
<1> QED BY <1>4, <1>5, <1>6 DEF NetworkDiff

\* A connecting client starts from records.
LEMMA BaseViewType ==
    ASSUME TypeOK, NEW k \in Nat
    PROVE  BaseView(k) \in [RecordIds -> MaybeRecord]
<1>1. ASSUME NEW id \in Ids, ~WipesAll(k)
      PROVE  hist[k][id] \in MaybeRecord
  <2>1. k \in 0..clock
    BY <1>1 DEF WipesAll, TypeOK
  <2> QED BY <2>1 DEF TypeOK
<1> QED BY <1>1 DEF BaseView, MaybeRecord

\* The operations of a push leave records.
LEMMA OutcomeType ==
    ASSUME TypeOK, NEW ops \in NetworkDiff
    PROVE  Outcome(ops) \in [RecordIds -> MaybeRecord]
<1>1. StatesOf(documents) \in [RecordIds -> MaybeRecord]
  BY DEF StatesOf, TypeOK, DocumentState
<1> QED BY <1>1, ApplyNetworkDiffType DEF Outcome

\* The actual changes of a push make a network diff.
LEMMA ActualChangesType ==
    ASSUME TypeOK, NEW ops \in NetworkDiff, NEW ids
    PROVE  ActualChanges(ops, ids) \in NetworkDiff
<1>1. Changed(ops) \cap ids \in SUBSET RecordIds
  BY DEF Changed, NetworkDiff
<1>2. \A id \in RecordIds : documents[id].state \in MaybeRecord
  BY DEF TypeOK, DocumentState
<1>3. \A id \in RecordIds :
        OpBetween(documents[id].state, Outcome(ops)[id]) \in RecordOp
  BY <1>2, OutcomeType, OpBetweenType
<1>4. ActualChanges(ops, ids) \in [Changed(ops) \cap ids -> RecordOp]
  BY <1>1, <1>3 DEF ActualChanges
<1> QED BY <1>1, <1>4 DEF NetworkDiff

\* The variables that a push writes, when it is applied.
LEMMA ApplyPushType ==
    ASSUME TypeOK, clock' \in Nat, NEW ops \in NetworkDiff, ApplyPush(ops)
    PROVE  /\ documents' \in [RecordIds -> DocumentState]
           /\ tombstones' \in [Ids -> Nat \cup {NoClock}]
           /\ documentClock' \in Nat
           /\ pruneScheduled' \in BOOLEAN
<1>1. ASSUME NEW id \in RecordIds
      PROVE  [state |-> Outcome(ops)[id],
              lastChangedClock |->
                IF Outcome(ops)[id] = Absent THEN 0 ELSE clock']
                \in DocumentState
  BY OutcomeType DEF DocumentState
<1>2. documents' \in [RecordIds -> DocumentState]
  BY <1>1 DEF ApplyPush, TombstonesAfter, TypeOK
<1>3. tombstones' \in [Ids -> Nat \cup {NoClock}]
  BY DEF ApplyPush, TombstonesAfter, TypeOK
<1>4. documentClock' \in Nat /\ pruneScheduled' \in BOOLEAN
  BY DEF ApplyPush, TombstonesAfter, TypeOK
<1> QED BY <1>2, <1>3, <1>4

\* A push that fails keeps the room well formed.
LEMMA RollbackPushType ==
    ASSUME TypeOK, NEW ops, RollbackPush(ops)
    PROVE  /\ documents' \in [RecordIds -> DocumentState]
           /\ tombstones' \in [Ids -> Nat \cup {NoClock}]
           /\ documentClock' \in Nat
           /\ pruneScheduled' \in BOOLEAN
BY DEF RollbackPush, TypeOK

\* The history keeps its type when the clock advances.
LEMMA HistoryType ==
    ASSUME TypeOK, clock' \in Nat, clock' = clock + 1, ExtendHistory,
           documents' \in [RecordIds -> DocumentState]
    PROVE  hist' \in [0..clock' -> [Ids -> MaybeRecord]]
<1>1. ASSUME NEW k \in 0..clock'
      PROVE  IF k <= clock THEN hist[k] \in [Ids -> MaybeRecord]
             ELSE [id \in Ids |-> documents'[id].state]
                    \in [Ids -> MaybeRecord]
  BY DEF TypeOK, DocumentState, RecordIds
<1> QED BY <1>1 DEF ExtendHistory

\* The operations of a push make a network diff.
LEMMA PushedOpsType ==
    ASSUME NEW c, NEW diff \in DocDiffs,
           NEW presence \in PresencePushes
    PROVE  PushedOps(c, diff, presence) \in NetworkDiff
<1> DEFINE pushed == {id \in DOMAIN diff : ~c.isReadonly}
           own == {p \in PresenceIds : p = c.presenceId /\ presence # NoOp}
           op(id) == IF id \in pushed THEN diff[id] ELSE presence
<1>1. diff \in NetworkDiff
  BY DEF DocDiffs
<1>2. \A id \in pushed : diff[id] \in RecordOp /\ id \in RecordIds
  BY <1>1 DEF NetworkDiff
<1>3. own # {} => presence \in RecordOp
  BY DEF PresencePushes
<1>4. own \in SUBSET RecordIds
  BY DEF RecordIds
<1> HIDE DEF pushed, own
<1>5. [id \in pushed \cup own |-> op(id)] \in [pushed \cup own -> RecordOp]
  BY <1>2, <1>3
<1>6. pushed \cup own \in SUBSET RecordIds
  BY <1>2, <1>4
<1>7. PushedOps(c, diff, presence) = [id \in pushed \cup own |-> op(id)]
  BY DEF PushedOps, pushed, own
<1> HIDE DEF op
<1> QED BY <1>5, <1>6, <1>7 DEF NetworkDiff

\* The answer to a push is a data message.
LEMMA PushResultType ==
    ASSUME clock' \in Nat, NEW diff, NEW docChanges \in NetworkDiff,
           NEW clientClock \in Nat
    PROVE  PushResult(diff, docChanges, clientClock) \in DataMessage
<1> DEFINE action == IF diff = EmptyDiff \/ docChanges = diff THEN "commit"
                     ELSE IF docChanges = EmptyDiff THEN "discard"
                     ELSE "rebase"
           answer == IF action = "rebase" THEN docChanges ELSE EmptyDiff
<1>1. action \in {"commit", "discard", "rebase"}
  OBVIOUS
<1>2. answer \in NetworkDiff
  BY EmptyDiffType
<1> HIDE DEF action, answer
<1>3. [type |-> "push_result", action |-> action, diff |-> answer,
       clientClock |-> clientClock, serverClock |-> clock'] \in DataMessage
  BY <1>1, <1>2 DEF DataMessage
<1> QED BY <1>3 DEF PushResult, action, answer

-----------------------------------------------------------------------------
(***************************************************************************)
(* Type correctness.                                                       *)
(***************************************************************************)
LEMMA SessionsStepType ==
    ASSUME TypeOK, RecordsUnchanged, UNCHANGED isClosed, sessions' \in Sessions
    PROVE  TypeOK'
BY DEF RecordsUnchanged, TypeOK, Sessions

\* A step on the table and the presence records keeps every type.
LEMMA PresenceStepType ==
    ASSUME TypeOK, ClocksUnchanged, UNCHANGED isClosed, sessions' \in Sessions,
           documents' \in [RecordIds -> DocumentState]
    PROVE  TypeOK'
BY DEF ClocksUnchanged, TypeOK, Sessions

\* A push, accepted or not, keeps every type.
LEMMA PushStepType ==
    ASSUME TypeOK, IncrementClock, NEW ops \in NetworkDiff,
           ApplyPush(ops) \/ RollbackPush(ops), ExtendHistory,
           sessions' \in Sessions,
           storeUpdate' \in [Ids -> MaybeRecord] \cup {NoUpdate},
           UNCHANGED <<isClosed, forgotten>>
    PROVE  TypeOK'
<1>1. clock' = clock + 1 /\ clock' \in Nat
  BY DEF IncrementClock, TypeOK
<1>2. /\ documents' \in [RecordIds -> DocumentState]
      /\ tombstones' \in [Ids -> Nat \cup {NoClock}]
      /\ documentClock' \in Nat
      /\ pruneScheduled' \in BOOLEAN
  BY <1>1, ApplyPushType, RollbackPushType
<1>3. hist' \in [0..clock' -> [Ids -> MaybeRecord]]
  BY <1>1, <1>2, HistoryType
<1> QED BY <1>1, <1>2, <1>3 DEF TypeOK, Sessions

\* A room starts well formed.
LEMMA InitType == Init => TypeOK
<1> SUFFICES ASSUME Init PROVE TypeOK
  OBVIOUS
<1>1. PICK docs \in InitialDocs :
        /\ documents = [id \in RecordIds |->
                          [state |-> IF id \in Ids THEN docs[id] ELSE Absent,
                           lastChangedClock |-> 0]]
        /\ hist = [k \in {0} |-> docs]
  BY DEF Init
<1>2. docs \in [Ids -> MaybeRecord]
  BY RoomAssumption
<1>3. documents \in [RecordIds -> DocumentState]
  BY <1>1, <1>2 DEF DocumentState, MaybeRecord
<1>4. hist \in [0..0 -> [Ids -> MaybeRecord]]
  BY <1>1, <1>2
<1>5. sessions \in [SessionIds -> Session]
  BY NoSessionType DEF Init
<1> QED BY <1>3, <1>4, <1>5 DEF Init, TypeOK, NoClock

\* handleNewSession keeps the table well formed.
LEMMA HandleNewSessionType ==
    ASSUME TypeOK, NEW s \in SessionIds, NEW isReadonly \in BOOLEAN,
           HandleNewSession(s, isReadonly)
    PROVE  sessions' \in Sessions
<1>1. PICK presenceId \in
             IF sessions[s].state # "none" THEN {sessions[s].presenceId}
             ELSE IF PresenceIds = {} THEN {NoPresence} ELSE FreshPresenceIds :
           sessions' = [sessions EXCEPT ![s] =
             [NoSession EXCEPT !.state = AwaitingConnectMessage,
                               !.presenceId = presenceId,
                               !.isReadonly = isReadonly,
                               !.open = TRUE]]
  BY DEF HandleNewSession
<1>2. presenceId \in PresenceIds \cup {NoPresence}
  <2>1. sessions[s] \in Session
    BY DEF TypeOK
  <2> QED BY <2>1 DEF FreshPresenceIds, Session
<1>3. [NoSession EXCEPT !.state = AwaitingConnectMessage,
                        !.presenceId = presenceId,
                        !.isReadonly = isReadonly,
                        !.open = TRUE] \in Session
  BY <1>2, NoSessionType, Zenon DEF Session
<1> QED BY <1>1, <1>3 DEF TypeOK, Sessions

\* handleConnectRequest keeps table and records well formed.
LEMMA HandleConnectRequestType ==
    ASSUME TypeOK, NEW s \in SessionIds, NEW k \in Nat, NEW version,
           NEW schemaOk, NEW reqId \in Nat,
           HandleConnectRequest(s, k, version, schemaOk, reqId)
    PROVE  /\ sessions' \in Sessions
           /\ documents' \in [RecordIds -> DocumentState]
<1> DEFINE c == [sessions[s] EXCEPT
                   !.requiresLegacyRejection = version \in {5, 6}]
           diff == Hydration(c, k)
           joined == [c EXCEPT
                        !.state = Connected,
                        !.debouncing = FALSE, !.outstanding = <<>>,
                        !.view = ApplyNetworkDiff(BaseView(k), diff),
                        !.stale = ForgottenSince(k)]
           msg == [type |-> "connect",
                   hydrationType |-> IF WipesAll(k)
                                     THEN "wipe_all" ELSE "wipe_presence",
                   diff |-> diff, serverClock |-> clock,
                   connectRequestId |-> reqId, isReadonly |-> c.isReadonly]
<1>1. clock' \in Nat
  BY DEF HandleConnectRequest, ClocksUnchanged, TypeOK
<1>2. c \in Session
  <2>1. sessions[s] \in Session /\ (version \in {5, 6}) \in BOOLEAN
    BY DEF TypeOK
  <2> QED BY <2>1, Zenon DEF Session
<1>3. diff \in NetworkDiff
  BY HydrationType
<1>4. \/ sessions' = [sessions EXCEPT ![s] = SendMessage(joined, msg)]
         /\ documents' = documents
      \/ sessions' = RejectSession([sessions EXCEPT ![s] = c],
                                   documents, s, TRUE)
         /\ documents' = WithoutRecords(documents, PresenceOf(c, documents))
  BY DEF HandleConnectRequest
<1> HIDE DEF c, diff
<1>5. joined \in Session
  <2>1. ApplyNetworkDiff(BaseView(k), diff) \in [RecordIds -> MaybeRecord]
    BY <1>3, BaseViewType, ApplyNetworkDiffType
  <2>2. ForgottenSince(k) \in SUBSET Ids
    BY DEF ForgottenSince
  <2>3. <<>> \in Seq(DataMessage)
    OBVIOUS
  <2> QED BY <1>2, <2>1, <2>2, <2>3, Zenon DEF Session
<1>6. msg \in ServerMessage
  <2>1. c.isReadonly \in BOOLEAN
    BY <1>2 DEF Session
  <2>2. clock \in Nat
    BY DEF TypeOK
  <2> QED BY <1>3, <2>1, <2>2 DEF ServerMessage
<1> HIDE DEF joined, msg
<1>7. SendMessage(joined, msg) \in Session
  BY <1>5, <1>6, SendMessageType
<1>8. [sessions EXCEPT ![s] = SendMessage(joined, msg)] \in Sessions
  BY <1>7 DEF TypeOK, Sessions
<1>9. RejectSession([sessions EXCEPT ![s] = c], documents, s, TRUE)
        \in Sessions
  <2>1. [sessions EXCEPT ![s] = c] \in Sessions
    BY <1>2 DEF TypeOK, Sessions
  <2> QED BY <1>1, <2>1, RejectSessionType
<1>10. /\ documents \in [RecordIds -> DocumentState]
       /\ WithoutRecords(documents, PresenceOf(c, documents))
            \in [RecordIds -> DocumentState]
  BY WithoutRecordsType DEF TypeOK
<1> QED BY <1>4, <1>8, <1>9, <1>10

\* handlePushRequest keeps every type.
LEMMA HandlePushRequestType ==
    ASSUME TypeOK, NEW s \in SessionIds,
           NEW diff \in DocDiffs,
           NEW presence \in PresencePushes,
           NEW clientClock \in Nat,
           HandlePushRequest(s, diff, presence, clientClock)
    PROVE  TypeOK'
<1> DEFINE ops == PushedOps(sessions[s], diff, presence)
           docChanges == ActualChanges(ops, Ids)
           result == PushResult(diff, docChanges, clientClock)
           answered == [sessions EXCEPT ![s] =
                          SendData(@, <<result>>, docChanges)]
<1>1. /\ IncrementClock
      /\ ApplyPush(ops) \/ RollbackPush(ops)
      /\ ExtendHistory
      /\ UNCHANGED <<storeUpdate, isClosed, forgotten>>
  BY DEF HandlePushRequest
<1>2. \/ sessions' = answered
      \/ sessions' =
           BroadcastPatch(answered, ActualChanges(ops, RecordIds), s)
      \/ sessions' =
           RejectSession(sessions, DocumentsAtFailure(ops), s, TRUE)
  BY DEF HandlePushRequest
<1>3. clock' \in Nat
  BY <1>1 DEF IncrementClock, TypeOK
<1>4. ops \in NetworkDiff
  BY PushedOpsType
<1> HIDE DEF ops
<1>5. docChanges \in NetworkDiff /\ ActualChanges(ops, RecordIds) \in NetworkDiff
  BY <1>4, ActualChangesType
<1> HIDE DEF docChanges
<1>6. result \in DataMessage
  BY <1>3, <1>5, PushResultType
<1> HIDE DEF result
<1>7. SendData(sessions[s], <<result>>, docChanges) \in Session
  <2>1. <<result>> \in Seq(DataMessage)
    BY <1>6
  <2> QED BY <1>5, <2>1, SendDataType DEF TypeOK
<1>8. answered \in Sessions
  BY <1>7 DEF TypeOK, Sessions
<1> HIDE DEF answered
<1>9. sessions' \in Sessions
  <2>1. BroadcastPatch(answered, ActualChanges(ops, RecordIds), s) \in Sessions
    BY <1>3, <1>5, <1>8, BroadcastPatchType
  <2>2. RejectSession(sessions, DocumentsAtFailure(ops), s, TRUE) \in Sessions
    BY <1>3, RejectSessionType DEF TypeOK, Sessions
  <2> QED BY <1>2, <1>8, <2>1, <2>2
<1>10. storeUpdate' \in [Ids -> MaybeRecord] \cup {NoUpdate}
  BY <1>1 DEF TypeOK
<1> QED BY <1>1, <1>4, <1>9, <1>10, PushStepType

\* StoreUpdateContext.toDiff makes a network diff.
LEMMA ToDiffType ==
    ASSUME NEW snapshot \in [Ids -> MaybeRecord],
           NEW target \in [Ids -> MaybeRecord]
    PROVE  ToDiff(snapshot, target) \in NetworkDiff
<1> DEFINE changed == {i \in Ids : target[i] # snapshot[i]}
           op(id) == IF target[id] = Absent THEN RemoveOp
                     ELSE PutOp(target[id])
<1>1. \A id \in changed : op(id) \in RecordOp
  BY DEF RecordOp, PutOp, MaybeRecord
<1>2. changed \in SUBSET RecordIds
  BY DEF RecordIds
<1> HIDE DEF changed
<1>3. [id \in changed |-> op(id)] \in [changed -> RecordOp]
  BY <1>1
<1>4. ToDiff(snapshot, target) = [id \in changed |-> op(id)]
  BY DEF ToDiff, changed
<1> HIDE DEF op
<1> QED BY <1>2, <1>3, <1>4 DEF NetworkDiff

\* The commit of an updateStore keeps every type.
LEMMA CommitUpdateStoreType ==
    ASSUME TypeOK, NEW target \in StoreTargets, CommitUpdateStore(target)
    PROVE  TypeOK'
<1> DEFINE ops == ToDiff(storeUpdate, target)
<1>1. ops \in NetworkDiff
  <2>1. storeUpdate \in [Ids -> MaybeRecord]
    BY DEF CommitUpdateStore, TypeOK
  <2> QED BY <2>1, RoomAssumption, ToDiffType
<1>2. \/ UNCHANGED <<documents, tombstones, clock, documentClock, sessions,
                     pruneScheduled, hist>>
      \/ /\ IncrementClock
         /\ ApplyPush(ops) \/ RollbackPush(ops)
         /\ ExtendHistory
         /\ \/ sessions' = sessions
            \/ sessions' = BroadcastPatch(sessions, ActualChanges(ops, Ids),
                                          NoPresence)
  BY DEF CommitUpdateStore
<1>3. storeUpdate' = NoUpdate /\ UNCHANGED <<isClosed, forgotten>>
  BY DEF CommitUpdateStore
<1> HIDE DEF ops
<1>4. CASE UNCHANGED <<documents, tombstones, clock, documentClock, sessions,
                       pruneScheduled, hist>>
  BY <1>3, <1>4 DEF TypeOK
<1>5. CASE /\ IncrementClock
           /\ ApplyPush(ops) \/ RollbackPush(ops)
           /\ ExtendHistory
           /\ \/ sessions' = sessions
              \/ sessions' = BroadcastPatch(sessions, ActualChanges(ops, Ids),
                                            NoPresence)
  <2>1. clock' \in Nat
    BY <1>5 DEF IncrementClock, TypeOK
  <2>2. ActualChanges(ops, Ids) \in NetworkDiff
    BY <1>1, ActualChangesType
  <2>3. sessions \in Sessions
    BY DEF TypeOK, Sessions
  <2>4. sessions' \in Sessions
    BY <1>5, <2>1, <2>2, <2>3, BroadcastPatchType
  <2> QED BY <1>1, <1>3, <1>5, <2>4, PushStepType
<1> QED BY <1>2, <1>4, <1>5

\* The other operations on one session keep the table well formed.
LEMMA SessionOpTypes ==
    ASSUME TypeOK, NEW s \in SessionIds
    PROVE  /\ HandlePing(s) => sessions' \in Sessions
           /\ FlushTimer(s) => sessions' \in Sessions
           /\ HandleClose(s) => sessions' \in Sessions
           /\ Deliver(s) => sessions' \in Sessions
           /\ SocketCloses(s) => sessions' \in Sessions
<1>1. sessions[s] \in Session /\ sessions \in Sessions
  BY DEF TypeOK, Sessions
<1>2. ASSUME NEW c \in Session
      PROVE  [sessions EXCEPT ![s] = c] \in Sessions
  BY <1>1 DEF Sessions
<1>3. HandlePing(s) => sessions' \in Sessions
  <2>1. [type |-> "pong"] \in ServerMessage
    BY DEF ServerMessage
  <2> QED BY <1>1, <1>2, <2>1, SendMessageType DEF HandlePing
<1>4. FlushTimer(s) => sessions' \in Sessions
  BY <1>1, <1>2, FlushDataMessagesType DEF FlushTimer
<1>5. HandleClose(s) => sessions' \in Sessions
  BY <1>1, <1>2, CancelSessionType DEF HandleClose
<1>6. Deliver(s) => sessions' \in Sessions
  <2> SUFFICES ASSUME Deliver(s) PROVE sessions' \in Sessions
    OBVIOUS
  <2>1. sessions[s].wire \in Seq(ServerMessage)
    BY <1>1 DEF Session
  <2>2. Tail(sessions[s].wire) \in Seq(ServerMessage)
    BY <2>1 DEF Deliver
  <2>3. [sessions[s] EXCEPT !.wire = Tail(@)] \in Session
    BY <1>1, <2>2, Zenon DEF Session
  <2> QED BY <1>2, <2>3 DEF Deliver
<1>7. SocketCloses(s) => sessions' \in Sessions
  <2>1. <<>> \in Seq(ServerMessage)
    OBVIOUS
  <2>2. [sessions[s] EXCEPT !.open = FALSE, !.wire = <<>>] \in Session
    BY <1>1, <2>1, Zenon DEF Session
  <2>3. SocketCloses(s) =>
          sessions' = [sessions EXCEPT ![s] =
                         [sessions[s] EXCEPT !.open = FALSE, !.wire = <<>>]]
    BY <1>1 DEF SocketCloses, Sessions
  <2> QED BY <1>2, <2>2, <2>3
<1> QED BY <1>3, <1>4, <1>5, <1>6, <1>7

\* closeSession keeps table and records well formed.
LEMMA CloseSessionType ==
    ASSUME TypeOK, NEW s \in SessionIds, NEW fatal \in BOOLEAN,
           CloseSession(s, fatal)
    PROVE  /\ sessions' \in Sessions
           /\ documents' \in [RecordIds -> DocumentState]
<1>1. clock' \in Nat /\ sessions \in Sessions
  BY DEF CloseSession, ClocksUnchanged, TypeOK, Sessions
<1>2. RejectSession(sessions, documents, s, fatal) \in Sessions
  BY <1>1, RejectSessionType
<1>3. WithoutRecords(documents, PresenceOf(sessions[s], documents))
        \in [RecordIds -> DocumentState]
  BY WithoutRecordsType DEF TypeOK
<1> QED BY <1>2, <1>3 DEF CloseSession

\* The presence records that go in one pass of pruneSessions.
LEMMA FinitelyManyGone ==
    ASSUME NEW removed \in SUBSET SessionIds
    PROVE  LET gone == UNION {PresenceOf(sessions[s], documents) : s \in removed}
           IN  gone \in SUBSET PresenceIds /\ Cardinality(gone) \in Nat
<1> DEFINE gone == UNION {PresenceOf(sessions[s], documents) : s \in removed}
           ids == {sessions[s].presenceId : s \in removed}
<1>1. IsFiniteSet(removed)
  BY RoomAssumption, FS_Subset
<1>2. IsFiniteSet(ids)
  <2> DEFINE owner == [s \in removed |-> sessions[s].presenceId]
  <2>1. owner \in Surjection(removed, ids)
    BY DEF Surjection
  <2> QED BY <1>1, <2>1, FS_Surjection
<1>3. gone \in SUBSET ids /\ gone \in SUBSET PresenceIds
  BY DEF PresenceOf
<1> HIDE DEF gone, ids
<1>4. Cardinality(gone) \in Nat
  BY <1>2, <1>3, FS_Subset, FS_CardinalityType
<1> QED BY <1>3, <1>4 DEF gone

\* Hearing of removed presence keeps a session well formed.
LEMMA SendRemovalsType ==
    ASSUME clock' \in Nat, NEW c \in Session, NEW n \in Nat, NEW order,
           \A i \in 1..n : order[i] \in RecordIds
    PROVE  SendRemovals(c, order, n) \in Session
<1> DEFINE msgs == [i \in 1..n |-> PatchMessage(RemovalOf({order[i]}))]
           ids == {order[i] : i \in 1..n}
<1>1. \A i \in 1..n : PatchMessage(RemovalOf({order[i]})) \in DataMessage
  BY RemovalOfType, PatchMessageType
<1>2. msgs \in Seq(DataMessage)
  BY <1>1
<1>3. RemovalOf(ids) \in NetworkDiff
  BY RemovalOfType
<1> HIDE DEF msgs, ids
<1>4. SendData(c, msgs, RemovalOf(ids)) \in Session
  BY <1>2, <1>3, SendDataType
<1> QED BY <1>4 DEF SendRemovals, msgs, ids

\* pruneSessions keeps table and records well formed.
LEMMA PruneSessionsType ==
    ASSUME TypeOK, NEW timedOut \in SUBSET SessionIds, PruneSessions(timedOut)
    PROVE  /\ sessions' \in Sessions
           /\ documents' \in [RecordIds -> DocumentState]
<1> DEFINE Expired(s) == s \in timedOut \/ ~sessions[s].open
           canceled == {s \in SessionIds :
                          sessions[s].state = Connected /\ Expired(s)}
           removed == {s \in SessionIds :
                         \/ sessions[s].state = AwaitingConnectMessage
                            /\ Expired(s)
                         \/ sessions[s].state = AwaitingRemoval
                            /\ s \in timedOut}
           gone == UNION {PresenceOf(sessions[s], documents) : s \in removed}
<1>1. PICK order \in Orders(gone),
           seen \in [canceled -> 0..Cardinality(gone)] :
        sessions' = [s \in SessionIds |->
           IF s \in removed THEN RemovedSession(sessions[s], FALSE)
           ELSE IF s \in canceled
             THEN CancelSession(SendRemovals(sessions[s], order, seen[s]))
           ELSE SendRemovals(sessions[s], order, Cardinality(gone))]
  BY DEF PruneSessions
<1>2. clock' \in Nat
  BY DEF PruneSessions, ClocksUnchanged, TypeOK
<1>3. gone \in SUBSET PresenceIds /\ Cardinality(gone) \in Nat
  BY FinitelyManyGone
<1>4. documents' = WithoutRecords(documents, gone)
  BY DEF PruneSessions
<1> HIDE DEF removed, canceled, gone
<1>5. ASSUME NEW n \in 0..Cardinality(gone), NEW c \in Session
      PROVE  SendRemovals(c, order, n) \in Session
  <2>1. n \in Nat
    BY <1>3
  <2>2. \A i \in 1..n : order[i] \in RecordIds
    BY <1>3 DEF Orders, RecordIds
  <2> QED BY <1>2, <2>1, <2>2, SendRemovalsType
<1>6. \A s \in canceled : seen[s] \in 0..Cardinality(gone)
  OBVIOUS
<1>7. Cardinality(gone) \in 0..Cardinality(gone)
  BY <1>3
<1>8. \A s \in SessionIds : sessions[s] \in Session
  BY DEF TypeOK
<1>9. sessions' \in Sessions
  BY <1>1, <1>5, <1>6, <1>7, <1>8, RemovedSessionType, CancelSessionType
     DEF Sessions
<1>10. documents' \in [RecordIds -> DocumentState]
  BY <1>4, WithoutRecordsType DEF TypeOK
<1> QED BY <1>9, <1>10

\* pruneTombstones keeps every type.
LEMMA PruneTombstonesType ==
    ASSUME TypeOK, PruneTombstones
    PROVE  TypeOK'
BY DEF TypeOK, PruneTombstones, Tombstoned

\* close keeps every type.
LEMMA CloseType ==
    ASSUME TypeOK, Close
    PROVE  TypeOK'
<1>1. sessions' \in [SessionIds -> Session]
  BY CloseSocketType DEF TypeOK, Close
<1> QED BY <1>1 DEF TypeOK, Close, RecordsUnchanged

\* The start of an updateStore keeps every type.
LEMMA BeginUpdateStoreType ==
    ASSUME TypeOK, BeginUpdateStore
    PROVE  TypeOK'
BY DEF TypeOK, BeginUpdateStore, DocumentState, RecordIds

\* Every step keeps every type.
LEMMA NextType ==
    ASSUME TypeOK, [OpenNext]_vars
    PROVE  TypeOK'
<1>1. ASSUME NEW s \in SessionIds, OpenSessionNext(s)
      PROVE  TypeOK'
  <2>1. ASSUME NEW isReadonly \in BOOLEAN, HandleNewSession(s, isReadonly)
        PROVE  TypeOK'
    BY <2>1, HandleNewSessionType, SessionsStepType DEF HandleNewSession
  <2>2. ASSUME NEW k \in Nat, NEW version,
               NEW schemaOk \in BOOLEAN, NEW reqId \in Nat,
               HandleConnectRequest(s, k, version, schemaOk, reqId)
        PROVE  TypeOK'
    <3>1. k \in Nat
      BY RoomAssumption
    <3>2. ClocksUnchanged /\ UNCHANGED isClosed
      BY <2>2 DEF HandleConnectRequest
    <3> QED BY <2>2, <3>1, <3>2, HandleConnectRequestType, PresenceStepType
  <2>3. ASSUME NEW diff \in DocDiffs,
               NEW presence \in PresencePushes,
               NEW clientClock \in Nat,
               HandlePushRequest(s, diff, presence, clientClock)
        PROVE  TypeOK'
    BY <2>3, HandlePushRequestType
  <2>4. CASE HandlePing(s)
    BY <2>4, SessionOpTypes, SessionsStepType DEF HandlePing
  <2>5. CASE FlushTimer(s)
    BY <2>5, SessionOpTypes, SessionsStepType DEF FlushTimer
  <2>6. CASE HandleClose(s)
    BY <2>6, SessionOpTypes, SessionsStepType DEF HandleClose
  <2>7. ASSUME NEW fatal \in BOOLEAN, CloseSession(s, fatal)
        PROVE  TypeOK'
    BY <2>7, CloseSessionType, PresenceStepType DEF CloseSession
  <2>8. CASE Deliver(s)
    BY <2>8, SessionOpTypes, SessionsStepType DEF Deliver
  <2>9. CASE SocketCloses(s)
    BY <2>9, SessionOpTypes, SessionsStepType DEF SocketCloses
  <2> QED BY <1>1, <2>1, <2>2, <2>3, <2>4, <2>5, <2>6, <2>7, <2>8, <2>9
          DEF OpenSessionNext
<1>2. CASE BeginUpdateStore
  BY <1>2, BeginUpdateStoreType
<1>3. ASSUME NEW target \in StoreTargets, CommitUpdateStore(target)
      PROVE  TypeOK'
  BY <1>3, CommitUpdateStoreType
<1>4. ASSUME NEW timedOut \in SUBSET SessionIds, PruneSessions(timedOut)
      PROVE  TypeOK'
  BY <1>4, PruneSessionsType, PresenceStepType DEF PruneSessions
<1>5. CASE PruneTombstones
  BY <1>5, PruneTombstonesType
<1>6. CASE Close
  BY <1>6, CloseType
<1>7. CASE UNCHANGED vars
  BY <1>7 DEF vars, TypeOK
<1> QED BY <1>1, <1>2, <1>3, <1>4, <1>5, <1>6, <1>7 DEF OpenNext

\* Every variable of the room keeps its type: no handler, timer or socket
\* event leaves a record, a clock or a session malformed.
THEOREM TypeCorrect == Spec => []TypeOK
<1>1. Init => TypeOK
  BY InitType
<1>2. TypeOK /\ [OpenNext]_vars => TypeOK'
  BY NextType
<1> QED BY <1>1, <1>2, SpecIsOpen, PTL DEF OpenSpec

-----------------------------------------------------------------------------
(***************************************************************************)
(* Operations that tell a session nothing about document records.          *)
(***************************************************************************)
IsQuiet(c, d) ==
    Listening(d) => /\ Listening(c)
                    /\ d.stale = c.stale
                    /\ \A id \in Ids : d.view[id] = c.view[id]

\* IsQuiet steps compose.
LEMMA QuietTransitive ==
    ASSUME NEW c, NEW d, NEW e, IsQuiet(c, d), IsQuiet(d, e)
    PROVE  IsQuiet(c, e)
BY DEF IsQuiet

\* Putting a message on the socket is quiet.
LEMMA QuietSendOnSocket ==
    ASSUME NEW c \in Session, NEW msg
    PROVE  IsQuiet(c, SendOnSocket(c, msg))
BY Zenon DEF IsQuiet, SendOnSocket, Listening, Session

\* Closing the socket is quiet.
LEMMA QuietCloseSocket ==
    ASSUME NEW c \in Session, NEW fatal
    PROVE  IsQuiet(c, CloseSocket(c, fatal))
BY Zenon DEF IsQuiet, CloseSocket, Listening, Session

\* A session that is canceled is no longer connected.
LEMMA CanceledIsDeaf ==
    ASSUME NEW c \in Session
    PROVE  ~Listening(CancelSession(c))
<1> DEFINE d == [c EXCEPT !.state = AwaitingRemoval,
                          !.debouncing = FALSE, !.outstanding = <<>>,
                          !.view = NoView, !.stale = {}]
<1>1. d.state = AwaitingRemoval
  BY Zenon DEF Session
<1>2. CloseSocket(d, FALSE).state = AwaitingRemoval
  <2>1. CloseSocket(d, FALSE).state = d.state
    BY Zenon DEF CloseSocket, Session
  <2> QED BY <1>1, <2>1
<1> HIDE DEF d
<1>3. AwaitingRemoval # Connected /\ "none" # Connected
  BY DEF AwaitingRemoval, Connected
<1> QED BY <1>2, <1>3 DEF CancelSession, Listening, d

\* A flush is quiet: the view already counts what was waiting.
LEMMA QuietFlush ==
    ASSUME NEW c \in Session
    PROVE  IsQuiet(c, FlushDataMessages(c))
<1> DEFINE d == [c EXCEPT !.debouncing = FALSE, !.outstanding = <<>>]
           e == [c EXCEPT !.debouncing = FALSE]
           msg == [type |-> "data", data |-> c.outstanding]
<1>1. IsQuiet(c, d) /\ IsQuiet(c, e) /\ IsQuiet(c, c)
  BY Zenon DEF IsQuiet, Listening, Session
<1>2. d \in Session
  <2>1. <<>> \in Seq(DataMessage)
    OBVIOUS
  <2> QED BY <2>1, Zenon DEF Session
<1> HIDE DEF d, e, msg
<1>3. IsQuiet(c, SendOnSocket(d, msg))
  BY <1>1, <1>2, QuietSendOnSocket, QuietTransitive
<1> QED BY <1>1, <1>3 DEF FlushDataMessages, d, e, msg

\* Messages that are not data are quiet.
LEMMA QuietSendMessage ==
    ASSUME NEW c \in Session, NEW msg
    PROVE  IsQuiet(c, SendMessage(c, msg))
<1>1. IsQuiet(c, c) /\ IsQuiet(c, CancelSession(c))
  BY CanceledIsDeaf DEF IsQuiet
<1>2. IsQuiet(c, SendOnSocket(c, msg))
  BY QuietSendOnSocket
<1>3. IsQuiet(c, SendOnSocket(FlushDataMessages(c), msg))
  BY QuietFlush, FlushDataMessagesType, QuietSendOnSocket, QuietTransitive
<1> QED BY <1>1, <1>2, <1>3 DEF SendMessage

\* What a session that still listens after sendMessage has been told.
LEMMA ViewAfterSendData ==
    ASSUME NEW c \in Session, NEW msgs, NEW diff, msgs # <<>>,
           Listening(SendData(c, msgs, diff))
    PROVE  /\ Listening(c)
           /\ SendData(c, msgs, diff).stale = c.stale
           /\ SendData(c, msgs, diff).view = ApplyNetworkDiff(c.view, diff)
<1> DEFINE d == SendData(c, msgs, diff)
<1>1. Listening(c)
  BY CanceledIsDeaf DEF SendData, Listening
<1>2. \/ d = [c EXCEPT !.outstanding = @ \o msgs,
                       !.view = ApplyNetworkDiff(@, diff)]
      \/ d = [c EXCEPT !.debouncing = TRUE,
                       !.outstanding = @ \o Tail(msgs),
                       !.wire = Append(@, [type |-> "data",
                                           data |-> <<Head(msgs)>>]),
                       !.view = ApplyNetworkDiff(@, diff)]
  BY <1>1 DEF SendData, Listening
<1> HIDE DEF d
<1>3. d.stale = c.stale /\ d.view = ApplyNetworkDiff(c.view, diff)
  BY <1>2, Zenon DEF Session
<1> QED BY <1>1, <1>3 DEF d

\* Data messages that name no document record are quiet.
LEMMA QuietSendData ==
    ASSUME NEW c \in Session, NEW msgs, NEW diff, DOMAIN diff \cap Ids = {}
    PROVE  IsQuiet(c, SendData(c, msgs, diff))
<1>1. CASE msgs = <<>>
  BY <1>1 DEF SendData, IsQuiet
<1>2. CASE msgs # <<>>
  <2> SUFFICES ASSUME Listening(SendData(c, msgs, diff))
               PROVE  /\ Listening(c)
                      /\ SendData(c, msgs, diff).stale = c.stale
                      /\ \A id \in Ids :
                           SendData(c, msgs, diff).view[id] = c.view[id]
    BY DEF IsQuiet
  <2>1. \A id \in Ids : ApplyNetworkDiff(c.view, diff)[id] = c.view[id]
    <3>1. DOMAIN c.view = RecordIds
      BY Zenon DEF Session
    <3> QED BY <3>1 DEF ApplyNetworkDiff, RecordIds
  <2> QED BY <1>2, <2>1, ViewAfterSendData
<1> QED BY <1>1, <1>2

\* A removed session is no longer connected.
LEMMA RemovedIsDeaf ==
    ASSUME NEW c, NEW fatal
    PROVE  ~Listening(RemovedSession(c, fatal))
<1>1. RemovedSession(c, fatal).state = "none"
  BY DEF RemovedSession, NoSession
<1> QED BY <1>1 DEF Listening, Connected

AllQuiet(sess, next) == \A s \in SessionIds : IsQuiet(sess[s], next[s])

\* A broadcast that names no document record is quiet.
LEMMA QuietBroadcast ==
    ASSUME NEW sess \in Sessions, NEW diff, DOMAIN diff \cap Ids = {},
           NEW source
    PROVE  AllQuiet(sess, BroadcastPatch(sess, diff, source))
<1>1. \A s \in SessionIds : /\ sess[s] \in Session
                            /\ IsQuiet(sess[s], sess[s])
  BY DEF Sessions, IsQuiet
<1> QED BY <1>1, QuietSendData DEF AllQuiet, BroadcastPatch

\* removeSession tells the others of a presence record only.
LEMMA QuietRemoveSession ==
    ASSUME NEW sess \in Sessions, NEW docs, NEW s \in SessionIds,
           NEW fatal \in BOOLEAN
    PROVE  AllQuiet(sess, RemoveSession(sess, docs, s, fatal))
<1> DEFINE gone == PresenceOf(sess[s], docs)
           rest == [sess EXCEPT ![s] = RemovedSession(@, fatal)]
<1>1. rest \in Sessions
  BY RemovedSessionType DEF Sessions
<1>2. AllQuiet(sess, rest)
  BY RemovedIsDeaf DEF AllQuiet, IsQuiet, Sessions
<1>3. DOMAIN RemovalOf(gone) \cap Ids = {}
  BY IdsAssumption, PresenceOfType DEF RemovalOf
<1> HIDE DEF gone, rest
<1>4. AllQuiet(rest, BroadcastPatch(rest, RemovalOf(gone), s))
  BY <1>1, <1>3, QuietBroadcast
<1>5. AllQuiet(sess, BroadcastPatch(rest, RemovalOf(gone), s))
  BY <1>2, <1>4, QuietTransitive DEF AllQuiet
<1> QED BY <1>2, <1>5 DEF RemoveSession, gone, rest

\* rejectSession tells the others of a presence record only.
LEMMA QuietRejectSession ==
    ASSUME NEW sess \in Sessions, NEW docs, NEW s \in SessionIds,
           NEW fatal \in BOOLEAN
    PROVE  AllQuiet(sess, RejectSession(sess, docs, s, fatal))
<1> DEFINE msg == [type |-> "incompatibility_error"]
           told == [sess EXCEPT ![s] = SendOnSocket(@, msg)]
<1>1. told \in Sessions
  <2>1. msg \in ServerMessage
    BY DEF ServerMessage
  <2> QED BY <2>1, SendOnSocketType DEF Sessions
<1>2. AllQuiet(sess, told)
  BY QuietSendOnSocket DEF AllQuiet, IsQuiet, Sessions
<1> HIDE DEF told
<1>3. AllQuiet(told, RemoveSession(told, docs, s, FALSE))
  BY <1>1, QuietRemoveSession
<1>4. AllQuiet(sess, RemoveSession(told, docs, s, FALSE))
  BY <1>2, <1>3, QuietTransitive DEF AllQuiet
<1>5. AllQuiet(sess, RemoveSession(sess, docs, s, fatal))
  BY QuietRemoveSession
<1> QED BY <1>4, <1>5 DEF RejectSession, told

-----------------------------------------------------------------------------
(***************************************************************************)
(* The clocks of records and tombstones tell the truth.                    *)
(*                                                                         *)
(* DocsInSync is not inductive: what handleConnectRequest sends is right   *)
(* only if lastChangedClock and the tombstones are, which is HistorySound, *)
(* and HistorySound survives a pruning only because a tombstone marks a    *)
(* record that is gone, which is TombstonesAreDead.                        *)
(***************************************************************************)
RecordsInv == TypeOK /\ TombstonesAreDead /\ HistorySound

DocumentsUnchanged ==
    /\ \A id \in Ids : documents'[id] = documents[id]
    /\ UNCHANGED <<tombstones, clock, hist, forgotten>>

\* Clocks stay right when no document record changes.
LEMMA DocumentsUnchangedKeepsInv ==
    ASSUME RecordsInv, DocumentsUnchanged
    PROVE  TombstonesAreDead' /\ HistorySound'
<1>1. TombstonesAreDead'
  BY DEF RecordsInv, DocumentsUnchanged, TombstonesAreDead, Tombstoned
<1>2. \A id \in Ids : ChangedAt(id)' = ChangedAt(id)
  BY DEF DocumentsUnchanged, ChangedAt
<1>3. HistorySound'
  BY <1>2 DEF RecordsInv, DocumentsUnchanged, HistorySound
<1> QED BY <1>1, <1>3

\* What a step of the clock adds to the history.
LEMMA ClockStep ==
    ASSUME TypeOK, IncrementClock, ExtendHistory
    PROVE  /\ clock \in Nat /\ clock' = clock + 1
           /\ \A k \in 0..clock : hist'[k] = hist[k]
           /\ \A id \in Ids : hist'[clock'][id] = documents'[id].state
BY DEF TypeOK, IncrementClock, ExtendHistory

\* The clock of a record's last change is a clock.
LEMMA ChangedAtType ==
    ASSUME TypeOK, NEW id \in Ids
    PROVE  ChangedAt(id) \in Nat
<1>1. documents[id] \in DocumentState
  BY DEF TypeOK, RecordIds
<1>2. /\ documents[id].lastChangedClock \in Nat
      /\ tombstones[id] \in Nat \cup {NoClock}
      /\ forgotten[id] \in Nat
  BY <1>1 DEF TypeOK, DocumentState
<1> QED BY <1>2 DEF ChangedAt

\* A push stamps what it changes with the new clock, and nothing else.
LEMMA PushKeepsHistory ==
    ASSUME RecordsInv, IncrementClock, NEW ops \in NetworkDiff,
           ApplyPush(ops) \/ RollbackPush(ops), ExtendHistory,
           UNCHANGED forgotten
    PROVE  TombstonesAreDead' /\ HistorySound'
<1> USE DEF RecordsInv
<1>1. /\ clock \in Nat /\ clock' = clock + 1
      /\ \A k \in 0..clock : hist'[k] = hist[k]
      /\ \A id \in Ids : hist'[clock'][id] = documents'[id].state
  BY ClockStep
<1>2. ASSUME NEW id \in Ids
      PROVE  /\ \/ /\ documents'[id] = documents[id]
                   /\ tombstones'[id] = tombstones[id]
                \/ /\ documents'[id].state # Absent
                   /\ documents'[id].lastChangedClock = clock'
                   /\ tombstones'[id] = NoClock
                \/ /\ documents'[id].state = Absent
                   /\ tombstones'[id] = clock'
             /\ tombstones[id] # NoClock =>
                  documents[id].state = Absent /\ tombstones[id] <= clock
  <2>1. tombstones[id] # NoClock =>
          documents[id].state = Absent /\ tombstones[id] <= clock
    BY DEF TombstonesAreDead, Tombstoned
  <2>2. CASE RollbackPush(ops)
    BY <2>1, <2>2 DEF RollbackPush
  <2>3. CASE ApplyPush(ops) /\ id \notin Changed(ops)
    BY <2>1, <2>3 DEF ApplyPush, TombstonesAfter, Removed, RecordIds
  <2>4. CASE ApplyPush(ops) /\ id \in Changed(ops)
    <3>1. /\ documents'[id] =
               [state |-> Outcome(ops)[id],
                lastChangedClock |->
                  IF Outcome(ops)[id] = Absent THEN 0 ELSE clock']
          /\ tombstones'[id] =
               IF id \in Removed(ops) THEN clock'
               ELSE IF documents[id].state = Absent THEN NoClock
               ELSE tombstones[id]
      BY <2>4 DEF ApplyPush, TombstonesAfter, RecordIds
    <3>2. id \in Removed(ops) <=> Outcome(ops)[id] = Absent
      BY <2>4 DEF Removed
    <3> QED BY <2>1, <3>1, <3>2
  <2> QED BY <2>2, <2>3, <2>4
<1>3. TombstonesAreDead'
  <2> SUFFICES ASSUME NEW id \in Ids, tombstones'[id] # NoClock
               PROVE  /\ documents'[id].state = Absent
                      /\ tombstones'[id] <= clock'
    BY DEF TombstonesAreDead, Tombstoned
  <2>1. tombstones[id] \in Nat \cup {NoClock}
    BY DEF TypeOK
  <2> QED BY <1>1, <1>2, <2>1
<1>4. ASSUME NEW id \in Ids
      PROVE  /\ ChangedAt(id)' <= clock'
             /\ \A k \in (ChangedAt(id)')..clock' :
                  hist'[k][id] = documents'[id].state
  <2>1. CASE /\ documents'[id] = documents[id]
             /\ tombstones'[id] = tombstones[id]
    <3>1. ChangedAt(id)' = ChangedAt(id)
      BY <2>1 DEF ChangedAt
    <3>2. /\ ChangedAt(id) <= clock
          /\ \A k \in ChangedAt(id)..clock : hist[k][id] = documents[id].state
      BY DEF HistorySound
    <3>3. ChangedAt(id) \in Nat
      BY ChangedAtType
    <3> QED BY <1>1, <2>1, <3>1, <3>2, <3>3
  <2>2. CASE ChangedAt(id)' = clock'
    BY <1>1, <2>2
  <2>3. \/ ChangedAt(id)' = clock'
        \/ /\ documents'[id] = documents[id]
           /\ tombstones'[id] = tombstones[id]
    BY <1>1, <1>2 DEF ChangedAt, NoClock
  <2> QED BY <2>1, <2>2, <2>3
<1> QED BY <1>3, <1>4 DEF HistorySound

\* A dropped tombstone's clock moves to forgotten.
LEMMA PruneTombstonesKeepsHistory ==
    ASSUME RecordsInv, PruneTombstones
    PROVE  TombstonesAreDead' /\ HistorySound'
<1> USE DEF RecordsInv
<1>1. PICK keep \in SUBSET Tombstoned :
        /\ tombstones' = [id \in Ids |->
             IF id \in keep THEN tombstones[id] ELSE NoClock]
        /\ forgotten' = [id \in Ids |->
             IF id \in Tombstoned \ keep THEN tombstones[id]
             ELSE forgotten[id]]
  BY DEF PruneTombstones, KeptTombstones
<1>2. UNCHANGED <<documents, clock, hist>>
  BY DEF PruneTombstones
<1>3. TombstonesAreDead'
  BY <1>1, <1>2 DEF TombstonesAreDead, Tombstoned
<1>4. ASSUME NEW id \in Ids
      PROVE  ChangedAt(id)' = ChangedAt(id)
  BY <1>1, <1>2 DEF ChangedAt, TombstonesAreDead, Tombstoned
<1>5. HistorySound'
  BY <1>2, <1>4 DEF HistorySound
<1> QED BY <1>3, <1>5

-----------------------------------------------------------------------------
(***************************************************************************)
(* Connecting brings a client up to date.                                  *)
(***************************************************************************)
LEMMA HydrationBringsUpToDate ==
    ASSUME RecordsInv, NEW c, c.presenceId \in PresenceIds \cup {NoPresence},
           NEW k \in Nat, NEW id \in Ids, id \notin ForgottenSince(k)
    PROVE  ApplyNetworkDiff(BaseView(k), Hydration(c, k))[id]
             = documents[id].state
<1> USE DEF RecordsInv
<1> DEFINE puts == IF WipesAll(k) THEN Present \ {c.presenceId}
                   ELSE {i \in Present :
                           \/ documents[i].lastChangedClock > k
                           \/ i \in PresenceIds \ {c.presenceId}}
           removes == IF WipesAll(k) THEN {}
                      ELSE {i \in Ids : tombstones[i] > k}
           diff == Hydration(c, k)
           result == ApplyNetworkDiff(BaseView(k), diff)
<1>1. id \in RecordIds /\ id \notin PresenceIds /\ id # c.presenceId
  BY IdsAssumption, RoomAssumption DEF RecordIds
<1>2. /\ DOMAIN diff = puts \cup removes
      /\ id \in removes => diff[id] = RemoveOp
      /\ id \in puts \ removes => diff[id] = PutOp(documents[id].state)
  BY DEF Hydration
<1>3. /\ documents[id].lastChangedClock \in Nat
      /\ tombstones[id] \in Nat \cup {NoClock}
      /\ forgotten[id] \in Nat
      /\ clock \in Nat
  <2>1. documents[id] \in DocumentState
    BY <1>1 DEF TypeOK
  <2> QED BY <2>1 DEF TypeOK, DocumentState
<1>4. /\ id \notin DOMAIN diff => result[id] = BaseView(k)[id]
      /\ id \in DOMAIN diff => result[id] = ApplyOp(BaseView(k)[id], diff[id])
  <2>1. DOMAIN BaseView(k) = RecordIds
    BY DEF BaseView
  <2> QED BY <1>1, <2>1 DEF ApplyNetworkDiff
<1>5. ASSUME NEW r, NEW cur
      PROVE  ApplyOp(cur, PutOp(r)) = r /\ ApplyOp(cur, RemoveOp) = Absent
  BY DEF ApplyOp, PutOp, RemoveOp
<1>6. tombstones[id] # NoClock => documents[id].state = Absent
  BY DEF TombstonesAreDead, Tombstoned
<1> SUFFICES result[id] = documents[id].state
  OBVIOUS
<1> HIDE DEF diff, result
<1>7. CASE id \in removes
  <2>1. tombstones[id] # NoClock
    BY <1>3, <1>7 DEF NoClock
  <2> HIDE DEF removes, puts
  <2> QED BY <1>2, <1>4, <1>5, <1>6, <1>7, <2>1
<1>8. CASE id \in puts \ removes
  <2> HIDE DEF removes, puts
  <2> QED BY <1>2, <1>4, <1>5, <1>8
<1>9. CASE id \notin puts \cup removes
  <2>1. result[id] = BaseView(k)[id]
    <3> HIDE DEF removes, puts
    <3> QED BY <1>2, <1>4, <1>9
  <2>2. CASE WipesAll(k)
    BY <1>1, <1>9, <2>1, <2>2 DEF BaseView, Present
  <2>3. CASE ~WipesAll(k)
    <3>1. k \in 0..clock
      BY <1>3, <2>3 DEF WipesAll
    <3>2. ChangedAt(id) <= k
      BY <1>1, <1>3, <1>9, <2>3, <3>1
         DEF ChangedAt, Present, ForgottenSince, NoClock
    <3>3. hist[k][id] = documents[id].state
      <4>1. ChangedAt(id) \in Nat
        BY ChangedAtType
      <4> QED BY <1>3, <3>1, <3>2, <4>1 DEF HistorySound
    <3>4. BaseView(k)[id] = hist[k][id]
      BY <1>1, <2>3 DEF BaseView
    <3> QED BY <2>1, <3>3, <3>4
  <2> QED BY <2>2, <2>3
<1> QED BY <1>7, <1>8, <1>9

-----------------------------------------------------------------------------
(***************************************************************************)
(* Sessions stay in sync.                                                  *)
(***************************************************************************)
RoomInv == RecordsInv /\ DocsInSync

\* Steps that change no document record and tell nobody of one.
LEMMA QuietStepKeepsSync ==
    ASSUME RoomInv, \A id \in Ids : documents'[id] = documents[id],
           AllQuiet(sessions, sessions')
    PROVE  DocsInSync'
BY DEF RoomInv, DocsInSync, Synced, AllQuiet, IsQuiet, Listening

\* A session in sync stays so in a quiet step.
LEMMA QuietToSync ==
    ASSUME NEW c, NEW d, NEW docs, IsQuiet(c, d), Synced(c, docs)
    PROVE  Synced(d, docs)
BY DEF IsQuiet, Synced

\* What handlePushRequest tells a session is what the push did.
LEMMA PushTellsSession ==
    ASSUME TypeOK, NEW ops \in NetworkDiff, ApplyPush(ops),
           NEW c \in Session, Synced(c, documents),
           NEW ids, Ids \subseteq ids, NEW msgs, msgs # <<>>
    PROVE  Synced(SendData(c, msgs, ActualChanges(ops, ids)), documents')
<1> DEFINE diff == ActualChanges(ops, ids)
           d == SendData(c, msgs, diff)
<1> SUFFICES ASSUME Listening(d), NEW id \in Ids \ d.stale
             PROVE  d.view[id] = documents'[id].state
  BY DEF Synced
<1>1. /\ Listening(c)
      /\ d.stale = c.stale
      /\ d.view = ApplyNetworkDiff(c.view, diff)
  BY ViewAfterSendData
<1>2. id \in RecordIds /\ id \in ids
  BY DEF RecordIds
<1>3. c.view[id] = documents[id].state
  BY <1>1 DEF Synced
<1>4. DOMAIN c.view = RecordIds
  BY Zenon DEF Session
<1>5. /\ DOMAIN diff = Changed(ops) \cap ids
      /\ id \in Changed(ops) =>
           diff[id] = OpBetween(documents[id].state, Outcome(ops)[id])
  BY <1>2 DEF ActualChanges
<1>6. /\ documents[id].state \in MaybeRecord
      /\ Outcome(ops)[id] \in MaybeRecord
  BY <1>2, OutcomeType DEF TypeOK, DocumentState
<1> HIDE DEF diff, d
<1>7. d.view[id] = IF id \in Changed(ops)
                     THEN ApplyOp(documents[id].state, diff[id])
                     ELSE documents[id].state
  BY <1>1, <1>2, <1>3, <1>4, <1>5 DEF ApplyNetworkDiff
<1>8. documents'[id].state = IF id \in Changed(ops) THEN Outcome(ops)[id]
                             ELSE documents[id].state
  BY <1>2 DEF ApplyPush, TombstonesAfter
<1> QED BY <1>5, <1>6, <1>7, <1>8, OpBetweenApplies

\* A broadcast tells every other session what the push did.
LEMMA BroadcastTellsSessions ==
    ASSUME TypeOK, NEW ops \in NetworkDiff, ApplyPush(ops),
           NEW sess \in Sessions, NEW source, NEW ids, Ids \subseteq ids,
           NEW s \in SessionIds, s # source, Synced(sess[s], documents)
    PROVE  Synced(BroadcastPatch(sess, ActualChanges(ops, ids), source)[s],
                  documents')
<1> DEFINE diff == ActualChanges(ops, ids)
<1>1. BroadcastPatch(sess, diff, source)[s]
        = SendData(sess[s], <<PatchMessage(diff)>>, diff)
  BY DEF BroadcastPatch
<1>2. <<PatchMessage(diff)>> # <<>>
  OBVIOUS
<1>3. sess[s] \in Session
  BY DEF Sessions
<1> QED BY <1>1, <1>2, <1>3, PushTellsSession

\* A push without actual changes leaves the records as they were.
LEMMA NothingChanged ==
    ASSUME TypeOK, NEW ops, ApplyPush(ops), Changed(ops) = {}
    PROVE  documents' = documents
BY DEF ApplyPush, TombstonesAfter, TypeOK

\* A push brings its sender and every other session up to date.
LEMMA HandlePushRequestKeepsSync ==
    ASSUME RoomInv, NEW s \in SessionIds,
           NEW diff \in DocDiffs,
           NEW presence \in PresencePushes,
           NEW clientClock \in Nat,
           HandlePushRequest(s, diff, presence, clientClock)
    PROVE  TombstonesAreDead' /\ HistorySound' /\ DocsInSync'
<1> USE DEF RoomInv, RecordsInv
<1> DEFINE ops == PushedOps(sessions[s], diff, presence)
           docChanges == ActualChanges(ops, Ids)
           result == PushResult(diff, docChanges, clientClock)
           answered == [sessions EXCEPT ![s] =
                          SendData(@, <<result>>, docChanges)]
<1>1. /\ IncrementClock
      /\ ApplyPush(ops) \/ RollbackPush(ops)
      /\ ExtendHistory
      /\ UNCHANGED forgotten
  BY DEF HandlePushRequest
<1>2. \/ /\ ApplyPush(ops)
         /\ sessions' =
              IF Changed(ops) = {} THEN answered
              ELSE BroadcastPatch(answered, ActualChanges(ops, RecordIds), s)
      \/ /\ RollbackPush(ops)
         /\ sessions' =
              RejectSession(sessions, DocumentsAtFailure(ops), s, TRUE)
  BY DEF HandlePushRequest
<1>3. ops \in NetworkDiff
  BY PushedOpsType
<1>4. clock' \in Nat /\ sessions \in Sessions
  BY <1>1 DEF IncrementClock, TypeOK, Sessions
<1> HIDE DEF ops
<1>5. TombstonesAreDead' /\ HistorySound'
  BY <1>1, <1>3, PushKeepsHistory
<1>6. CASE /\ RollbackPush(ops)
           /\ sessions' =
                RejectSession(sessions, DocumentsAtFailure(ops), s, TRUE)
  <2>1. AllQuiet(sessions, sessions')
    BY <1>4, <1>6, QuietRejectSession
  <2> QED BY <1>5, <1>6, <2>1, QuietStepKeepsSync DEF RollbackPush
<1>7. CASE /\ ApplyPush(ops)
           /\ sessions' =
                IF Changed(ops) = {} THEN answered
                ELSE BroadcastPatch(answered, ActualChanges(ops, RecordIds), s)
  <2>1. docChanges \in NetworkDiff
    BY <1>3, ActualChangesType
  <2>2. <<result>> \in Seq(DataMessage) /\ <<result>> # <<>>
    BY <1>4, <2>1, PushResultType
  <2> HIDE DEF docChanges, result
  <2>3. SendData(sessions[s], <<result>>, docChanges) \in Session
    BY <2>1, <2>2, SendDataType DEF TypeOK
  <2>4. /\ answered \in Sessions
        /\ answered[s] = SendData(sessions[s], <<result>>, docChanges)
        /\ \A t \in SessionIds \ {s} : answered[t] = sessions[t]
    BY <1>4, <2>3 DEF Sessions
  <2> HIDE DEF answered
  <2>5. \A t \in SessionIds : Synced(sessions[t], documents)
    BY DEF DocsInSync
  <2>6. Synced(answered[s], documents')
    <3>1. sessions[s] \in Session
      BY DEF TypeOK
    <3>2. Synced(SendData(sessions[s], <<result>>, ActualChanges(ops, Ids)),
                 documents')
      BY <1>3, <1>7, <2>2, <2>5, <3>1, PushTellsSession
    <3> QED BY <2>4, <3>2 DEF docChanges
  <2>7. sessions'[s] = answered[s]
    BY <1>7 DEF BroadcastPatch
  <2>8. ASSUME NEW t \in SessionIds \ {s}
        PROVE  Synced(sessions'[t], documents')
    <3>1. CASE Changed(ops) = {}
      BY <1>7, <2>4, <2>5, <3>1, NothingChanged
    <3>2. CASE Changed(ops) # {}
      <4>1. Ids \subseteq RecordIds
        BY DEF RecordIds
      <4> QED BY <1>3, <1>7, <2>4, <2>5, <3>2, <4>1, BroadcastTellsSessions
    <3> QED BY <3>1, <3>2
  <2> QED BY <1>5, <2>6, <2>7, <2>8 DEF DocsInSync
<1> QED BY <1>2, <1>6, <1>7

\* A quiet step that leaves document records and their clocks alone.
LEMMA QuietStepKeepsInv ==
    ASSUME RoomInv, DocumentsUnchanged, AllQuiet(sessions, sessions')
    PROVE  TombstonesAreDead' /\ HistorySound' /\ DocsInSync'
BY DocumentsUnchangedKeepsInv, QuietStepKeepsSync
   DEF RoomInv, DocumentsUnchanged

\* Removing presence records is no change of document records.
LEMMA PresenceRemovalLeavesDocuments ==
    ASSUME TypeOK, NEW ids \in SUBSET PresenceIds, ClocksUnchanged,
           documents' = WithoutRecords(documents, ids)
    PROVE  DocumentsUnchanged
<1>1. \A id \in Ids : id \in RecordIds /\ id \notin ids
  BY IdsAssumption DEF RecordIds
<1> QED BY <1>1 DEF DocumentsUnchanged, WithoutRecords, ClocksUnchanged

\* An updateStore tells every session what it changed.
LEMMA CommitUpdateStoreKeepsSync ==
    ASSUME RoomInv, NEW target \in StoreTargets, CommitUpdateStore(target)
    PROVE  TombstonesAreDead' /\ HistorySound' /\ DocsInSync'
<1> USE DEF RoomInv, RecordsInv
<1> DEFINE ops == ToDiff(storeUpdate, target)
<1>1. ops \in NetworkDiff
  <2>1. storeUpdate \in [Ids -> MaybeRecord]
    BY DEF CommitUpdateStore, TypeOK
  <2> QED BY <2>1, RoomAssumption, ToDiffType
<1>2. UNCHANGED forgotten
  BY DEF CommitUpdateStore
<1>3. \/ UNCHANGED <<documents, tombstones, clock, sessions, hist>>
      \/ /\ IncrementClock
         /\ ExtendHistory
         /\ \/ /\ ApplyPush(ops)
               /\ sessions' =
                    IF Changed(ops) = {} THEN sessions
                    ELSE BroadcastPatch(sessions, ActualChanges(ops, Ids),
                                        NoPresence)
            \/ RollbackPush(ops) /\ UNCHANGED sessions
  BY DEF CommitUpdateStore
<1> HIDE DEF ops
<1>4. AllQuiet(sessions, sessions)
  BY DEF AllQuiet, IsQuiet
<1>5. CASE UNCHANGED <<documents, tombstones, clock, sessions, hist>>
  <2>1. DocumentsUnchanged
    BY <1>2, <1>5 DEF DocumentsUnchanged
  <2>2. AllQuiet(sessions, sessions')
    BY <1>4, <1>5
  <2> QED BY <2>1, <2>2, QuietStepKeepsInv
<1>6. CASE IncrementClock /\ ExtendHistory /\ RollbackPush(ops)
           /\ UNCHANGED sessions
  <2>1. TombstonesAreDead' /\ HistorySound'
    BY <1>1, <1>2, <1>6, PushKeepsHistory
  <2>2. AllQuiet(sessions, sessions')
    BY <1>4, <1>6
  <2>3. \A id \in Ids : documents'[id] = documents[id]
    BY <1>6 DEF RollbackPush
  <2> QED BY <2>1, <2>2, <2>3, QuietStepKeepsSync
<1>7. CASE /\ IncrementClock
           /\ ExtendHistory
           /\ ApplyPush(ops)
           /\ sessions' =
                IF Changed(ops) = {} THEN sessions
                ELSE BroadcastPatch(sessions, ActualChanges(ops, Ids),
                                    NoPresence)
  <2>1. TombstonesAreDead' /\ HistorySound'
    BY <1>1, <1>2, <1>7, PushKeepsHistory
  <2>2. CASE Changed(ops) = {}
    <3>1. documents' = documents /\ sessions' = sessions
      BY <1>7, <2>2, NothingChanged
    <3> QED BY <1>4, <2>1, <3>1, QuietStepKeepsSync
  <2>3. CASE Changed(ops) # {}
    <3>1. sessions \in Sessions /\ Ids \subseteq Ids
      BY DEF TypeOK, Sessions
    <3>2. ASSUME NEW t \in SessionIds
          PROVE  Synced(sessions'[t], documents')
      <4>1. t # NoPresence /\ Synced(sessions[t], documents)
        BY RoomAssumption DEF DocsInSync
      <4>2. Synced(BroadcastPatch(sessions, ActualChanges(ops, Ids),
                                  NoPresence)[t], documents')
        BY <1>1, <1>7, <3>1, <4>1, BroadcastTellsSessions
      <4> QED BY <1>7, <2>3, <4>2
    <3> QED BY <2>1, <3>2 DEF DocsInSync
  <2> QED BY <2>2, <2>3
<1> QED BY <1>3, <1>5, <1>6, <1>7

\* A session that has just connected knows the document records.
LEMMA HandleConnectRequestKeepsSync ==
    ASSUME RoomInv, NEW s \in SessionIds, NEW k \in Nat, NEW version,
           NEW schemaOk, NEW reqId \in Nat,
           HandleConnectRequest(s, k, version, schemaOk, reqId)
    PROVE  TombstonesAreDead' /\ HistorySound' /\ DocsInSync'
<1> USE DEF RoomInv, RecordsInv
<1> DEFINE c == [sessions[s] EXCEPT
                   !.requiresLegacyRejection = version \in {5, 6}]
           diff == Hydration(c, k)
           view == ApplyNetworkDiff(BaseView(k), diff)
           joined == [c EXCEPT !.state = Connected,
                               !.debouncing = FALSE, !.outstanding = <<>>,
                               !.view = view, !.stale = ForgottenSince(k)]
           msg == [type |-> "connect",
                   hydrationType |-> IF WipesAll(k) THEN "wipe_all"
                                     ELSE "wipe_presence",
                   diff |-> diff, serverClock |-> clock,
                   connectRequestId |-> reqId, isReadonly |-> c.isReadonly]
           gone == PresenceOf(c, documents)
           known == [sessions EXCEPT ![s] = c]
<1>1. ClocksUnchanged
  BY DEF HandleConnectRequest
<1>2. \/ /\ sessions' = [sessions EXCEPT ![s] = SendMessage(joined, msg)]
         /\ UNCHANGED documents
      \/ /\ sessions' = RejectSession(known, documents, s, TRUE)
         /\ documents' = WithoutRecords(documents, gone)
  BY DEF HandleConnectRequest
<1>3. sessions[s] \in Session
  BY DEF TypeOK
<1>4. c \in Session
  <2>1. (version \in {5, 6}) \in BOOLEAN
    OBVIOUS
  <2> QED BY <1>3, <2>1, Zenon DEF Session
<1>5. c.presenceId \in PresenceIds \cup {NoPresence}
  BY <1>4, Zenon DEF Session
<1>6. IsQuiet(sessions[s], c)
  BY <1>3, Zenon DEF IsQuiet, Listening, Session
<1>7. diff \in NetworkDiff
  BY HydrationType
<1>8. \A id \in Ids \ ForgottenSince(k) : view[id] = documents[id].state
  BY <1>5, HydrationBringsUpToDate
<1>9. view \in [RecordIds -> MaybeRecord]
  BY <1>7, BaseViewType, ApplyNetworkDiffType
<1>10. ForgottenSince(k) \in SUBSET Ids
  BY DEF ForgottenSince
<1>11. gone \in SUBSET PresenceIds
  BY PresenceOfType
<1> HIDE DEF c, diff, view, msg, gone
<1>12. joined \in Session
  <2>1. <<>> \in Seq(DataMessage)
    OBVIOUS
  <2> QED BY <1>4, <1>9, <1>10, <2>1, Zenon DEF Session
<1>13. joined.view = view /\ joined.stale = ForgottenSince(k)
  BY <1>4, Zenon DEF Session
<1>14. Synced(joined, documents)
  <2> HIDE DEF joined
  <2> QED BY <1>8, <1>13 DEF Synced
<1> HIDE DEF joined
<1>15. CASE /\ sessions' = [sessions EXCEPT ![s] = SendMessage(joined, msg)]
            /\ UNCHANGED documents
  <2>1. DocumentsUnchanged
    BY <1>1, <1>15 DEF DocumentsUnchanged, ClocksUnchanged
  <2>2. Synced(SendMessage(joined, msg), documents)
    BY <1>12, <1>14, QuietSendMessage, QuietToSync
  <2>3. \A t \in SessionIds : Synced(sessions'[t], documents')
    BY <1>15, <2>2 DEF DocsInSync, TypeOK
  <2> QED BY <2>1, <2>3, DocumentsUnchangedKeepsInv DEF DocsInSync
<1>16. CASE /\ sessions' = RejectSession(known, documents, s, TRUE)
            /\ documents' = WithoutRecords(documents, gone)
  <2>1. DocumentsUnchanged
    BY <1>1, <1>11, <1>16, PresenceRemovalLeavesDocuments
  <2>2. known \in Sessions /\ AllQuiet(sessions, known)
    BY <1>4, <1>6 DEF TypeOK, Sessions, AllQuiet, IsQuiet
  <2>3. AllQuiet(known, sessions')
    BY <1>16, <2>2, QuietRejectSession
  <2>4. AllQuiet(sessions, sessions')
    BY <2>2, <2>3, QuietTransitive DEF AllQuiet
  <2> QED BY <2>1, <2>4, QuietStepKeepsInv
<1> QED BY <1>2, <1>15, <1>16

\* A session that has not sent its connect request hears nothing.
LEMMA HandleNewSessionKeepsSync ==
    ASSUME RoomInv, NEW s \in SessionIds, NEW isReadonly,
           HandleNewSession(s, isReadonly)
    PROVE  TombstonesAreDead' /\ HistorySound' /\ DocsInSync'
<1> USE DEF RoomInv, RecordsInv
<1>1. PICK presenceId :
           sessions' = [sessions EXCEPT ![s] =
             [NoSession EXCEPT !.state = AwaitingConnectMessage,
                               !.presenceId = presenceId,
                               !.isReadonly = isReadonly,
                               !.open = TRUE]]
  BY DEF HandleNewSession
<1>2. [NoSession EXCEPT !.state = AwaitingConnectMessage,
                        !.presenceId = presenceId,
                        !.isReadonly = isReadonly,
                        !.open = TRUE].state = AwaitingConnectMessage
  BY Zenon DEF NoSession
<1>3. ~Listening(sessions'[s])
  <2>1. sessions'[s].state = AwaitingConnectMessage
    BY <1>1, <1>2 DEF TypeOK
  <2> QED BY <2>1 DEF Listening, Connected, AwaitingConnectMessage
<1>4. \A t \in SessionIds \ {s} : sessions'[t] = sessions[t]
  BY <1>1 DEF TypeOK
<1>5. AllQuiet(sessions, sessions')
  BY <1>3, <1>4 DEF AllQuiet, IsQuiet
<1>6. DocumentsUnchanged
  BY DEF HandleNewSession, RecordsUnchanged, DocumentsUnchanged
<1> QED BY <1>5, <1>6, QuietStepKeepsInv

\* Pings, timers, closings and deliveries tell a session of no record.
LEMMA QuietSessionOps ==
    ASSUME TypeOK, NEW s \in SessionIds,
           \/ HandlePing(s) \/ FlushTimer(s) \/ HandleClose(s)
           \/ Deliver(s) \/ SocketCloses(s)
    PROVE  AllQuiet(sessions, sessions') /\ DocumentsUnchanged
<1>1. sessions[s] \in Session /\ sessions \in Sessions
  BY DEF TypeOK, Sessions
<1>2. DocumentsUnchanged
  BY DEF HandlePing, FlushTimer, HandleClose, Deliver, SocketCloses,
         RecordsUnchanged, DocumentsUnchanged
<1>3. ASSUME NEW d, IsQuiet(sessions[s], d), sessions' = [sessions EXCEPT ![s] = d]
      PROVE  AllQuiet(sessions, sessions')
  BY <1>1, <1>3 DEF AllQuiet, IsQuiet, Sessions
<1>4. CASE HandlePing(s)
  BY <1>1, <1>2, <1>3, <1>4, QuietSendMessage DEF HandlePing
<1>5. CASE FlushTimer(s)
  BY <1>1, <1>2, <1>3, <1>5, QuietFlush DEF FlushTimer
<1>6. CASE HandleClose(s)
  <2>1. IsQuiet(sessions[s], CancelSession(sessions[s]))
    BY <1>1, CanceledIsDeaf DEF IsQuiet
  <2> QED BY <1>2, <1>3, <1>6, <2>1 DEF HandleClose
<1>7. CASE Deliver(s)
  <2>1. IsQuiet(sessions[s], [sessions[s] EXCEPT !.wire = Tail(@)])
    BY <1>1, Zenon DEF IsQuiet, Listening, Session
  <2> QED BY <1>2, <1>3, <1>7, <2>1 DEF Deliver
<1>8. CASE SocketCloses(s)
  <2> DEFINE d == [sessions[s] EXCEPT !.open = FALSE, !.wire = <<>>]
  <2>1. d.open = FALSE
    BY <1>1, Zenon DEF Session
  <2>2. sessions' = [sessions EXCEPT ![s] = d]
    BY <1>1, <1>8 DEF SocketCloses, Sessions
  <2> HIDE DEF d
  <2>3. IsQuiet(sessions[s], d)
    BY <2>1 DEF IsQuiet, Listening
  <2> QED BY <1>2, <1>3, <2>2, <2>3
<1> QED BY <1>4, <1>5, <1>6, <1>7, <1>8

\* Ejecting a session tells the others of its presence record only.
LEMMA CloseSessionKeepsSync ==
    ASSUME RoomInv, NEW s \in SessionIds, NEW fatal \in BOOLEAN,
           CloseSession(s, fatal)
    PROVE  TombstonesAreDead' /\ HistorySound' /\ DocsInSync'
<1> USE DEF RoomInv, RecordsInv
<1>1. AllQuiet(sessions, sessions')
  <2>1. sessions \in Sessions
    BY DEF TypeOK, Sessions
  <2> QED BY <2>1, QuietRejectSession DEF CloseSession
<1>2. DocumentsUnchanged
  BY PresenceOfType, PresenceRemovalLeavesDocuments DEF CloseSession
<1> QED BY <1>1, <1>2, QuietStepKeepsInv

\* What a pass of pruneSessions sends is about presence records.
LEMMA QuietSendRemovals ==
    ASSUME NEW c \in Session, NEW order, NEW n,
           \A i \in 1..n : order[i] \in PresenceIds
    PROVE  IsQuiet(c, SendRemovals(c, order, n))
<1> DEFINE ids == {order[i] : i \in 1..n}
           msgs == [i \in 1..n |-> PatchMessage(RemovalOf({order[i]}))]
<1>1. DOMAIN RemovalOf(ids) \cap Ids = {}
  BY IdsAssumption DEF RemovalOf
<1> HIDE DEF ids, msgs
<1>2. IsQuiet(c, SendData(c, msgs, RemovalOf(ids)))
  BY <1>1, QuietSendData
<1> QED BY <1>2 DEF SendRemovals, ids, msgs

\* pruneSessions tells the sessions of presence records only.
LEMMA PruneSessionsKeepsSync ==
    ASSUME RoomInv, NEW timedOut \in SUBSET SessionIds, PruneSessions(timedOut)
    PROVE  TombstonesAreDead' /\ HistorySound' /\ DocsInSync'
<1> USE DEF RoomInv, RecordsInv
<1> DEFINE Expired(s) == s \in timedOut \/ ~sessions[s].open
           canceled == {s \in SessionIds :
                          sessions[s].state = Connected /\ Expired(s)}
           removed == {s \in SessionIds :
                         \/ sessions[s].state = AwaitingConnectMessage
                            /\ Expired(s)
                         \/ sessions[s].state = AwaitingRemoval
                            /\ s \in timedOut}
           gone == UNION {PresenceOf(sessions[s], documents) : s \in removed}
<1>1. PICK order \in Orders(gone),
           seen \in [canceled -> 0..Cardinality(gone)] :
        sessions' = [s \in SessionIds |->
           IF s \in removed THEN RemovedSession(sessions[s], FALSE)
           ELSE IF s \in canceled
             THEN CancelSession(SendRemovals(sessions[s], order, seen[s]))
           ELSE SendRemovals(sessions[s], order, Cardinality(gone))]
  BY DEF PruneSessions
<1>2. ClocksUnchanged /\ documents' = WithoutRecords(documents, gone)
  BY DEF PruneSessions
<1>3. clock' \in Nat
  BY <1>2 DEF ClocksUnchanged, TypeOK
<1>4. gone \in SUBSET PresenceIds /\ Cardinality(gone) \in Nat
  BY FinitelyManyGone
<1> HIDE DEF removed, canceled, gone
<1>5. DocumentsUnchanged
  BY <1>2, <1>4, PresenceRemovalLeavesDocuments
<1>6. ASSUME NEW s \in SessionIds
      PROVE  IsQuiet(sessions[s], sessions'[s])
  <2>1. sessions[s] \in Session
    BY DEF TypeOK
  <2>2. CASE s \in removed
    BY <1>1, <2>2, RemovedIsDeaf DEF IsQuiet
  <2>3. CASE s \notin removed /\ s \in canceled
    <3>1. seen[s] \in 0..Cardinality(gone)
      BY <2>3
    <3>2. \A i \in 1..seen[s] : order[i] \in RecordIds
      BY <1>4, <3>1 DEF Orders, RecordIds
    <3>3. SendRemovals(sessions[s], order, seen[s]) \in Session
      BY <1>3, <1>4, <2>1, <3>1, <3>2, SendRemovalsType
    <3>4. ~Listening(CancelSession(SendRemovals(sessions[s], order, seen[s])))
      BY <3>3, CanceledIsDeaf
    <3> QED BY <1>1, <2>3, <3>4 DEF IsQuiet
  <2>4. CASE s \notin removed /\ s \notin canceled
    <3>1. \A i \in 1..Cardinality(gone) : order[i] \in PresenceIds
      BY <1>4 DEF Orders
    <3> QED BY <1>1, <2>1, <2>4, <3>1, QuietSendRemovals
  <2> QED BY <2>2, <2>3, <2>4
<1> QED BY <1>5, <1>6, QuietStepKeepsInv DEF AllQuiet

\* Closing the room sends no records.
LEMMA CloseKeepsSync ==
    ASSUME RoomInv, Close
    PROVE  TombstonesAreDead' /\ HistorySound' /\ DocsInSync'
<1> USE DEF RoomInv, RecordsInv
<1>1. ASSUME NEW s \in SessionIds
      PROVE  IsQuiet(sessions[s], sessions'[s])
  <2>1. sessions[s] \in Session
    BY DEF TypeOK
  <2>2. sessions'[s] = sessions[s]
          \/ sessions'[s] = CloseSocket(sessions[s], FALSE)
    BY DEF Close
  <2>3. /\ IsQuiet(sessions[s], sessions[s])
        /\ IsQuiet(sessions[s], CloseSocket(sessions[s], FALSE))
    BY <2>1, QuietCloseSocket DEF IsQuiet
  <2> QED BY <2>2, <2>3
<1>2. DocumentsUnchanged
  BY DEF Close, RecordsUnchanged, DocumentsUnchanged
<1> QED BY <1>1, <1>2, QuietStepKeepsInv DEF AllQuiet

\* A room starts with the invariant.
LEMMA InitRoomInv == Init => RoomInv
<1> SUFFICES ASSUME Init PROVE RoomInv
  OBVIOUS
<1>1. TypeOK
  BY InitType
<1>2. PICK docs \in InitialDocs :
        /\ documents = [id \in RecordIds |->
                          [state |-> IF id \in Ids THEN docs[id] ELSE Absent,
                           lastChangedClock |-> 0]]
        /\ hist = [k \in {0} |-> docs]
  BY DEF Init
<1>3. /\ clock = 0
      /\ tombstones = [id \in Ids |-> NoClock]
      /\ forgotten = [id \in Ids |-> 0]
      /\ sessions = [s \in SessionIds |-> NoSession]
  BY DEF Init
<1>4. TombstonesAreDead
  BY <1>3 DEF TombstonesAreDead, Tombstoned
<1>5. HistorySound
  <2>1. ASSUME NEW id \in Ids
        PROVE  /\ ChangedAt(id) = 0
               /\ hist[0][id] = documents[id].state
    <3>1. documents[id] = [state |-> docs[id], lastChangedClock |-> 0]
      BY <1>2 DEF RecordIds
    <3> QED BY <1>2, <1>3, <3>1 DEF ChangedAt
  <2>2. ASSUME NEW id \in Ids, NEW k \in ChangedAt(id)..clock
        PROVE  hist[k][id] = documents[id].state
    <3>1. k = 0
      BY <1>3, <2>1, <2>2
    <3> QED BY <2>1, <3>1
  <2>3. \A id \in Ids : ChangedAt(id) <= clock
    <3>1. 0 <= clock
      BY <1>3
    <3> QED BY <2>1, <3>1, Zenon
  <2> QED BY <2>2, <2>3 DEF HistorySound
<1>6. DocsInSync
  <2>1. NoSession.state # Connected
    BY DEF NoSession, Connected
  <2> QED BY <1>3, <2>1 DEF DocsInSync, Synced, Listening
<1> QED BY <1>1, <1>4, <1>5, <1>6 DEF RoomInv, RecordsInv

\* Every step keeps the invariant.
LEMMA NextRoomInv ==
    ASSUME RoomInv, [OpenNext]_vars
    PROVE  RoomInv'
<1>1. TypeOK'
  BY NextType DEF RoomInv, RecordsInv
<1> DEFINE Kept == TombstonesAreDead' /\ HistorySound' /\ DocsInSync'
<1> SUFFICES Kept
  BY <1>1 DEF RoomInv, RecordsInv
<1>2. ASSUME NEW s \in SessionIds, OpenSessionNext(s)
      PROVE  Kept
  <2>1. ASSUME NEW isReadonly \in BOOLEAN, HandleNewSession(s, isReadonly)
        PROVE  Kept
    BY <2>1, HandleNewSessionKeepsSync
  <2>2. ASSUME NEW k \in Nat, NEW version,
               NEW schemaOk \in BOOLEAN, NEW reqId \in Nat,
               HandleConnectRequest(s, k, version, schemaOk, reqId)
        PROVE  Kept
    <3>1. k \in Nat
      BY RoomAssumption
    <3> QED BY <2>2, <3>1, HandleConnectRequestKeepsSync
  <2>3. ASSUME NEW diff \in DocDiffs,
               NEW presence \in PresencePushes,
               NEW clientClock \in Nat,
               HandlePushRequest(s, diff, presence, clientClock)
        PROVE  Kept
    BY <2>3, HandlePushRequestKeepsSync
  <2>4. ASSUME NEW fatal \in BOOLEAN, CloseSession(s, fatal)
        PROVE  Kept
    BY <2>4, CloseSessionKeepsSync
  <2>5. CASE \/ HandlePing(s) \/ FlushTimer(s) \/ HandleClose(s)
             \/ Deliver(s) \/ SocketCloses(s)
    BY <2>5, QuietSessionOps, QuietStepKeepsInv DEF RoomInv, RecordsInv
  <2> QED BY <1>2, <2>1, <2>2, <2>3, <2>4, <2>5 DEF OpenSessionNext
<1>3. ASSUME NEW target \in StoreTargets, CommitUpdateStore(target)
      PROVE  Kept
  BY <1>3, CommitUpdateStoreKeepsSync
<1>4. ASSUME NEW timedOut \in SUBSET SessionIds, PruneSessions(timedOut)
      PROVE  Kept
  BY <1>4, PruneSessionsKeepsSync
<1>5. CASE PruneTombstones
  <2>1. TombstonesAreDead' /\ HistorySound'
    BY <1>5, PruneTombstonesKeepsHistory DEF RoomInv
  <2>2. UNCHANGED <<documents, sessions>>
    BY <1>5 DEF PruneTombstones
  <2>3. DocsInSync'
    BY <2>2 DEF RoomInv, DocsInSync, Synced
  <2> QED BY <2>1, <2>3
<1>6. CASE Close
  BY <1>6, CloseKeepsSync
<1>7. CASE BeginUpdateStore \/ UNCHANGED vars
  <2>1. DocumentsUnchanged
    BY <1>7 DEF BeginUpdateStore, vars, DocumentsUnchanged
  <2>2. AllQuiet(sessions, sessions')
    BY <1>7 DEF BeginUpdateStore, vars, AllQuiet, IsQuiet
  <2> QED BY <2>1, <2>2, QuietStepKeepsInv
<1> HIDE DEF Kept
<1> QED BY <1>2, <1>3, <1>4, <1>5, <1>6, <1>7 DEF OpenNext

\* The inductive invariant holds in every environment.
LEMMA OpenRoomCorrect == OpenSpec => []RoomInv
<1>1. Init => RoomInv
  BY InitRoomInv
<1>2. RoomInv /\ [OpenNext]_vars => RoomInv'
  BY NextRoomInv
<1> QED BY <1>1, <1>2, PTL DEF OpenSpec

\* The inductive invariant holds of every reachable state of the room.
THEOREM RoomCorrect == Spec => []RoomInv
BY OpenRoomCorrect, SpecIsOpen, PTL

\* handleConnectRequest, handlePushRequest, broadcastPatch and updateStore
\* keep every session up to date with the room's document records, whatever
\* clock it connected with and however messages are grouped, but for records
\* whose deletion pruneTombstones had forgotten before it connected.
THEOREM SessionsInSync == Spec => []DocsInSync
<1>1. RoomInv => DocsInSync
  BY DEF RoomInv
<1> QED BY <1>1, RoomCorrect, PTL

\* The lastChangedClock of a record and the clock of a tombstone are right
\* after every handler, rollback and pruning: no document record was different
\* at any clock since.
THEOREM HistoryCorrect == Spec => []HistorySound
<1>1. RoomInv => HistorySound
  BY DEF RoomInv, RecordsInv
<1> QED BY <1>1, RoomCorrect, PTL

\* A tombstone is never newer than the clock and never hides a record that
\* addDocument has brought back.
THEOREM TombstonesCorrect == Spec => []TombstonesAreDead
<1>1. RoomInv => TombstonesAreDead
  BY DEF RoomInv, RecordsInv
<1> QED BY <1>1, RoomCorrect, PTL

\* handleConnectRequest's wipe_presence diff brings a client that has the
\* document records of any past clock up to date, but for forgotten deletions.
THEOREM ReconnectCorrect == Spec => []ReconnectSound
<1>1. ASSUME RoomInv PROVE ReconnectSound
  <2>1. NoSession.presenceId \in PresenceIds \cup {NoPresence}
    BY DEF NoSession
  <2>2. \A k \in 0..clock : k \in Nat
    BY <1>1 DEF RoomInv, RecordsInv, TypeOK
  <2> QED BY <1>1, <2>1, <2>2, HydrationBringsUpToDate
          DEF RoomInv, ReconnectSound
<1>2. RoomInv => ReconnectSound
  BY <1>1
<1> QED BY <1>2, RoomCorrect, PTL

-----------------------------------------------------------------------------
(***************************************************************************)
(* What a step does to the document records and their clocks.              *)
(***************************************************************************)
DocumentsLeftAlone ==
    /\ \A id \in Ids : documents'[id] = documents[id]
    /\ UNCHANGED <<tombstones, clock, documentClock, pruneScheduled>>

\* A push by a session, or by the updateStore that commits.
Pushes(ops) ==
    /\ IncrementClock
    /\ ApplyPush(ops) \/ RollbackPush(ops)
    /\ \/ UNCHANGED storeUpdate
       \/ /\ storeUpdate # NoUpdate
          /\ \E target \in StoreTargets : ops = ToDiff(storeUpdate, target)

RecordStep ==
    \/ DocumentsLeftAlone
    \/ PruneTombstones
    \/ \E ops \in NetworkDiff : Pushes(ops)

\* Every step leaves the document records alone, prunes tombstones or pushes.
LEMMA RecordSteps ==
    ASSUME TypeOK, [OpenNext]_vars
    PROVE  RecordStep
<1> USE DEF RecordStep
<1>1. ASSUME NEW ids \in SUBSET PresenceIds, ClocksUnchanged,
             documents' = WithoutRecords(documents, ids)
      PROVE  RecordStep
  <2>1. DocumentsUnchanged
    BY <1>1, PresenceRemovalLeavesDocuments
  <2> QED BY <1>1, <2>1
          DEF ClocksUnchanged, DocumentsLeftAlone, DocumentsUnchanged
<1>2. ASSUME RecordsUnchanged PROVE RecordStep
  BY <1>2 DEF RecordsUnchanged, DocumentsLeftAlone
<1>3. ASSUME NEW s \in SessionIds, OpenSessionNext(s)
      PROVE  RecordStep
  <2>1. ASSUME NEW isReadonly \in BOOLEAN, HandleNewSession(s, isReadonly)
        PROVE  RecordStep
    BY <1>2, <2>1 DEF HandleNewSession
  <2>2. ASSUME NEW k \in Nat, NEW version,
               NEW schemaOk \in BOOLEAN, NEW reqId \in Nat,
               HandleConnectRequest(s, k, version, schemaOk, reqId)
        PROVE  RecordStep
    <3> DEFINE c == [sessions[s] EXCEPT
                       !.requiresLegacyRejection = version \in {5, 6}]
    <3>1. /\ ClocksUnchanged
          /\ \/ UNCHANGED documents
             \/ documents' = WithoutRecords(documents, PresenceOf(c, documents))
      BY <2>2 DEF HandleConnectRequest
    <3> HIDE DEF c
    <3>2. CASE UNCHANGED documents
      BY <3>1, <3>2 DEF ClocksUnchanged, DocumentsLeftAlone
    <3> QED BY <1>1, <3>1, <3>2, PresenceOfType
  <2>3. ASSUME NEW diff \in DocDiffs,
               NEW presence \in PresencePushes,
               NEW clientClock \in Nat,
               HandlePushRequest(s, diff, presence, clientClock)
        PROVE  RecordStep
    <3>1. PushedOps(sessions[s], diff, presence) \in NetworkDiff
      BY PushedOpsType
    <3>2. Pushes(PushedOps(sessions[s], diff, presence))
      BY <2>3 DEF HandlePushRequest, Pushes
    <3> QED BY <3>1, <3>2
  <2>4. ASSUME NEW fatal \in BOOLEAN, CloseSession(s, fatal)
        PROVE  RecordStep
    BY <1>1, <2>4, PresenceOfType DEF CloseSession
  <2>5. CASE \/ HandlePing(s) \/ FlushTimer(s) \/ HandleClose(s)
             \/ Deliver(s) \/ SocketCloses(s)
    BY <1>2, <2>5 DEF HandlePing, FlushTimer, HandleClose, Deliver, SocketCloses
  <2> HIDE DEF RecordStep
  <2> QED BY <1>3, <2>1, <2>2, <2>3, <2>4, <2>5 DEF OpenSessionNext
<1>4. ASSUME NEW target \in StoreTargets, CommitUpdateStore(target)
      PROVE  RecordStep
  <2> DEFINE ops == ToDiff(storeUpdate, target)
  <2>1. ops \in NetworkDiff
    <3>1. storeUpdate \in [Ids -> MaybeRecord]
      BY <1>4 DEF CommitUpdateStore, TypeOK
    <3> QED BY <3>1, RoomAssumption, ToDiffType
  <2>2. DocumentsLeftAlone \/ Pushes(ops)
    BY <1>4 DEF CommitUpdateStore, DocumentsLeftAlone, Pushes
  <2> QED BY <2>1, <2>2
<1>5. ASSUME NEW timedOut \in SUBSET SessionIds, PruneSessions(timedOut)
      PROVE  RecordStep
  <2>1. PICK removed \in SUBSET SessionIds :
          /\ ClocksUnchanged
          /\ documents' =
               WithoutRecords(documents,
                              UNION {PresenceOf(sessions[s], documents) :
                                       s \in removed})
    BY <1>5 DEF PruneSessions
  <2> QED BY <1>1, <2>1, FinitelyManyGone
<1>6. CASE PruneTombstones
  BY <1>6
<1>7. CASE Close
  BY <1>2, <1>7 DEF Close
<1>8. CASE BeginUpdateStore \/ UNCHANGED vars
  BY <1>8 DEF BeginUpdateStore, vars, DocumentsLeftAlone
<1> HIDE DEF RecordStep
<1> QED BY <1>3, <1>4, <1>5, <1>6, <1>7, <1>8 DEF OpenNext

-----------------------------------------------------------------------------
(***************************************************************************)
(* The clock of the document records.                                      *)
(***************************************************************************)
ClocksInv == TypeOK /\ documentClock <= clock

\* documentClock never runs ahead of the room's clock.
LEMMA NextClocksInv ==
    ASSUME ClocksInv, [OpenNext]_vars
    PROVE  ClocksInv'
<1>1. TypeOK'
  BY NextType DEF ClocksInv
<1>2. clock \in Nat /\ documentClock \in Nat /\ documentClock <= clock
  BY DEF ClocksInv, TypeOK
<1>3. CASE DocumentsLeftAlone \/ PruneTombstones
  BY <1>1, <1>2, <1>3 DEF ClocksInv, DocumentsLeftAlone, PruneTombstones
<1>4. ASSUME NEW ops \in NetworkDiff, Pushes(ops)
      PROVE  ClocksInv'
  <2>1. clock' = clock + 1
    BY <1>4 DEF Pushes, IncrementClock
  <2>2. documentClock' = clock' \/ documentClock' = documentClock
    BY <1>4 DEF Pushes, ApplyPush, RollbackPush
  <2> QED BY <1>1, <1>2, <2>1, <2>2 DEF ClocksInv
<1> QED BY <1>3, <1>4, RecordSteps DEF RecordStep, ClocksInv

\* documentClock changes exactly when document records do.
LEMMA StepDocumentClock ==
    ASSUME ClocksInv, [OpenNext]_vars
    PROVE  (documentClock' # documentClock) <=>
             (\E id \in Ids : documents'[id] # documents[id])
<1>1. clock \in Nat /\ documentClock \in Nat /\ documentClock <= clock
  BY DEF ClocksInv, TypeOK
<1>2. CASE DocumentsLeftAlone \/ PruneTombstones
  BY <1>2 DEF DocumentsLeftAlone, PruneTombstones
<1>3. ASSUME NEW ops \in NetworkDiff, Pushes(ops)
      PROVE  (documentClock' # documentClock) <=>
               (\E id \in Ids : documents'[id] # documents[id])
  <2>1. clock' = clock + 1 /\ clock' # documentClock
    BY <1>1, <1>3 DEF Pushes, IncrementClock
  <2>2. CASE RollbackPush(ops)
    BY <2>2 DEF RollbackPush
  <2>3. CASE ApplyPush(ops)
    <3>1. ASSUME NEW id \in Ids
          PROVE  documents'[id] # documents[id] <=> id \in Changed(ops)
      <4>1. CASE id \in Changed(ops)
        <5>1. documents'[id].state = Outcome(ops)[id]
          BY <2>3, <4>1 DEF ApplyPush, TombstonesAfter, RecordIds
        <5>2. Outcome(ops)[id] # documents[id].state
          BY <4>1 DEF Changed
        <5> QED BY <4>1, <5>1, <5>2
      <4>2. CASE id \notin Changed(ops)
        BY <2>3, <4>2 DEF ApplyPush, TombstonesAfter, RecordIds
      <4> QED BY <4>1, <4>2
    <3>2. documentClock' = IF Changed(ops) \cap Ids # {} THEN clock'
                           ELSE documentClock
      BY <2>3 DEF ApplyPush
    <3> QED BY <2>1, <3>1, <3>2
  <2> QED BY <1>3, <2>2, <2>3 DEF Pushes
<1> QED BY <1>2, <1>3, RecordSteps DEF RecordStep, ClocksInv

\* TLSocketRoom persists a room when documentClock has changed: in every step
\* of the room that is exactly when a document record has, whatever a push
\* does to presence records and whether or not it is rolled back.
THEOREM DocumentClockCorrect == Spec => DocumentClockTracksDocuments
<1>1. Init => ClocksInv
  <2> SUFFICES ASSUME Init PROVE ClocksInv
    OBVIOUS
  <2>1. clock = 0 /\ documentClock = 0
    BY DEF Init
  <2> QED BY <2>1, InitType DEF ClocksInv
<1>2. ClocksInv /\ [OpenNext]_vars => ClocksInv'
  BY NextClocksInv
<1>3. ClocksInv /\ [OpenNext]_vars =>
        [(documentClock' # documentClock) <=>
           (\E id \in Ids : documents'[id] # documents[id])]_vars
  BY StepDocumentClock
<1> QED BY <1>1, <1>2, <1>3, SpecIsOpen, PTL DEF OpenSpec, DocumentClockTracksDocuments

\* The commit of an updateStore writes what its updater changed and nothing
\* that only its snapshot held.
LEMMA StepNoStaleWriteBack ==
    ASSUME TypeOK, [OpenNext]_vars, storeUpdate # NoUpdate, storeUpdate' = NoUpdate,
           NEW id \in Ids, documents'[id].state # documents[id].state
    PROVE  documents'[id].state # storeUpdate[id]
<1>1. PICK ops \in NetworkDiff : Pushes(ops)
  BY RecordSteps DEF RecordStep, DocumentsLeftAlone, PruneTombstones
<1>2. PICK target \in StoreTargets : ops = ToDiff(storeUpdate, target)
  BY <1>1 DEF Pushes
<1>3. ApplyPush(ops) /\ id \in Changed(ops)
  BY <1>1 DEF Pushes, ApplyPush, RollbackPush, TombstonesAfter, RecordIds
<1>4. documents'[id].state = Outcome(ops)[id] /\ id \in DOMAIN ops
  BY <1>3 DEF ApplyPush, TombstonesAfter, Changed, RecordIds
<1>5. /\ target[id] # storeUpdate[id]
      /\ ops[id] = IF target[id] = Absent THEN RemoveOp ELSE PutOp(target[id])
  BY <1>2, <1>4 DEF ToDiff
<1>6. Outcome(ops)[id] = ApplyOp(documents[id].state, ops[id])
  BY <1>4 DEF Outcome, StatesOf, ApplyNetworkDiff, RecordIds
<1>7. Outcome(ops)[id] = target[id]
  BY <1>5, <1>6 DEF ApplyOp, RemoveOp, PutOp
<1> QED BY <1>4, <1>5, <1>7

\* Whatever sessions do to a record while an updateStore awaits its updater is
\* kept by the commit, unless the updater itself changed that record.
THEOREM NoStaleWriteBackCorrect == Spec => NoStaleWriteBack
<1>1. TypeOK /\ [OpenNext]_vars =>
        [storeUpdate # NoUpdate /\ storeUpdate' = NoUpdate =>
           \A id \in Ids : documents'[id].state # documents[id].state =>
             documents'[id].state # storeUpdate[id]]_vars
  BY StepNoStaleWriteBack
<1> QED BY <1>1, TypeCorrect, SpecIsOpen, PTL DEF OpenSpec, NoStaleWriteBack

-----------------------------------------------------------------------------
(***************************************************************************)
(* Too many tombstones.                                                    *)
(***************************************************************************)
\* Every step keeps a pruning scheduled for as long as one is needed.
LEMMA NextTombstonesBounded ==
    ASSUME IsFiniteSet(Ids), TypeOK, TombstonesBounded, [OpenNext]_vars
    PROVE  TombstonesBounded'
<1>1. Tombstoned \in SUBSET Ids
  BY DEF Tombstoned
<1>2. CASE DocumentsLeftAlone
  BY <1>2 DEF DocumentsLeftAlone, TombstonesBounded, Tombstoned
<1>3. CASE PruneTombstones
  <2>1. PICK keep \in KeptTombstones :
          tombstones' = [id \in Ids |-> IF id \in keep THEN tombstones[id]
                                        ELSE NoClock]
    BY <1>3 DEF PruneTombstones
  <2>2. keep \in SUBSET Tombstoned /\ Cardinality(keep) <= MAX_TOMBSTONES
    <3>1. CASE Cardinality(Tombstoned) <= MAX_TOMBSTONES
      BY <2>1, <3>1 DEF KeptTombstones
    <3>2. CASE ~(Cardinality(Tombstoned) <= MAX_TOMBSTONES)
      <4>1. /\ keep \in SUBSET Tombstoned
            /\ Cardinality(keep) =
                 IF MAX_TOMBSTONES <= TOMBSTONE_PRUNE_BUFFER_SIZE THEN 0
                 ELSE MAX_TOMBSTONES - TOMBSTONE_PRUNE_BUFFER_SIZE
        BY <2>1, <3>2 DEF KeptTombstones
      <4> QED BY <4>1, RoomAssumption
    <3> QED BY <3>1, <3>2
  <2>3. Tombstoned' = keep
    BY <2>1, <2>2 DEF Tombstoned
  <2>4. Cardinality(keep) \in Nat
    BY <1>1, <2>2, FS_Subset, FS_CardinalityType
  <2> QED BY <2>2, <2>3, <2>4, RoomAssumption DEF TombstonesBounded
<1>4. ASSUME NEW ops \in NetworkDiff, Pushes(ops)
      PROVE  TombstonesBounded'
  <2>1. CASE RollbackPush(ops)
    BY <2>1 DEF RollbackPush, TombstonesBounded, Tombstoned
  <2>2. CASE ApplyPush(ops) /\ Removed(ops) # {}
    BY <2>2 DEF ApplyPush, TombstonesBounded
  <2>3. CASE ApplyPush(ops) /\ Removed(ops) = {}
    <3>1. Tombstoned' \subseteq Tombstoned
      BY <2>3 DEF ApplyPush, TombstonesAfter, Tombstoned
    <3>2. pruneScheduled' = pruneScheduled
      BY <2>3 DEF ApplyPush, TypeOK
    <3>3. IsFiniteSet(Tombstoned)
      BY <1>1, FS_Subset
    <3>4. /\ Cardinality(Tombstoned') <= Cardinality(Tombstoned)
          /\ Cardinality(Tombstoned') \in Nat
          /\ Cardinality(Tombstoned) \in Nat
      BY <3>1, <3>3, FS_Subset, FS_CardinalityType
    <3> QED BY <3>2, <3>4, RoomAssumption DEF TombstonesBounded
  <2> QED BY <1>4, <2>1, <2>2, <2>3 DEF Pushes
<1> QED BY <1>2, <1>3, <1>4, RecordSteps DEF RecordStep

\* There are never more than MAX_TOMBSTONES tombstones without a pruning to
\* come: however many records a push removes, and whatever it brings back,
\* removeDocument has scheduled pruneTombstones, and a pruning leaves few
\* enough.
THEOREM TombstonesBoundedCorrect ==
    ASSUME IsFiniteSet(Ids)
    PROVE  Spec => []TombstonesBounded
<1>1. Init => TombstonesBounded
  <2> SUFFICES ASSUME Init PROVE TombstonesBounded
    OBVIOUS
  <2>1. Tombstoned = {}
    BY DEF Init, Tombstoned
  <2> QED BY <2>1, FS_EmptySet, RoomAssumption DEF TombstonesBounded
<1>2. TypeOK /\ TombstonesBounded /\ [OpenNext]_vars => TombstonesBounded'
  BY NextTombstonesBounded
<1> QED BY <1>1, <1>2, TypeCorrect, SpecIsOpen, PTL DEF OpenSpec

-----------------------------------------------------------------------------
(***************************************************************************)
(* The order of the messages that a session gets.                          *)
(*                                                                         *)
(* ClocksInOrder is not inductive: a message is in order because no clock  *)
(* sent before is beyond the room's, and a message that is sent at once    *)
(* overtakes nothing because nothing waits without a timer.                *)
(***************************************************************************)
InOrder(first, later) ==
    /\ first.serverClock <= later.serverClock
    /\ DOMAIN later.diff \cap Ids # {} =>
         \/ first.serverClock < later.serverClock
         \/ later.type = "connect"

Ordered(q) == \A x, y \in DOMAIN q : x < y => InOrder(q[x], q[y])

Before(q, r) == \A x \in DOMAIN q, y \in DOMAIN r : InOrder(q[x], r[y])

UpTo(q, k) == \A x \in DOMAIN q : q[x].serverClock \in 0..k

\* The messages of wire and then those of q are in order and not beyond k.
InOrderUpTo(wire, q, k) ==
    /\ \A i \in DOMAIN wire :
         /\ Ordered(ClockedMessages(wire[i]))
         /\ UpTo(ClockedMessages(wire[i]), k)
         /\ Before(ClockedMessages(wire[i]), q)
         /\ \A j \in DOMAIN wire :
              i < j => Before(ClockedMessages(wire[i]),
                              ClockedMessages(wire[j]))
    /\ Ordered(q)
    /\ UpTo(q, k)

\* Nothing is in order.
LEMMA NothingBefore ==
    ASSUME NEW q
    PROVE  /\ Before(<<>>, q) /\ Before(q, <<>>)
           /\ Ordered(<<>>) /\ \A k : UpTo(<<>>, k)
BY DEF Before, Ordered, UpTo

\* One more message on the wire.
LEMMA AppendInOrder ==
    ASSUME NEW wire \in Seq(ServerMessage), NEW msg \in ServerMessage,
           NEW q, NEW r, NEW k, InOrderUpTo(wire, q, k),
           Ordered(ClockedMessages(msg)), UpTo(ClockedMessages(msg), k),
           Ordered(r), UpTo(r, k), Before(ClockedMessages(msg), r),
           \A i \in DOMAIN wire :
             /\ Before(ClockedMessages(wire[i]), ClockedMessages(msg))
             /\ Before(ClockedMessages(wire[i]), r)
    PROVE  InOrderUpTo(Append(wire, msg), r, k)
<1> DEFINE w == Append(wire, msg)
           n == Len(wire) + 1
<1>1. /\ n \in Nat /\ DOMAIN wire = 1..n - 1 /\ DOMAIN w = 1..n /\ w[n] = msg
      /\ \A i \in 1..n - 1 : w[i] = wire[i]
  OBVIOUS
<1> HIDE DEF w, n
<1>2. ASSUME NEW i \in DOMAIN w
      PROVE  /\ Ordered(ClockedMessages(w[i]))
             /\ UpTo(ClockedMessages(w[i]), k)
             /\ Before(ClockedMessages(w[i]), r)
             /\ \A j \in DOMAIN w :
                  i < j => Before(ClockedMessages(w[i]),
                                  ClockedMessages(w[j]))
  <2>1. CASE i = n
    <3>1. \A j \in DOMAIN w : ~(i < j)
      BY <1>1, <2>1
    <3> QED BY <1>1, <2>1, <3>1
  <2>2. CASE i \in 1..n - 1
    <3>1. ASSUME NEW j \in DOMAIN w, i < j
          PROVE  Before(ClockedMessages(w[i]), ClockedMessages(w[j]))
      <4>1. CASE j = n
        BY <1>1, <2>2, <4>1
      <4>2. CASE j \in 1..n - 1
        BY <1>1, <2>2, <3>1, <4>2 DEF InOrderUpTo
      <4> QED BY <1>1, <4>1, <4>2
    <3> QED BY <1>1, <2>2, <3>1 DEF InOrderUpTo
  <2> QED BY <1>1, <2>1, <2>2
<1> QED BY <1>2 DEF InOrderUpTo, w

\* A message that carries no clock goes anywhere.
LEMMA PlainInOrder ==
    ASSUME NEW wire \in Seq(ServerMessage), NEW msg \in ServerMessage,
           NEW q, NEW k, InOrderUpTo(wire, q, k), ClockedMessages(msg) = <<>>
    PROVE  InOrderUpTo(Append(wire, msg), q, k)
<1>1. \A i \in DOMAIN wire :
        /\ Before(ClockedMessages(wire[i]), ClockedMessages(msg))
        /\ Before(ClockedMessages(wire[i]), q)
  BY NothingBefore DEF InOrderUpTo
<1>2. Ordered(q) /\ UpTo(q, k)
  BY DEF InOrderUpTo
<1> QED BY <1>1, <1>2, NothingBefore, AppendInOrder

\* The messages that wait go out in one message.
LEMMA FlushInOrder ==
    ASSUME NEW wire \in Seq(ServerMessage), NEW q \in Seq(DataMessage),
           NEW k, InOrderUpTo(wire, q, k)
    PROVE  InOrderUpTo(Append(wire, [type |-> "data", data |-> q]), <<>>, k)
<1> DEFINE msg == [type |-> "data", data |-> q]
<1>1. msg \in ServerMessage /\ ClockedMessages(msg) = q
  BY DEF ServerMessage, ClockedMessages
<1>2. \A i \in DOMAIN wire :
        /\ Before(ClockedMessages(wire[i]), ClockedMessages(msg))
        /\ Before(ClockedMessages(wire[i]), <<>>)
  BY <1>1, NothingBefore DEF InOrderUpTo
<1>3. Ordered(q) /\ UpTo(q, k)
  BY DEF InOrderUpTo
<1> HIDE DEF msg
<1>4. InOrderUpTo(Append(wire, msg), <<>>, k)
  BY <1>1, <1>2, <1>3, NothingBefore, AppendInOrder
<1> QED BY <1>4 DEF msg

\* Less is in order.
LEMMA LessInOrder ==
    ASSUME NEW wire \in Seq(ServerMessage), NEW q, NEW k, InOrderUpTo(wire, q, k)
    PROVE  /\ InOrderUpTo(wire, <<>>, k)
           /\ InOrderUpTo(<<>>, q, k)
           /\ InOrderUpTo(<<>>, <<>>, k)
           /\ wire # <<>> => InOrderUpTo(Tail(wire), q, k)
<1>1. InOrderUpTo(wire, <<>>, k) /\ InOrderUpTo(<<>>, <<>>, k)
  BY NothingBefore DEF InOrderUpTo
<1>2. InOrderUpTo(<<>>, q, k)
  BY DEF InOrderUpTo
<1>3. ASSUME wire # <<>> PROVE InOrderUpTo(Tail(wire), q, k)
  <2>1. /\ DOMAIN Tail(wire) = 1..Len(wire) - 1
        /\ DOMAIN wire = 1..Len(wire)
        /\ \A i \in DOMAIN Tail(wire) : Tail(wire)[i] = wire[i + 1]
    BY <1>3
  <2>2. ASSUME NEW i \in DOMAIN Tail(wire)
        PROVE  /\ i + 1 \in DOMAIN wire
               /\ \A j \in DOMAIN Tail(wire) :
                    j + 1 \in DOMAIN wire /\ (i < j => i + 1 < j + 1)
    BY <2>1
  <2> QED BY <2>1, <2>2 DEF InOrderUpTo
<1> QED BY <1>1, <1>2, <1>3

\* Clocks stay within a later clock.
LEMMA LaterInOrder ==
    ASSUME NEW wire, NEW q, NEW k \in Nat, NEW next \in Nat, k <= next,
           InOrderUpTo(wire, q, k)
    PROVE  InOrderUpTo(wire, q, next)
<1>1. ASSUME NEW r, UpTo(r, k) PROVE UpTo(r, next)
  BY <1>1 DEF UpTo
<1> QED BY <1>1 DEF InOrderUpTo

\* Messages with the clock next that can follow all those up to k.
Announces(msgs, k, next) ==
    /\ \A x \in DOMAIN msgs :
         /\ msgs[x].serverClock = next
         /\ k < next \/ DOMAIN msgs[x].diff \cap Ids = {}
    /\ Ordered(msgs)

\* Such messages can wait behind those that wait.
LEMMA QueueInOrder ==
    ASSUME NEW wire \in Seq(ServerMessage), NEW q \in Seq(DataMessage),
           NEW msgs \in Seq(DataMessage),
           NEW k \in Nat, NEW next \in Nat, k <= next,
           InOrderUpTo(wire, q, k), Announces(msgs, k, next)
    PROVE  InOrderUpTo(wire, q \o msgs, next)
<1>1. InOrderUpTo(wire, q, next)
  BY LaterInOrder
<1>2. ASSUME NEW r, UpTo(r, k)
      PROVE  Before(r, msgs)
  <2> SUFFICES ASSUME NEW x \in DOMAIN r, NEW y \in DOMAIN msgs
               PROVE  InOrder(r[x], msgs[y])
    BY DEF Before
  <2>1. r[x].serverClock \in 0..k
    BY <1>2 DEF UpTo
  <2>2. /\ msgs[y].serverClock = next
        /\ k < next \/ DOMAIN msgs[y].diff \cap Ids = {}
    BY DEF Announces
  <2> QED BY <2>1, <2>2 DEF InOrder
<1> DEFINE all == q \o msgs
<1>3. /\ all \in Seq(DataMessage)
      /\ DOMAIN all = 1..Len(q) + Len(msgs)
      /\ DOMAIN q = 1..Len(q) /\ Len(q) \in Nat
      /\ DOMAIN msgs = 1..Len(msgs) /\ Len(msgs) \in Nat
      /\ \A x \in 1..Len(q) : all[x] = q[x]
      /\ \A x \in Len(q) + 1..Len(q) + Len(msgs) :
           all[x] = msgs[x - Len(q)]
  OBVIOUS
<1> HIDE DEF all
<1>4. ASSUME NEW x \in DOMAIN all, x \notin DOMAIN q
      PROVE  /\ x - Len(q) \in DOMAIN msgs
             /\ all[x] = msgs[x - Len(q)]
  <2> DEFINE m == Len(q)
             n == Len(msgs)
  <2>1. m \in Nat /\ n \in Nat /\ x \in 1..m + n /\ x \notin 1..m
    BY <1>3, <1>4
  <2>2. x \in m + 1..m + n /\ x - m \in 1..n
    <3> HIDE DEF m, n
    <3> QED BY <2>1
  <2> QED BY <1>3, <2>2
<1>5. ASSUME NEW r, Before(r, q), UpTo(r, k)
      PROVE  Before(r, all)
  <2> SUFFICES ASSUME NEW x \in DOMAIN r, NEW y \in DOMAIN all
               PROVE  InOrder(r[x], all[y])
    BY DEF Before
  <2>1. CASE y \in DOMAIN q
    BY <1>3, <1>5, <2>1 DEF Before
  <2>2. CASE y \notin DOMAIN q
    BY <1>2, <1>4, <1>5, <2>2 DEF Before
  <2> QED BY <2>1, <2>2
<1>6. Ordered(all)
  <2> SUFFICES ASSUME NEW x \in DOMAIN all, NEW y \in DOMAIN all, x < y
               PROVE  InOrder(all[x], all[y])
    BY DEF Ordered
  <2>1. CASE x \in DOMAIN q /\ y \in DOMAIN q
    BY <1>3, <2>1 DEF InOrderUpTo, Ordered
  <2>2. CASE x \in DOMAIN q /\ y \notin DOMAIN q
    <3>1. UpTo(q, k)
      BY DEF InOrderUpTo
    <3>2. Before(q, msgs)
      BY <1>2, <3>1
    <3> QED BY <1>3, <1>4, <2>2, <3>2 DEF Before
  <2>3. CASE x \notin DOMAIN q
    <3>1. y \notin DOMAIN q
      BY <1>3, <2>3
    <3>2. /\ x - Len(q) \in DOMAIN msgs /\ all[x] = msgs[x - Len(q)]
          /\ y - Len(q) \in DOMAIN msgs /\ all[y] = msgs[y - Len(q)]
      BY <1>4, <2>3, <3>1
    <3>3. x - Len(q) < y - Len(q)
      BY <1>3
    <3>4. Ordered(msgs)
      BY DEF Announces
    <3> QED BY <3>2, <3>3, <3>4 DEF Ordered
  <2> QED BY <2>1, <2>2, <2>3
<1>7. UpTo(all, next)
  <2> SUFFICES ASSUME NEW x \in DOMAIN all
               PROVE  all[x].serverClock \in 0..next
    BY DEF UpTo
  <2>1. CASE x \in DOMAIN q
    BY <1>1, <1>3, <2>1 DEF InOrderUpTo, UpTo
  <2>2. CASE x \notin DOMAIN q
    BY <1>4, <2>2 DEF Announces
  <2> QED BY <2>1, <2>2
<1>8. \A i \in DOMAIN wire : Before(ClockedMessages(wire[i]), all)
  BY <1>5 DEF InOrderUpTo
<1> QED BY <1>1, <1>6, <1>7, <1>8 DEF InOrderUpTo, all

\* Or, when nothing waits, the first of them goes out.
LEMMA HeadInOrder ==
    ASSUME NEW wire \in Seq(ServerMessage), NEW msgs \in Seq(DataMessage),
           msgs # <<>>, NEW k, InOrderUpTo(wire, msgs, k)
    PROVE  InOrderUpTo(Append(wire, [type |-> "data", data |-> <<Head(msgs)>>]),
                       Tail(msgs), k)
<1> DEFINE msg == [type |-> "data", data |-> <<Head(msgs)>>]
           one == <<Head(msgs)>>
           rest == Tail(msgs)
<1>1. /\ one \in Seq(DataMessage) /\ DOMAIN one = {1} /\ one[1] = msgs[1]
      /\ 1 \in DOMAIN msgs
      /\ DOMAIN rest = 1..Len(msgs) - 1
      /\ \A x \in DOMAIN rest : /\ rest[x] = msgs[x + 1]
                                /\ x + 1 \in DOMAIN msgs
                                /\ 1 < x + 1
  OBVIOUS
<1>2. msg \in ServerMessage /\ ClockedMessages(msg) = one
  BY <1>1 DEF ServerMessage, ClockedMessages
<1>3. Ordered(msgs) /\ UpTo(msgs, k)
  BY DEF InOrderUpTo
<1> HIDE DEF msg, one, rest
<1>4. Ordered(one) /\ UpTo(one, k)
  BY <1>1, <1>3 DEF Ordered, UpTo
<1>5. Ordered(rest) /\ UpTo(rest, k) /\ Before(one, rest)
  <2>1. \A x, y \in DOMAIN rest : x < y => x + 1 < y + 1
    BY <1>1
  <2> QED BY <1>1, <1>3, <2>1 DEF Ordered, UpTo, Before
<1>6. ASSUME NEW i \in DOMAIN wire
      PROVE  /\ Before(ClockedMessages(wire[i]), one)
             /\ Before(ClockedMessages(wire[i]), rest)
  <2>1. Before(ClockedMessages(wire[i]), msgs)
    BY DEF InOrderUpTo
  <2> QED BY <1>1, <2>1 DEF Before
<1>7. InOrderUpTo(Append(wire, msg), rest, k)
  BY <1>2, <1>4, <1>5, <1>6, AppendInOrder
<1> QED BY <1>7 DEF msg, rest

\* The answer to a connect request has the clock of the room.
LEMMA ConnectInOrder ==
    ASSUME NEW wire \in Seq(ServerMessage), NEW msg \in ServerMessage,
           NEW k \in Nat, InOrderUpTo(wire, <<>>, k),
           msg.type = "connect", msg.serverClock = k
    PROVE  InOrderUpTo(Append(wire, msg), <<>>, k)
<1>1. ClockedMessages(msg) = <<msg>>
  BY DEF ClockedMessages
<1>2. Ordered(<<msg>>) /\ UpTo(<<msg>>, k)
  BY DEF Ordered, UpTo
<1>3. ASSUME NEW i \in DOMAIN wire
      PROVE  Before(ClockedMessages(wire[i]), <<msg>>)
  <2>1. UpTo(ClockedMessages(wire[i]), k)
    BY DEF InOrderUpTo
  <2> QED BY <2>1 DEF UpTo, Before, InOrder
<1> QED BY <1>1, <1>2, <1>3, NothingBefore, AppendInOrder

\* What is on its way to a session is in order and not beyond the clock k, and
\* what waits has a timer.
Orderly(c, k) ==
    /\ c \in Session
    /\ c.outstanding # <<>> => c.state = Connected /\ c.debouncing
    /\ InOrderUpTo(c.wire, c.outstanding, k)

\* The queues of a session.
LEMMA OrderlyQueues ==
    ASSUME NEW c \in Session
    PROVE  c.wire \in Seq(ServerMessage) /\ c.outstanding \in Seq(DataMessage)
BY Zenon DEF Session

\* A session whose messages do not change, or all go.
LEMMA SameQueues ==
    ASSUME NEW c, NEW k, Orderly(c, k), NEW d \in Session,
           d.wire = c.wire,
           \/ /\ d.outstanding = c.outstanding
              /\ d.state = c.state /\ d.debouncing = c.debouncing
           \/ d.outstanding = <<>>
    PROVE  Orderly(d, k)
<1>1. InOrderUpTo(c.wire, <<>>, k)
  BY OrderlyQueues, LessInOrder DEF Orderly
<1> QED BY <1>1 DEF Orderly

\* The clock advances.
LEMMA LaterOrderly ==
    ASSUME NEW k \in Nat, NEW next \in Nat, k <= next, NEW c, Orderly(c, k)
    PROVE  Orderly(c, next)
BY LaterInOrder DEF Orderly

\* A message that carries no clock.
LEMMA OrderlySendOnSocket ==
    ASSUME NEW c, NEW k, Orderly(c, k), NEW msg \in ServerMessage,
           ClockedMessages(msg) = <<>>
    PROVE  Orderly(SendOnSocket(c, msg), k)
<1> DEFINE d == [c EXCEPT !.wire = Append(@, msg)]
<1>1. c \in Session
  BY DEF Orderly
<1>2. /\ d.wire = Append(c.wire, msg) /\ d.outstanding = c.outstanding
      /\ d.state = c.state /\ d.debouncing = c.debouncing
  BY <1>1, Zenon DEF Session
<1>3. SendOnSocket(c, msg) \in Session
  BY <1>1, SendOnSocketType
<1>4. SendOnSocket(c, msg) \in {c, d}
  BY DEF SendOnSocket
<1>5. InOrderUpTo(Append(c.wire, msg), c.outstanding, k)
  BY <1>1, OrderlyQueues, PlainInOrder DEF Orderly
<1> HIDE DEF d
<1> QED BY <1>2, <1>3, <1>4, <1>5 DEF Orderly

\* The end of the connection.
LEMMA OrderlyCloseSocket ==
    ASSUME NEW c, NEW k, Orderly(c, k), NEW fatal \in BOOLEAN
    PROVE  Orderly(CloseSocket(c, fatal), k)
<1> DEFINE msg == [type |-> "close", fatal |-> fatal]
           d == [c EXCEPT !.open = FALSE, !.wire = Append(@, msg)]
<1>1. c \in Session
  BY DEF Orderly
<1>2. msg \in ServerMessage /\ ClockedMessages(msg) = <<>>
  BY DEF ServerMessage, ClockedMessages
<1>3. d = [c EXCEPT !.open = FALSE,
                    !.wire = Append(@, [type |-> "close", fatal |-> fatal])]
  OBVIOUS
<1>4. CloseSocket(c, fatal) \in {c, d}
  BY <1>3 DEF CloseSocket
<1> HIDE DEF msg
<1>5. /\ d.wire = Append(c.wire, msg) /\ d.outstanding = c.outstanding
      /\ d.state = c.state /\ d.debouncing = c.debouncing
  BY <1>1, Zenon DEF Session
<1>6. CloseSocket(c, fatal) \in Session
  BY <1>1, CloseSocketType
<1>7. InOrderUpTo(Append(c.wire, msg), c.outstanding, k)
  BY <1>1, <1>2, OrderlyQueues, PlainInOrder DEF Orderly
<1> HIDE DEF d
<1> QED BY <1>4, <1>5, <1>6, <1>7 DEF Orderly

\* cancelSession drops the messages that wait.
LEMMA OrderlyCancel ==
    ASSUME NEW c, NEW k, Orderly(c, k)
    PROVE  Orderly(CancelSession(c), k)
<1> DEFINE d == [c EXCEPT !.state = AwaitingRemoval,
                          !.debouncing = FALSE, !.outstanding = <<>>,
                          !.view = NoView, !.stale = {}]
<1>1. c \in Session
  BY DEF Orderly
<1>2. d.outstanding = <<>> /\ d.wire = c.wire
  BY <1>1, Zenon DEF Session
<1>3. d \in Session
  <2>1. <<>> \in Seq(DataMessage) /\ {} \in SUBSET Ids
        /\ NoView \in [RecordIds -> MaybeRecord]
    BY DEF NoView, MaybeRecord
  <2> QED BY <1>1, <2>1, Zenon DEF Session
<1> HIDE DEF d
<1>4. Orderly(d, k)
  BY <1>2, <1>3, SameQueues
<1>5. Orderly(CloseSocket(d, FALSE), k)
  BY <1>4, OrderlyCloseSocket
<1> QED BY <1>5 DEF CancelSession, d

\* A flush sends the messages that wait behind those on the wire.
LEMMA OrderlyFlush ==
    ASSUME NEW c, NEW k, Orderly(c, k)
    PROVE  Orderly(FlushDataMessages(c), k)
<1> DEFINE d == [c EXCEPT !.debouncing = FALSE, !.outstanding = <<>>]
           msg == [type |-> "data", data |-> c.outstanding]
           e == [d EXCEPT !.wire = Append(@, msg)]
<1>1. c \in Session /\ FlushDataMessages(c) \in Session
  BY FlushDataMessagesType DEF Orderly
<1>2. CASE c.state # Connected
  BY <1>2 DEF FlushDataMessages
<1>3. CASE c.state = Connected /\ c.outstanding = <<>>
  <2>1. FlushDataMessages(c) = [c EXCEPT !.debouncing = FALSE]
    BY <1>3 DEF FlushDataMessages
  <2>2. /\ [c EXCEPT !.debouncing = FALSE].wire = c.wire
        /\ [c EXCEPT !.debouncing = FALSE].outstanding = c.outstanding
    BY <1>1, Zenon DEF Session
  <2> QED BY <1>1, <1>3, <2>1, <2>2, SameQueues
<1>4. CASE c.state = Connected /\ c.outstanding # <<>>
  <2>1. FlushDataMessages(c) = IF d.open THEN e ELSE d
    BY <1>4 DEF FlushDataMessages, SendOnSocket
  <2>2. /\ d.wire = c.wire /\ d.outstanding = <<>> /\ d \in Session
    <3>1. <<>> \in Seq(DataMessage)
      OBVIOUS
    <3> QED BY <1>1, <3>1, Zenon DEF Session
  <2> HIDE DEF msg, d
  <2>3. e.wire = Append(d.wire, msg) /\ e.outstanding = d.outstanding
    BY <2>2, Zenon DEF Session
  <2>4. InOrderUpTo(Append(c.wire, msg), <<>>, k)
    BY <1>1, OrderlyQueues, FlushInOrder DEF Orderly, msg
  <2>5. InOrderUpTo(c.wire, <<>>, k)
    BY <1>1, OrderlyQueues, LessInOrder DEF Orderly
  <2> HIDE DEF e
  <2> QED BY <1>1, <2>1, <2>2, <2>3, <2>4, <2>5 DEF Orderly
<1> QED BY <1>2, <1>3, <1>4

\* sendMessage, for a message that carries no clock.
LEMMA OrderlySendPlain ==
    ASSUME NEW c, NEW k, Orderly(c, k), NEW msg \in ServerMessage,
           ClockedMessages(msg) = <<>>
    PROVE  Orderly(SendMessage(c, msg), k)
BY OrderlyCancel, OrderlyFlush, OrderlySendOnSocket DEF SendMessage

\* sendMessage, for the answer to a connect request: nothing waits then.
LEMMA OrderlySendConnect ==
    ASSUME NEW c, NEW k \in Nat, Orderly(c, k), c.outstanding = <<>>,
           NEW msg \in ServerMessage,
           msg.type = "connect", msg.serverClock = k
    PROVE  Orderly(SendMessage(c, msg), k)
<1> DEFINE d == FlushDataMessages(c)
           e == [d EXCEPT !.wire = Append(@, msg)]
<1>1. CASE c.state # Connected \/ ~c.open
  BY <1>1, OrderlyCancel DEF SendMessage
<1>2. CASE c.state = Connected /\ c.open
  <2>1. SendMessage(c, msg) \in {d, e} /\ SendMessage(c, msg) \in Session
    BY <1>2, SendMessageType DEF SendMessage, SendOnSocket, Orderly
  <2>2. Orderly(d, k)
    BY OrderlyFlush
  <2>3. d = [c EXCEPT !.debouncing = FALSE]
    BY <1>2 DEF FlushDataMessages
  <2>4. d.outstanding = <<>>
    <3>1. [c EXCEPT !.debouncing = FALSE].outstanding = c.outstanding
      BY Zenon DEF Orderly, Session
    <3> QED BY <2>3, <3>1
  <2>5. d \in Session
    BY <2>2 DEF Orderly
  <2> HIDE DEF d
  <2>6. e.wire = Append(d.wire, msg) /\ e.outstanding = d.outstanding
    BY <2>5, Zenon DEF Session
  <2>7. InOrderUpTo(Append(d.wire, msg), <<>>, k)
    BY <2>2, <2>4, <2>5, OrderlyQueues, ConnectInOrder DEF Orderly
  <2> HIDE DEF e
  <2> QED BY <2>1, <2>2, <2>4, <2>6, <2>7 DEF Orderly
<1> QED BY <1>1, <1>2

\* sendMessage, for data messages: the first goes out or all wait.
LEMMA OrderlySendData ==
    ASSUME NEW k \in Nat, NEW next \in Nat, k <= next, NEW c, Orderly(c, k),
           NEW msgs \in Seq(DataMessage), Announces(msgs, k, next),
           NEW diff \in NetworkDiff
    PROVE  Orderly(SendData(c, msgs, diff), next)
<1> DEFINE view == ApplyNetworkDiff(c.view, diff)
           out == [type |-> "data", data |-> <<Head(msgs)>>]
           queued == [c EXCEPT !.outstanding = @ \o msgs, !.view = view]
           sent == [c EXCEPT !.debouncing = TRUE,
                             !.outstanding = @ \o Tail(msgs),
                             !.wire = Append(@, out),
                             !.view = view]
<1>1. /\ c \in Session /\ SendData(c, msgs, diff) \in Session
      /\ Orderly(c, next)
  BY SendDataType, LaterOrderly DEF Orderly
<1>2. CASE c.state # Connected \/ msgs = <<>> \/ ~c.open
  BY <1>1, <1>2, OrderlyCancel DEF SendData
<1>3. CASE c.state = Connected /\ msgs # <<>> /\ c.open
  <2>1. SendData(c, msgs, diff) = IF c.debouncing THEN queued ELSE sent
    BY <1>3 DEF SendData
  <2>2. InOrderUpTo(c.wire, c.outstanding \o msgs, next)
    BY <1>1, OrderlyQueues, QueueInOrder DEF Orderly
  <2> HIDE DEF view
  <2>3. CASE c.debouncing
    <3>1. /\ queued.wire = c.wire
          /\ queued.outstanding = c.outstanding \o msgs
          /\ queued.state = c.state
          /\ queued.debouncing = c.debouncing
      BY <1>1, Zenon DEF Session
    <3> HIDE DEF queued
    <3> QED BY <1>1, <1>3, <2>1, <2>2, <2>3, <3>1 DEF Orderly
  <2>4. CASE ~c.debouncing
    <3>1. c.outstanding = <<>> /\ c.outstanding \o msgs = msgs
          /\ c.outstanding \o Tail(msgs) = Tail(msgs)
      <4>1. c.outstanding = <<>>
        BY <2>4 DEF Orderly
      <4>2. Tail(msgs) \in Seq(DataMessage)
        BY <1>3
      <4> QED BY <4>1, <4>2
    <3>2. InOrderUpTo(Append(c.wire, out), Tail(msgs), next)
      BY <1>1, <1>3, <2>2, <3>1, OrderlyQueues, HeadInOrder
    <3> HIDE DEF out
    <3>3. /\ sent.wire = Append(c.wire, out)
          /\ sent.outstanding = c.outstanding \o Tail(msgs)
          /\ sent.state = c.state
          /\ sent.debouncing = TRUE
      BY <1>1, Zenon DEF Session
    <3> HIDE DEF sent
    <3> QED BY <1>1, <1>3, <2>1, <2>4, <3>1, <3>2, <3>3 DEF Orderly
  <2> QED BY <2>3, <2>4
<1> QED BY <1>2, <1>3

\* A removed session keeps what is on its wire.
LEMMA OrderlyRemoved ==
    ASSUME NEW c, NEW k, Orderly(c, k), NEW fatal \in BOOLEAN
    PROVE  Orderly(RemovedSession(c, fatal), k)
<1> DEFINE w == CloseSocket(c, fatal).wire
           d == [NoSession EXCEPT !.wire = w]
<1>1. Orderly(CloseSocket(c, fatal), k)
  BY OrderlyCloseSocket
<1>2. InOrderUpTo(w, <<>>, k)
  BY <1>1, OrderlyQueues, LessInOrder DEF Orderly
<1>3. d \in Session
  BY RemovedSessionType DEF RemovedSession, Orderly
<1> HIDE DEF w
<1>4. d.wire = w /\ d.outstanding = <<>>
  BY DEF NoSession
<1> HIDE DEF d
<1>5. Orderly(d, k)
  BY <1>2, <1>3, <1>4 DEF Orderly
<1> QED BY <1>5 DEF RemovedSession, d, w

AllOrderly(sess, k) == \A s \in SessionIds : Orderly(sess[s], k)

\* A patch has the clock of the step that sends it.
LEMMA PatchAnnounces ==
    ASSUME clock' \in Nat, NEW k \in Nat, NEW diff \in NetworkDiff,
           k < clock' \/ DOMAIN diff \cap Ids = {}
    PROVE  /\ <<PatchMessage(diff)>> \in Seq(DataMessage)
           /\ Announces(<<PatchMessage(diff)>>, k, clock')
<1>1. PatchMessage(diff) \in DataMessage
  BY PatchMessageType
<1>2. PatchMessage(diff).serverClock = clock' /\ PatchMessage(diff).diff = diff
  BY DEF PatchMessage
<1>3. Ordered(<<PatchMessage(diff)>>)
  BY DEF Ordered
<1> QED BY <1>1, <1>2, <1>3 DEF Announces

\* broadcastPatch reaches every session but its source in order.
LEMMA OrderlyBroadcast ==
    ASSUME NEW k \in Nat, clock' \in Nat, k <= clock',
           NEW sess, NEW diff \in NetworkDiff, NEW source,
           \A s \in SessionIds :
             Orderly(sess[s], IF s = source THEN clock' ELSE k),
           k < clock' \/ DOMAIN diff \cap Ids = {}
    PROVE  AllOrderly(BroadcastPatch(sess, diff, source), clock')
<1>1. ASSUME NEW s \in SessionIds
      PROVE  Orderly(BroadcastPatch(sess, diff, source)[s], clock')
  <2>1. CASE s = source
    BY <2>1 DEF BroadcastPatch
  <2>2. CASE s # source
    <3>1. Orderly(SendData(sess[s], <<PatchMessage(diff)>>, diff), clock')
      BY <2>2, PatchAnnounces, OrderlySendData
    <3> QED BY <2>2, <3>1 DEF BroadcastPatch
  <2> QED BY <2>1, <2>2
<1> QED BY <1>1 DEF AllOrderly

\* So does what removeSession tells.
LEMMA OrderlyRemoveSession ==
    ASSUME NEW k \in Nat, clock' \in Nat, k <= clock',
           NEW sess \in Sessions, AllOrderly(sess, k), NEW docs,
           NEW s \in SessionIds, NEW fatal \in BOOLEAN
    PROVE  AllOrderly(RemoveSession(sess, docs, s, fatal), clock')
<1> DEFINE gone == PresenceOf(sess[s], docs)
           rest == [sess EXCEPT ![s] = RemovedSession(@, fatal)]
<1>1. \A t \in SessionIds : Orderly(rest[t], k)
  BY OrderlyRemoved DEF AllOrderly, Sessions
<1>2. \A t \in SessionIds : Orderly(rest[t], clock')
  BY <1>1, LaterOrderly
<1>3. RemovalOf(gone) \in NetworkDiff /\ DOMAIN RemovalOf(gone) \cap Ids = {}
  BY IdsAssumption, PresenceOfType, RemovalOfType DEF RemovalOf, RecordIds
<1> HIDE DEF gone, rest
<1>4. AllOrderly(BroadcastPatch(rest, RemovalOf(gone), s), clock')
  BY <1>1, <1>2, <1>3, OrderlyBroadcast
<1> QED BY <1>2, <1>4 DEF RemoveSession, AllOrderly, gone, rest

\* And what rejectSession tells.
LEMMA OrderlyRejectSession ==
    ASSUME NEW k \in Nat, clock' \in Nat, k <= clock',
           NEW sess \in Sessions, AllOrderly(sess, k), NEW docs,
           NEW s \in SessionIds, NEW fatal \in BOOLEAN
    PROVE  AllOrderly(RejectSession(sess, docs, s, fatal), clock')
<1> DEFINE msg == [type |-> "incompatibility_error"]
           told == [sess EXCEPT ![s] = SendOnSocket(@, msg)]
<1>1. msg \in ServerMessage /\ ClockedMessages(msg) = <<>>
  BY DEF ServerMessage, ClockedMessages
<1>2. told \in Sessions
  BY <1>1, SendOnSocketType DEF Sessions
<1>3. AllOrderly(told, k)
  <2> HIDE DEF msg
  <2> QED BY <1>1, OrderlySendOnSocket DEF AllOrderly, Sessions
<1> HIDE DEF told
<1>4. /\ AllOrderly(RemoveSession(told, docs, s, FALSE), clock')
      /\ AllOrderly(RemoveSession(sess, docs, s, fatal), clock')
  BY <1>2, <1>3, OrderlyRemoveSession
<1> QED BY <1>4 DEF RejectSession, told

MessagesInv == TypeOK /\ AllOrderly(sessions, clock)

\* One session changes and the clock does not.
LEMMA OneSessionOrderly ==
    ASSUME MessagesInv, NEW s \in SessionIds, NEW d, Orderly(d, clock),
           sessions' = [sessions EXCEPT ![s] = d], UNCHANGED clock
    PROVE  AllOrderly(sessions', clock')
BY DEF MessagesInv, AllOrderly, TypeOK

\* The operations on one session send in order.
LEMMA SessionOpsOrderly ==
    ASSUME MessagesInv, NEW s \in SessionIds,
           \/ HandlePing(s) \/ FlushTimer(s) \/ HandleClose(s)
           \/ Deliver(s) \/ SocketCloses(s)
    PROVE  AllOrderly(sessions', clock')
<1> DEFINE c == sessions[s]
<1>1. c \in Session /\ Orderly(c, clock)
  BY DEF MessagesInv, TypeOK, AllOrderly
<1>2. UNCHANGED clock
  BY DEF HandlePing, FlushTimer, HandleClose, Deliver, SocketCloses,
         RecordsUnchanged
<1> HIDE DEF c
<1>3. CASE HandlePing(s)
  <2>1. [type |-> "pong"] \in ServerMessage
        /\ ClockedMessages([type |-> "pong"]) = <<>>
    BY DEF ServerMessage, ClockedMessages
  <2>2. Orderly(SendMessage(c, [type |-> "pong"]), clock)
    BY <1>1, <2>1, OrderlySendPlain
  <2> QED BY <1>2, <1>3, <2>2, OneSessionOrderly DEF HandlePing, c
<1>4. CASE FlushTimer(s)
  <2>1. Orderly(FlushDataMessages(c), clock)
    BY <1>1, OrderlyFlush
  <2> QED BY <1>2, <1>4, <2>1, OneSessionOrderly DEF FlushTimer, c
<1>5. CASE HandleClose(s)
  <2>1. Orderly(CancelSession(c), clock)
    BY <1>1, OrderlyCancel
  <2> QED BY <1>2, <1>5, <2>1, OneSessionOrderly DEF HandleClose, c
<1>6. CASE Deliver(s)
  <2> DEFINE d == [c EXCEPT !.wire = Tail(@)]
  <2>1. c.wire # <<>> /\ sessions' = [sessions EXCEPT ![s] = d]
    BY <1>6 DEF Deliver, c
  <2>2. Tail(c.wire) \in Seq(ServerMessage)
    BY <1>1, <2>1, OrderlyQueues
  <2>3. /\ d \in Session /\ d.wire = Tail(c.wire)
        /\ d.outstanding = c.outstanding
        /\ d.state = c.state /\ d.debouncing = c.debouncing
    BY <1>1, <2>2, Zenon DEF Session
  <2>4. InOrderUpTo(Tail(c.wire), c.outstanding, clock)
    BY <1>1, <2>1, OrderlyQueues, LessInOrder DEF Orderly
  <2> HIDE DEF d
  <2>5. Orderly(d, clock)
    BY <1>1, <2>3, <2>4 DEF Orderly
  <2> QED BY <1>2, <2>1, <2>5, OneSessionOrderly
<1>7. CASE SocketCloses(s)
  <2> DEFINE d == [c EXCEPT !.open = FALSE, !.wire = <<>>]
  <2>1. sessions' = [sessions EXCEPT ![s] = d]
    BY <1>7 DEF SocketCloses, MessagesInv, TypeOK, c
  <2>2. <<>> \in Seq(ServerMessage)
    OBVIOUS
  <2>3. /\ d \in Session /\ d.wire = <<>>
        /\ d.outstanding = c.outstanding
        /\ d.state = c.state /\ d.debouncing = c.debouncing
    BY <1>1, <2>2, Zenon DEF Session
  <2>4. InOrderUpTo(<<>>, c.outstanding, clock)
    BY <1>1, OrderlyQueues, LessInOrder DEF Orderly
  <2> HIDE DEF d
  <2>5. Orderly(d, clock)
    BY <1>1, <2>3, <2>4 DEF Orderly
  <2> QED BY <1>2, <2>1, <2>5, OneSessionOrderly
<1> QED BY <1>3, <1>4, <1>5, <1>6, <1>7

\* A new session has got nothing yet.
LEMMA HandleNewSessionOrderly ==
    ASSUME MessagesInv, NEW s \in SessionIds, NEW isReadonly \in BOOLEAN,
           HandleNewSession(s, isReadonly)
    PROVE  AllOrderly(sessions', clock')
<1>1. PICK presenceId :
           sessions' = [sessions EXCEPT ![s] =
             [NoSession EXCEPT !.state = AwaitingConnectMessage,
                               !.presenceId = presenceId,
                               !.isReadonly = isReadonly,
                               !.open = TRUE]]
  BY DEF HandleNewSession
<1> DEFINE d == [NoSession EXCEPT !.state = AwaitingConnectMessage,
                                  !.presenceId = presenceId,
                                  !.isReadonly = isReadonly,
                                  !.open = TRUE]
<1>2. d.wire = <<>> /\ d.outstanding = <<>>
  BY Zenon DEF NoSession
<1>3. sessions' = [sessions EXCEPT ![s] = d]
  BY <1>1
<1> HIDE DEF d
<1>4. d \in Session
  <2>1. sessions' \in Sessions
    BY HandleNewSessionType DEF MessagesInv
  <2>2. sessions'[s] = d
    BY <1>3 DEF MessagesInv, TypeOK
  <2> QED BY <2>1, <2>2 DEF Sessions
<1>5. InOrderUpTo(<<>>, <<>>, clock)
  BY NothingBefore DEF InOrderUpTo
<1>6. Orderly(d, clock)
  BY <1>2, <1>4, <1>5 DEF Orderly
<1>7. UNCHANGED clock
  BY DEF HandleNewSession, RecordsUnchanged
<1> QED BY <1>3, <1>6, <1>7, OneSessionOrderly

\* handleConnectRequest answers with the room's clock, and drops what waited
\* for the connection before.
LEMMA HandleConnectRequestOrderly ==
    ASSUME MessagesInv, NEW s \in SessionIds, NEW k \in Nat, NEW version,
           NEW schemaOk, NEW reqId \in Nat,
           HandleConnectRequest(s, k, version, schemaOk, reqId)
    PROVE  AllOrderly(sessions', clock')
<1> DEFINE c == [sessions[s] EXCEPT
                   !.requiresLegacyRejection = version \in {5, 6}]
           diff == Hydration(c, k)
           view == ApplyNetworkDiff(BaseView(k), diff)
           joined == [c EXCEPT !.state = Connected,
                               !.debouncing = FALSE, !.outstanding = <<>>,
                               !.view = view, !.stale = ForgottenSince(k)]
           msg == [type |-> "connect",
                   hydrationType |-> IF WipesAll(k) THEN "wipe_all"
                                     ELSE "wipe_presence",
                   diff |-> diff, serverClock |-> clock,
                   connectRequestId |-> reqId, isReadonly |-> c.isReadonly]
           known == [sessions EXCEPT ![s] = c]
<1>1. /\ UNCHANGED clock /\ clock \in Nat /\ TypeOK
      /\ clock' \in Nat /\ clock <= clock'
  BY DEF HandleConnectRequest, ClocksUnchanged, MessagesInv, TypeOK
<1>2. \/ sessions' = [sessions EXCEPT ![s] = SendMessage(joined, msg)]
      \/ sessions' = RejectSession(known, documents, s, TRUE)
  BY DEF HandleConnectRequest
<1>3. sessions[s] \in Session /\ Orderly(sessions[s], clock)
  BY DEF MessagesInv, TypeOK, AllOrderly
<1>4. /\ c \in Session /\ c.wire = sessions[s].wire
      /\ c.outstanding = sessions[s].outstanding
      /\ c.state = sessions[s].state /\ c.debouncing = sessions[s].debouncing
  <2>1. (version \in {5, 6}) \in BOOLEAN
    OBVIOUS
  <2> QED BY <1>3, <2>1, Zenon DEF Session
<1>5. diff \in NetworkDiff
  BY <1>1, HydrationType
<1>6. view \in [RecordIds -> MaybeRecord]
  BY <1>1, <1>5, BaseViewType, ApplyNetworkDiffType
<1> HIDE DEF c, diff, view
<1>7. Orderly(c, clock)
  BY <1>3, <1>4, SameQueues
<1>8. joined \in Session /\ joined.wire = c.wire /\ joined.outstanding = <<>>
  <2>1. <<>> \in Seq(DataMessage) /\ ForgottenSince(k) \in SUBSET Ids
    BY DEF ForgottenSince
  <2> QED BY <1>4, <1>6, <2>1, Zenon DEF Session
<1>9. msg \in ServerMessage /\ msg.type = "connect" /\ msg.serverClock = clock
  <2>1. c.isReadonly \in BOOLEAN
    BY <1>4 DEF Session
  <2> QED BY <1>1, <1>5, <2>1 DEF ServerMessage
<1> HIDE DEF joined, msg
<1>10. Orderly(SendMessage(joined, msg), clock)
  <2>1. Orderly(joined, clock)
    BY <1>7, <1>8, SameQueues
  <2> QED BY <1>1, <1>8, <1>9, <2>1, OrderlySendConnect
<1>11. AllOrderly(RejectSession(known, documents, s, TRUE), clock')
  <2>1. known \in Sessions /\ AllOrderly(known, clock)
    BY <1>4, <1>7 DEF MessagesInv, TypeOK, Sessions, AllOrderly
  <2> QED BY <1>1, <2>1, OrderlyRejectSession
<1> QED BY <1>1, <1>2, <1>10, <1>11, OneSessionOrderly

\* The answer to a push has the new clock.
LEMMA PushResultAnnounces ==
    ASSUME clock \in Nat, clock' = clock + 1, NEW diff,
           NEW docChanges \in NetworkDiff, NEW clientClock \in Nat
    PROVE  LET msgs == <<PushResult(diff, docChanges, clientClock)>>
           IN  msgs \in Seq(DataMessage) /\ Announces(msgs, clock, clock')
<1> DEFINE result == PushResult(diff, docChanges, clientClock)
<1>1. result \in DataMessage
  BY PushResultType
<1>2. result.serverClock = clock'
  BY DEF PushResult
<1> HIDE DEF result
<1>3. Ordered(<<result>>)
  BY DEF Ordered
<1>4. Announces(<<result>>, clock, clock')
  BY <1>2, <1>3 DEF Announces
<1> QED BY <1>1, <1>4 DEF result

\* handlePushRequest answers and announces with the new clock.
LEMMA HandlePushRequestOrderly ==
    ASSUME MessagesInv, NEW s \in SessionIds,
           NEW diff \in DocDiffs,
           NEW presence \in PresencePushes,
           NEW clientClock \in Nat,
           HandlePushRequest(s, diff, presence, clientClock)
    PROVE  AllOrderly(sessions', clock')
<1> DEFINE ops == PushedOps(sessions[s], diff, presence)
           docChanges == ActualChanges(ops, Ids)
           result == PushResult(diff, docChanges, clientClock)
           told == SendData(sessions[s], <<result>>, docChanges)
           answered == [sessions EXCEPT ![s] = told]
<1>1. /\ clock \in Nat /\ clock' = clock + 1 /\ TypeOK
      /\ clock' \in Nat /\ clock <= clock'
  BY DEF HandlePushRequest, IncrementClock, MessagesInv, TypeOK
<1>2. sessions \in Sessions /\ AllOrderly(sessions, clock)
  BY DEF MessagesInv, TypeOK, Sessions
<1>3. \/ sessions' = answered
      \/ sessions' =
           BroadcastPatch(answered, ActualChanges(ops, RecordIds), s)
      \/ sessions' =
           RejectSession(sessions, DocumentsAtFailure(ops), s, TRUE)
  BY DEF HandlePushRequest
<1>4. ops \in NetworkDiff
  BY PushedOpsType
<1> HIDE DEF ops
<1>5. docChanges \in NetworkDiff /\ ActualChanges(ops, RecordIds) \in NetworkDiff
  BY <1>1, <1>4, ActualChangesType
<1> HIDE DEF docChanges
<1>6. Orderly(told, clock')
  <2>1. <<result>> \in Seq(DataMessage) /\ Announces(<<result>>, clock, clock')
    BY <1>1, <1>5, PushResultAnnounces
  <2>2. Orderly(sessions[s], clock)
    BY <1>2 DEF AllOrderly
  <2> HIDE DEF result
  <2> QED BY <1>1, <1>5, <2>1, <2>2, OrderlySendData
<1> HIDE DEF told
<1>7. \A t \in SessionIds :
        Orderly(answered[t], IF t = s THEN clock' ELSE clock)
  BY <1>2, <1>6 DEF AllOrderly, Sessions
<1> HIDE DEF answered
<1>8. AllOrderly(answered, clock')
  BY <1>1, <1>7, LaterOrderly DEF AllOrderly
<1>9. AllOrderly(BroadcastPatch(answered, ActualChanges(ops, RecordIds), s),
                 clock')
  <2>1. clock < clock'
    BY <1>1
  <2> QED BY <1>1, <1>5, <1>7, <2>1, OrderlyBroadcast
<1>10. AllOrderly(RejectSession(sessions, DocumentsAtFailure(ops), s, TRUE),
                  clock')
  BY <1>1, <1>2, OrderlyRejectSession
<1> QED BY <1>3, <1>8, <1>9, <1>10

\* updateStore announces with the new clock.
LEMMA CommitUpdateStoreOrderly ==
    ASSUME MessagesInv, NEW target \in StoreTargets, CommitUpdateStore(target)
    PROVE  AllOrderly(sessions', clock')
<1> DEFINE diff == ActualChanges(ToDiff(storeUpdate, target), Ids)
<1>1. clock \in Nat /\ AllOrderly(sessions, clock) /\ TypeOK
  BY DEF MessagesInv, TypeOK
<1>2. diff \in NetworkDiff
  <2>1. storeUpdate \in [Ids -> MaybeRecord]
    BY DEF CommitUpdateStore, MessagesInv, TypeOK
  <2> QED BY <1>1, <2>1, RoomAssumption, ToDiffType, ActualChangesType
<1>3. \/ UNCHANGED <<sessions, clock>>
      \/ /\ clock' = clock + 1
         /\ \/ UNCHANGED sessions
            \/ sessions' = BroadcastPatch(sessions, diff, NoPresence)
  BY DEF CommitUpdateStore, IncrementClock
<1> HIDE DEF diff
<1>4. CASE UNCHANGED <<sessions, clock>>
  BY <1>1, <1>4
<1>5. CASE clock' = clock + 1 /\ UNCHANGED sessions
  BY <1>1, <1>5, LaterOrderly DEF AllOrderly
<1>6. CASE /\ clock' = clock + 1
           /\ sessions' = BroadcastPatch(sessions, diff, NoPresence)
  <2>1. \A s \in SessionIds : s # NoPresence
    BY RoomAssumption
  <2> QED BY <1>1, <1>2, <1>6, <2>1, OrderlyBroadcast DEF AllOrderly
<1> QED BY <1>3, <1>4, <1>5, <1>6

\* The removals of one pass of pruneSessions share a clock and name no
\* document record.
LEMMA OrderlySendRemovals ==
    ASSUME clock' \in Nat, NEW k \in Nat, k <= clock', NEW c, Orderly(c, k),
           NEW n \in Nat, NEW order, \A i \in 1..n : order[i] \in PresenceIds
    PROVE  Orderly(SendRemovals(c, order, n), clock')
<1> DEFINE msgs == [i \in 1..n |-> PatchMessage(RemovalOf({order[i]}))]
           ids == {order[i] : i \in 1..n}
<1>1. \A i \in 1..n : RemovalOf({order[i]}) \in NetworkDiff
  BY RemovalOfType DEF RecordIds
<1>2. \A i \in 1..n : PatchMessage(RemovalOf({order[i]})) \in DataMessage
  BY <1>1, PatchMessageType
<1>3. msgs \in Seq(DataMessage) /\ DOMAIN msgs = 1..n
  BY <1>2
<1>4. \A i \in 1..n : /\ msgs[i].serverClock = clock'
                      /\ DOMAIN msgs[i].diff \cap Ids = {}
  BY IdsAssumption DEF PatchMessage, RemovalOf
<1>5. RemovalOf(ids) \in NetworkDiff
  BY RemovalOfType DEF RecordIds
<1> HIDE DEF msgs, ids
<1>6. Ordered(msgs)
  BY <1>3, <1>4 DEF Ordered, InOrder
<1>7. Announces(msgs, k, clock')
  BY <1>3, <1>4, <1>6 DEF Announces
<1>8. Orderly(SendData(c, msgs, RemovalOf(ids)), clock')
  BY <1>3, <1>5, <1>7, OrderlySendData
<1> QED BY <1>8 DEF SendRemovals, msgs, ids

\* pruneSessions sends in order.
LEMMA PruneSessionsOrderly ==
    ASSUME MessagesInv, NEW timedOut \in SUBSET SessionIds,
           PruneSessions(timedOut)
    PROVE  AllOrderly(sessions', clock')
<1> DEFINE Expired(s) == s \in timedOut \/ ~sessions[s].open
           canceled == {s \in SessionIds :
                          sessions[s].state = Connected /\ Expired(s)}
           removed == {s \in SessionIds :
                         \/ sessions[s].state = AwaitingConnectMessage
                            /\ Expired(s)
                         \/ sessions[s].state = AwaitingRemoval
                            /\ s \in timedOut}
           gone == UNION {PresenceOf(sessions[s], documents) : s \in removed}
<1>1. PICK order \in Orders(gone),
           seen \in [canceled -> 0..Cardinality(gone)] :
        sessions' = [s \in SessionIds |->
           IF s \in removed THEN RemovedSession(sessions[s], FALSE)
           ELSE IF s \in canceled
             THEN CancelSession(SendRemovals(sessions[s], order, seen[s]))
           ELSE SendRemovals(sessions[s], order, Cardinality(gone))]
  BY DEF PruneSessions
<1>2. clock \in Nat /\ clock' = clock
  BY DEF PruneSessions, ClocksUnchanged, MessagesInv, TypeOK
<1>3. gone \in SUBSET PresenceIds /\ Cardinality(gone) \in Nat
  BY FinitelyManyGone
<1> HIDE DEF removed, canceled, gone
<1>4. ASSUME NEW s \in SessionIds, NEW n \in 0..Cardinality(gone)
      PROVE  Orderly(SendRemovals(sessions[s], order, n), clock')
  <2>1. n \in Nat /\ \A i \in 1..n : order[i] \in PresenceIds
    BY <1>3 DEF Orders
  <2> QED BY <1>2, <2>1, OrderlySendRemovals DEF MessagesInv, AllOrderly
<1>5. ASSUME NEW s \in SessionIds
      PROVE  Orderly(sessions'[s], clock')
  <2>1. CASE s \in removed
    BY <1>1, <1>2, <2>1, OrderlyRemoved DEF MessagesInv, AllOrderly
  <2>2. CASE s \notin removed /\ s \in canceled
    <3>1. seen[s] \in 0..Cardinality(gone)
      BY <2>2
    <3> QED BY <1>1, <1>4, <2>2, <3>1, OrderlyCancel
  <2>3. CASE s \notin removed /\ s \notin canceled
    <3>1. Cardinality(gone) \in 0..Cardinality(gone)
      BY <1>3
    <3> QED BY <1>1, <1>4, <2>3, <3>1
  <2> QED BY <2>1, <2>2, <2>3
<1> QED BY <1>5 DEF AllOrderly

\* Every step sends in order.
LEMMA NextMessagesInv ==
    ASSUME MessagesInv, [OpenNext]_vars
    PROVE  MessagesInv'
<1>1. TypeOK'
  BY NextType DEF MessagesInv
<1> SUFFICES AllOrderly(sessions', clock')
  BY <1>1 DEF MessagesInv
<1>2. clock \in Nat /\ AllOrderly(sessions, clock)
  BY DEF MessagesInv, TypeOK
<1>3. ASSUME NEW s \in SessionIds, OpenSessionNext(s)
      PROVE  AllOrderly(sessions', clock')
  <2>1. ASSUME NEW isReadonly \in BOOLEAN, HandleNewSession(s, isReadonly)
        PROVE  AllOrderly(sessions', clock')
    BY <2>1, HandleNewSessionOrderly
  <2>2. ASSUME NEW k \in Nat, NEW version,
               NEW schemaOk \in BOOLEAN, NEW reqId \in Nat,
               HandleConnectRequest(s, k, version, schemaOk, reqId)
        PROVE  AllOrderly(sessions', clock')
    <3>1. k \in Nat
      BY RoomAssumption
    <3> QED BY <2>2, <3>1, HandleConnectRequestOrderly
  <2>3. ASSUME NEW diff \in DocDiffs,
               NEW presence \in PresencePushes,
               NEW clientClock \in Nat,
               HandlePushRequest(s, diff, presence, clientClock)
        PROVE  AllOrderly(sessions', clock')
    BY <2>3, HandlePushRequestOrderly
  <2>4. ASSUME NEW fatal \in BOOLEAN, CloseSession(s, fatal)
        PROVE  AllOrderly(sessions', clock')
    <3>1. UNCHANGED clock /\ sessions \in Sessions
      BY <2>4 DEF CloseSession, ClocksUnchanged, MessagesInv, TypeOK, Sessions
    <3> QED BY <1>2, <2>4, <3>1, OrderlyRejectSession DEF CloseSession
  <2>5. CASE \/ HandlePing(s) \/ FlushTimer(s) \/ HandleClose(s)
             \/ Deliver(s) \/ SocketCloses(s)
    BY <2>5, SessionOpsOrderly
  <2> QED BY <1>3, <2>1, <2>2, <2>3, <2>4, <2>5 DEF OpenSessionNext
<1>4. ASSUME NEW target \in StoreTargets, CommitUpdateStore(target)
      PROVE  AllOrderly(sessions', clock')
  BY <1>4, CommitUpdateStoreOrderly
<1>5. ASSUME NEW timedOut \in SUBSET SessionIds, PruneSessions(timedOut)
      PROVE  AllOrderly(sessions', clock')
  BY <1>5, PruneSessionsOrderly
<1>6. CASE Close
  <2>1. /\ UNCHANGED clock
        /\ \A s \in SessionIds :
             sessions'[s] \in {sessions[s], CloseSocket(sessions[s], FALSE)}
    BY <1>6 DEF Close, RecordsUnchanged
  <2> QED BY <1>2, <2>1, OrderlyCloseSocket DEF AllOrderly
<1>7. CASE PruneTombstones \/ BeginUpdateStore \/ UNCHANGED vars
  <2>1. UNCHANGED <<sessions, clock>>
    BY <1>7 DEF PruneTombstones, BeginUpdateStore, vars
  <2> QED BY <1>2, <2>1
<1> QED BY <1>3, <1>4, <1>5, <1>6, <1>7 DEF OpenNext

\* The invariant of the messages holds in every environment.
LEMMA OpenMessagesCorrect == OpenSpec => []MessagesInv
<1>1. Init => MessagesInv
  <2> SUFFICES ASSUME Init PROVE MessagesInv
    OBVIOUS
  <2>1. sessions = [s \in SessionIds |-> NoSession] /\ clock = 0
    BY DEF Init
  <2>2. InOrderUpTo(<<>>, <<>>, 0)
    BY NothingBefore DEF InOrderUpTo
  <2>3. NoSession.wire = <<>> /\ NoSession.outstanding = <<>>
    BY DEF NoSession
  <2>4. Orderly(NoSession, 0)
    BY <2>2, <2>3, NoSessionType DEF Orderly
  <2> QED BY <2>1, <2>4, InitType DEF MessagesInv, AllOrderly
<1>2. MessagesInv /\ [OpenNext]_vars => MessagesInv'
  BY NextMessagesInv
<1> QED BY <1>1, <1>2, PTL DEF OpenSpec

\* The invariant of the messages holds of every reachable state of the room.
THEOREM MessagesCorrect == Spec => []MessagesInv
BY OpenMessagesCorrect, SpecIsOpen, PTL

\* A message that waits in outstandingDataMessages always has a debounce timer
\* that will flush it: sendMessage, flushes, cancellations and reconnections
\* never leave one behind.
THEOREM OutstandingHasTimerCorrect == Spec => []OutstandingHasTimer
<1>1. MessagesInv => OutstandingHasTimer
  BY DEF MessagesInv, AllOrderly, Orderly, OutstandingHasTimer
<1> QED BY <1>1, MessagesCorrect, PTL

\* The clocks that a session is sent never go back, and a message that changes
\* document records has a clock that no message before it has, whatever is
\* sent at once, waits for the debounce timer or is flushed by a reconnection.
THEOREM ClocksInOrderCorrect == Spec => []ClocksInOrder
<1>1. ASSUME MessagesInv PROVE ClocksInOrder
  <2> SUFFICES ASSUME NEW s \in SessionIds
               PROVE  LET sent == Append(sessions[s].wire,
                                [type |-> "data",
                                 data |-> sessions[s].outstanding])
                      IN  \A i \in DOMAIN sent : \A j \in i..Len(sent) :
                            \A x \in DOMAIN ClockedMessages(sent[i]),
                               y \in DOMAIN ClockedMessages(sent[j]) :
                              i < j \/ x < y =>
                                InOrder(ClockedMessages(sent[i])[x],
                                        ClockedMessages(sent[j])[y])
    BY DEF ClocksInOrder, InOrder
  <2> DEFINE msg == [type |-> "data", data |-> sessions[s].outstanding]
             sent == Append(sessions[s].wire, msg)
  <2>1. /\ sessions[s] \in Session
        /\ InOrderUpTo(sessions[s].wire, sessions[s].outstanding, clock)
    BY <1>1 DEF MessagesInv, AllOrderly, Orderly
  <2>2. InOrderUpTo(sent, <<>>, clock)
    BY <2>1, OrderlyQueues, FlushInOrder
  <2>3. DOMAIN sent = 1..Len(sent)
    BY <2>1, OrderlyQueues
  <2> HIDE DEF sent
  <2>4. ASSUME NEW i \in DOMAIN sent, NEW j \in i..Len(sent),
               NEW x \in DOMAIN ClockedMessages(sent[i]),
               NEW y \in DOMAIN ClockedMessages(sent[j]), i < j \/ x < y
        PROVE  InOrder(ClockedMessages(sent[i])[x], ClockedMessages(sent[j])[y])
    <3>1. j \in DOMAIN sent
      BY <2>3, <2>4
    <3>2. CASE i < j
      BY <2>2, <3>1, <3>2 DEF InOrderUpTo, Before
    <3>3. CASE i = j /\ x < y
      BY <2>2, <3>3 DEF InOrderUpTo, Ordered
    <3> QED BY <2>3, <2>4, <3>2, <3>3
  <2> QED BY <2>4 DEF sent
<1>2. MessagesInv => ClocksInOrder
  BY <1>1
<1> QED BY <1>2, MessagesCorrect, PTL

-----------------------------------------------------------------------------
(***************************************************************************)
(* Presence records.                                                       *)
(*                                                                         *)
(* A session with a presence record whose push a validator rejects is      *)
(* removed together with the record, which rollback then restores: the     *)
(* other sessions were told that it went, and nobody will ever remove it.  *)
(* The theorems say that this is the only way to lose track of presence.   *)
(***************************************************************************)
FailedPush(s) ==
    \E diff \in DocDiffs, presence \in PresencePushes,
       clientClock \in Nat :
      /\ HandlePushRequest(s, diff, presence, clientClock)
      /\ Fails(PushedOps(sessions[s], diff, presence))

\* No push fails in a session that has a presence record in the room.
NoGhosts ==
    \A s \in SessionIds :
        PresenceOf(sessions[s], documents) # {} => ~FailedPush(s)

PresenceSynced(c, docs) ==
    Listening(c) => \A p \in PresenceIds \ {c.presenceId} :
                      c.view[p] = docs[p].state

\* A session stays in the table, under its presence id.
KeepsOwner(c, d) ==
    /\ d.presenceId = c.presenceId
    /\ c.state # "none" => d.state # "none"

\* It is told nothing.
Untold(c, d) ==
    /\ KeepsOwner(c, d)
    /\ Listening(d) => Listening(c) /\ d.view = c.view

\* Putting a message on the socket tells no record.
LEMMA UntoldSendOnSocket ==
    ASSUME NEW c \in Session, NEW msg
    PROVE  Untold(c, SendOnSocket(c, msg))
<1> DEFINE d == [c EXCEPT !.wire = Append(@, msg)]
<1>1. /\ d.presenceId = c.presenceId /\ d.state = c.state
      /\ d.open = c.open /\ d.view = c.view
  BY Zenon DEF Session
<1>2. SendOnSocket(c, msg) \in {c, d}
  BY DEF SendOnSocket
<1> HIDE DEF d
<1> QED BY <1>1, <1>2 DEF Untold, KeepsOwner, Listening

\* Closing the socket tells no record.
LEMMA UntoldCloseSocket ==
    ASSUME NEW c \in Session, NEW fatal
    PROVE  Untold(c, CloseSocket(c, fatal))
<1> DEFINE d == [c EXCEPT !.open = FALSE,
                    !.wire = Append(@, [type |-> "close", fatal |-> fatal])]
<1>1. /\ d.presenceId = c.presenceId /\ d.state = c.state /\ d.open = FALSE
  BY Zenon DEF Session
<1>2. CloseSocket(c, fatal) \in {c, d}
  BY DEF CloseSocket
<1> HIDE DEF d
<1> QED BY <1>1, <1>2 DEF Untold, KeepsOwner, Listening

\* cancelSession keeps the session in the table and tells no record.
LEMMA UntoldCancel ==
    ASSUME NEW c \in Session
    PROVE  Untold(c, CancelSession(c))
<1> DEFINE d == [c EXCEPT !.state = AwaitingRemoval,
                          !.debouncing = FALSE, !.outstanding = <<>>,
                          !.view = NoView, !.stale = {}]
<1>1. d.presenceId = c.presenceId /\ d.state = AwaitingRemoval
  BY Zenon DEF Session
<1>2. AwaitingRemoval # "none"
  BY DEF AwaitingRemoval
<1>3. d \in Session
  <2>1. <<>> \in Seq(DataMessage) /\ {} \in SUBSET Ids
        /\ NoView \in [RecordIds -> MaybeRecord]
    BY DEF NoView, MaybeRecord
  <2> QED BY <2>1, Zenon DEF Session
<1>4. CancelSession(c) = c \/ CancelSession(c) = CloseSocket(d, FALSE)
  BY DEF CancelSession
<1> HIDE DEF d
<1>5. KeepsOwner(d, CloseSocket(d, FALSE))
  BY <1>3, UntoldCloseSocket DEF Untold
<1>6. KeepsOwner(c, CancelSession(c))
  BY <1>1, <1>2, <1>4, <1>5 DEF KeepsOwner
<1> QED BY <1>6, CanceledIsDeaf DEF Untold

\* A flush tells no record that the view does not count already.
LEMMA UntoldFlush ==
    ASSUME NEW c \in Session
    PROVE  Untold(c, FlushDataMessages(c))
<1> DEFINE d == [c EXCEPT !.debouncing = FALSE, !.outstanding = <<>>]
           e == [c EXCEPT !.debouncing = FALSE]
           msg == [type |-> "data", data |-> c.outstanding]
<1>1. /\ d.presenceId = c.presenceId /\ d.state = c.state
      /\ d.open = c.open /\ d.view = c.view
      /\ e.presenceId = c.presenceId /\ e.state = c.state
      /\ e.open = c.open /\ e.view = c.view
  BY Zenon DEF Session
<1>2. d \in Session
  <2>1. <<>> \in Seq(DataMessage)
    OBVIOUS
  <2> QED BY <2>1, Zenon DEF Session
<1>3. FlushDataMessages(c) \in {c, e, SendOnSocket(d, msg)}
  BY DEF FlushDataMessages
<1> HIDE DEF d, e, msg
<1>4. Untold(d, SendOnSocket(d, msg))
  BY <1>2, UntoldSendOnSocket
<1> QED BY <1>1, <1>3, <1>4 DEF Untold, KeepsOwner, Listening

\* Messages that are not data tell no record.
LEMMA UntoldSendMessage ==
    ASSUME NEW c \in Session, NEW msg
    PROVE  Untold(c, SendMessage(c, msg))
<1>1. Untold(c, c) /\ Untold(c, CancelSession(c))
  BY UntoldCancel DEF Untold, KeepsOwner
<1>2. Untold(c, SendOnSocket(c, msg))
  BY UntoldSendOnSocket
<1>3. Untold(c, SendOnSocket(FlushDataMessages(c), msg))
  <2>1. Untold(c, FlushDataMessages(c))
    BY UntoldFlush
  <2>2. Untold(FlushDataMessages(c), SendOnSocket(FlushDataMessages(c), msg))
    BY FlushDataMessagesType, UntoldSendOnSocket
  <2> QED BY <2>1, <2>2 DEF Untold, KeepsOwner
<1> QED BY <1>1, <1>2, <1>3 DEF SendMessage

\* Data messages keep a session in the table.
LEMMA OwnerSendData ==
    ASSUME NEW c \in Session, NEW msgs, NEW diff
    PROVE  KeepsOwner(c, SendData(c, msgs, diff))
<1> DEFINE view == ApplyNetworkDiff(c.view, diff)
           d == [c EXCEPT !.outstanding = @ \o msgs, !.view = view]
           e == [c EXCEPT !.debouncing = TRUE,
                          !.outstanding = @ \o Tail(msgs),
                          !.wire = Append(@, [type |-> "data",
                                              data |-> <<Head(msgs)>>]),
                          !.view = view]
<1>1. /\ d.presenceId = c.presenceId /\ d.state = c.state
      /\ e.presenceId = c.presenceId /\ e.state = c.state
  BY Zenon DEF Session
<1>2. SendData(c, msgs, diff) \in {c, d, e, CancelSession(c)}
  BY DEF SendData
<1>3. KeepsOwner(c, CancelSession(c))
  BY UntoldCancel DEF Untold
<1> HIDE DEF d, e
<1> QED BY <1>1, <1>2, <1>3 DEF KeepsOwner

\* Of the presence records, those among ids are gone.
PresenceLost(next, docs, ids) ==
    \A p \in PresenceIds :
      next[p].state = IF p \in ids THEN Absent ELSE docs[p].state

OthersSynced(sess, s, docs) ==
    \A t \in SessionIds \ {s} : PresenceSynced(sess[t], docs)

\* Records that messages take away, and those they do not name.
LEMMA SendDataRemoves ==
    ASSUME NEW c \in Session, NEW docs, NEW next, PresenceSynced(c, docs),
           NEW ids, NEW msgs, msgs = <<>> => ids = {},
           PresenceLost(next, docs, ids)
    PROVE  PresenceSynced(SendData(c, msgs, RemovalOf(ids)), next)
<1> DEFINE d == SendData(c, msgs, RemovalOf(ids))
<1>1. CASE msgs = <<>>
  BY <1>1 DEF SendData, PresenceSynced, PresenceLost
<1>2. CASE msgs # <<>>
  <2> SUFFICES ASSUME Listening(d), NEW p \in PresenceIds \ {d.presenceId}
               PROVE  d.view[p] = next[p].state
    BY DEF PresenceSynced
  <2>1. /\ Listening(c) /\ d.presenceId = c.presenceId
        /\ d.view = ApplyNetworkDiff(c.view, RemovalOf(ids))
    BY <1>2, ViewAfterSendData, OwnerSendData DEF KeepsOwner
  <2>2. c.view[p] = docs[p].state
    BY <2>1 DEF PresenceSynced
  <2>3. DOMAIN c.view = RecordIds /\ p \in RecordIds
    BY Zenon DEF Session, RecordIds
  <2> HIDE DEF d
  <2>4. d.view[p] = IF p \in ids THEN ApplyOp(c.view[p], RemoveOp)
                    ELSE c.view[p]
    BY <2>1, <2>3 DEF ApplyNetworkDiff, RemovalOf
  <2>5. ApplyOp(c.view[p], RemoveOp) = Absent
    BY DEF ApplyOp, RemoveOp
  <2> QED BY <2>2, <2>4, <2>5 DEF PresenceLost
<1> QED BY <1>1, <1>2

-----------------------------------------------------------------------------
PresenceInv == TypeOK /\ PresenceInSync /\ PresenceOwned

\* A step after which every session is in the table as before and knows the
\* presence records, which those in the table own.
LEMMA PresenceKept ==
    ASSUME PresenceInv,
           \A t \in SessionIds : /\ PresenceSynced(sessions'[t], documents')
                                 /\ KeepsOwner(sessions[t], sessions'[t]),
           \A p \in PresenceIds : documents'[p].state # Absent =>
             \/ documents[p].state # Absent
             \/ \E t \in SessionIds : /\ sessions[t].state # "none"
                                      /\ sessions[t].presenceId = p
    PROVE  PresenceInSync' /\ PresenceOwned'
<1>1. PresenceInSync'
  BY DEF PresenceInSync, PresenceSynced, Listening
<1>2. ASSUME NEW p \in PresenceIds, documents'[p].state # Absent
      PROVE  \E t \in SessionIds : /\ sessions'[t].state # "none"
                                   /\ sessions'[t].presenceId = p
  <2>1. PICK t \in SessionIds : /\ sessions[t].state # "none"
                                /\ sessions[t].presenceId = p
    BY <1>2 DEF PresenceInv, PresenceOwned
  <2> QED BY <2>1 DEF KeepsOwner
<1> QED BY <1>1, <1>2 DEF PresenceOwned

\* A step that tells nobody anything and leaves presence records alone.
LEMMA UntoldStep ==
    ASSUME PresenceInv,
           \A t \in SessionIds : Untold(sessions[t], sessions'[t]),
           \A p \in PresenceIds : documents'[p] = documents[p]
    PROVE  PresenceInSync' /\ PresenceOwned'
<1>1. \A t \in SessionIds : PresenceSynced(sessions'[t], documents')
  BY DEF PresenceInv, PresenceInSync, PresenceSynced, Untold, KeepsOwner
<1> QED BY <1>1, PresenceKept DEF Untold

\* Sessions leave the table together with their presence records.
LEMMA PresenceLeaves ==
    ASSUME PresenceInv, NEW removed \in SUBSET SessionIds,
           \A t \in SessionIds \ removed :
             /\ PresenceSynced(sessions'[t], documents')
             /\ KeepsOwner(sessions[t], sessions'[t]),
           \A t \in removed : ~Listening(sessions'[t]),
           \A p \in PresenceIds : documents'[p].state # Absent =>
             /\ documents[p].state # Absent
             /\ \A t \in removed : p \notin PresenceOf(sessions[t], documents)
    PROVE  PresenceInSync' /\ PresenceOwned'
<1>1. PresenceInSync'
  BY DEF PresenceInSync, PresenceSynced, Listening
<1>2. ASSUME NEW p \in PresenceIds, documents'[p].state # Absent
      PROVE  \E t \in SessionIds : /\ sessions'[t].state # "none"
                                   /\ sessions'[t].presenceId = p
  <2>1. PICK t \in SessionIds : /\ sessions[t].state # "none"
                                /\ sessions[t].presenceId = p
    BY <1>2 DEF PresenceInv, PresenceOwned
  <2>2. t \notin removed
    BY <1>2, <2>1 DEF PresenceOf
  <2> QED BY <2>1, <2>2 DEF KeepsOwner
<1> QED BY <1>1, <1>2 DEF PresenceOwned

\* removeSession tells the others of the presence record that goes.
LEMMA RemoveSessionTells ==
    ASSUME NEW sess \in Sessions, NEW docs, NEW s \in SessionIds,
           NEW fatal \in BOOLEAN, NEW t \in SessionIds \ {s},
           NEW old, NEW next, PresenceSynced(sess[t], old),
           PresenceLost(next, old, PresenceOf(sess[s], docs))
    PROVE  /\ PresenceSynced(RemoveSession(sess, docs, s, fatal)[t], next)
           /\ KeepsOwner(sess[t], RemoveSession(sess, docs, s, fatal)[t])
<1> DEFINE gone == PresenceOf(sess[s], docs)
           rest == [sess EXCEPT ![s] = RemovedSession(@, fatal)]
           msgs == <<PatchMessage(RemovalOf(gone))>>
           d == RemoveSession(sess, docs, s, fatal)[t]
<1>1. /\ rest[t] = sess[t] /\ sess[t] \in Session
      /\ PresenceLost(next, old, gone)
  BY DEF Sessions
<1> HIDE DEF gone, rest
<1>2. CASE gone = {}
  <2>1. d = sess[t]
    BY <1>1, <1>2 DEF RemoveSession, gone, rest
  <2>2. PresenceSynced(sess[t], next)
    BY <1>2 DEF PresenceSynced, PresenceLost, gone
  <2> HIDE DEF d
  <2>3. PresenceSynced(d, next) /\ KeepsOwner(sess[t], d)
    BY <2>1, <2>2 DEF KeepsOwner
  <2> QED BY <2>3 DEF d
<1>3. CASE gone # {}
  <2>1. d = SendData(sess[t], msgs, RemovalOf(gone))
    <3>1. d = BroadcastPatch(rest, RemovalOf(gone), s)[t]
      BY <1>3 DEF RemoveSession, gone, rest
    <3> QED BY <1>1, <3>1 DEF BroadcastPatch
  <2>2. msgs # <<>>
    OBVIOUS
  <2> HIDE DEF msgs, d
  <2>3. PresenceSynced(d, next)
    BY <1>1, <2>1, <2>2, SendDataRemoves
  <2>4. KeepsOwner(sess[t], d)
    BY <1>1, <2>1, OwnerSendData
  <2> QED BY <2>3, <2>4 DEF d
<1> QED BY <1>2, <1>3

\* A session that removeSession removed hears nothing.
LEMMA RemoveSessionDeaf ==
    ASSUME NEW sess \in Sessions, NEW docs, NEW s \in SessionIds, NEW fatal
    PROVE  ~Listening(RemoveSession(sess, docs, s, fatal)[s])
<1> DEFINE rest == [sess EXCEPT ![s] = RemovedSession(@, fatal)]
           gone == PresenceOf(sess[s], docs)
<1>1. rest[s] = RemovedSession(sess[s], fatal)
  BY DEF Sessions
<1>2. RemoveSession(sess, docs, s, fatal)[s] = rest[s]
  BY DEF RemoveSession, BroadcastPatch
<1> QED BY <1>1, <1>2, RemovedIsDeaf

\* rejectSession does what removeSession does.
LEMMA RejectSessionTells ==
    ASSUME NEW sess \in Sessions, NEW docs, NEW s \in SessionIds,
           NEW fatal \in BOOLEAN, NEW old, NEW next,
           OthersSynced(sess, s, old),
           PresenceLost(next, old, PresenceOf(sess[s], docs))
    PROVE  /\ ~Listening(RejectSession(sess, docs, s, fatal)[s])
           /\ \A t \in SessionIds \ {s} :
                /\ PresenceSynced(RejectSession(sess, docs, s, fatal)[t], next)
                /\ KeepsOwner(sess[t], RejectSession(sess, docs, s, fatal)[t])
<1> DEFINE msg == [type |-> "incompatibility_error"]
           told == [sess EXCEPT ![s] = SendOnSocket(@, msg)]
           after == RejectSession(sess, docs, s, fatal)
<1>1. told \in Sessions
  <2>1. msg \in ServerMessage
    BY DEF ServerMessage
  <2> QED BY <2>1, SendOnSocketType DEF Sessions
<1>2. /\ \A t \in SessionIds \ {s} : told[t] = sess[t]
      /\ told[s] = SendOnSocket(sess[s], msg)
  BY DEF Sessions
<1>3. PresenceOf(told[s], docs) = PresenceOf(sess[s], docs)
  <2>1. told[s].presenceId = sess[s].presenceId
    BY <1>2, UntoldSendOnSocket DEF Untold, KeepsOwner, Sessions
  <2> QED BY <2>1 DEF PresenceOf
<1>4. \/ after = RemoveSession(told, docs, s, FALSE)
      \/ after = RemoveSession(sess, docs, s, fatal)
  BY DEF RejectSession
<1> HIDE DEF told, after
<1>5. ~Listening(after[s])
  BY <1>1, <1>4, RemoveSessionDeaf
<1>6. ASSUME NEW t \in SessionIds \ {s}
      PROVE  PresenceSynced(after[t], next) /\ KeepsOwner(sess[t], after[t])
  <2>1. CASE after = RemoveSession(told, docs, s, FALSE)
    <3>1. PresenceSynced(told[t], old)
      BY <1>2 DEF OthersSynced
    <3>2. PresenceLost(next, old, PresenceOf(told[s], docs))
      BY <1>3
    <3>3. ASSUME NEW f \in BOOLEAN
          PROVE  /\ PresenceSynced(RemoveSession(told, docs, s, f)[t], next)
                 /\ KeepsOwner(told[t], RemoveSession(told, docs, s, f)[t])
      BY <1>1, <3>1, <3>2, RemoveSessionTells
    <3> QED BY <1>2, <2>1, <3>3
  <2>2. CASE after = RemoveSession(sess, docs, s, fatal)
    BY <2>2, RemoveSessionTells DEF OthersSynced
  <2> QED BY <1>4, <2>1, <2>2
<1> QED BY <1>5, <1>6 DEF after

\* The operations on one session tell it no presence record.
LEMMA SessionOpsPresence ==
    ASSUME PresenceInv, NEW s \in SessionIds,
           \/ HandlePing(s) \/ FlushTimer(s) \/ HandleClose(s)
           \/ Deliver(s) \/ SocketCloses(s)
    PROVE  PresenceInSync' /\ PresenceOwned'
<1>1. sessions[s] \in Session /\ sessions \in Sessions
  BY DEF PresenceInv, TypeOK, Sessions
<1>2. UNCHANGED documents
  BY DEF HandlePing, FlushTimer, HandleClose, Deliver, SocketCloses,
         RecordsUnchanged
<1>3. ASSUME NEW d, Untold(sessions[s], d), sessions' = [sessions EXCEPT ![s] = d]
      PROVE  PresenceInSync' /\ PresenceOwned'
  <2>1. \A t \in SessionIds : Untold(sessions[t], sessions'[t])
    BY <1>1, <1>3 DEF Sessions, Untold, KeepsOwner
  <2> QED BY <1>2, <2>1, UntoldStep
<1>4. CASE HandlePing(s)
  BY <1>1, <1>3, <1>4, UntoldSendMessage DEF HandlePing
<1>5. CASE FlushTimer(s)
  BY <1>1, <1>3, <1>5, UntoldFlush DEF FlushTimer
<1>6. CASE HandleClose(s)
  BY <1>1, <1>3, <1>6, UntoldCancel DEF HandleClose
<1>7. CASE Deliver(s)
  <2> DEFINE d == [sessions[s] EXCEPT !.wire = Tail(@)]
  <2>1. /\ d.presenceId = sessions[s].presenceId
        /\ d.state = sessions[s].state
        /\ d.open = sessions[s].open /\ d.view = sessions[s].view
    BY <1>1, Zenon DEF Session
  <2>2. sessions' = [sessions EXCEPT ![s] = d]
    BY <1>7 DEF Deliver
  <2> HIDE DEF d
  <2>3. Untold(sessions[s], d)
    BY <2>1 DEF Untold, KeepsOwner, Listening
  <2> QED BY <1>3, <2>2, <2>3
<1>8. CASE SocketCloses(s)
  <2> DEFINE d == [sessions[s] EXCEPT !.open = FALSE, !.wire = <<>>]
  <2>1. /\ d.presenceId = sessions[s].presenceId
        /\ d.state = sessions[s].state /\ d.open = FALSE
    BY <1>1, Zenon DEF Session
  <2>2. sessions' = [sessions EXCEPT ![s] = d]
    BY <1>1, <1>8 DEF SocketCloses, Sessions
  <2> HIDE DEF d
  <2>3. Untold(sessions[s], d)
    BY <2>1 DEF Untold, KeepsOwner, Listening
  <2> QED BY <1>3, <2>2, <2>3
<1> QED BY <1>4, <1>5, <1>6, <1>7, <1>8

\* A session keeps its presence id when its tab comes back.
LEMMA HandleNewSessionPresence ==
    ASSUME PresenceInv, NEW s \in SessionIds, NEW isReadonly \in BOOLEAN,
           HandleNewSession(s, isReadonly)
    PROVE  PresenceInSync' /\ PresenceOwned'
<1>1. PICK presenceId :
        /\ sessions[s].state # "none" => presenceId = sessions[s].presenceId
        /\ sessions' = [sessions EXCEPT ![s] =
             [NoSession EXCEPT !.state = AwaitingConnectMessage,
                               !.presenceId = presenceId,
                               !.isReadonly = isReadonly,
                               !.open = TRUE]]
  BY DEF HandleNewSession
<1> DEFINE d == [NoSession EXCEPT !.state = AwaitingConnectMessage,
                                  !.presenceId = presenceId,
                                  !.isReadonly = isReadonly,
                                  !.open = TRUE]
<1>2. d.state = AwaitingConnectMessage /\ d.presenceId = presenceId
  BY Zenon DEF NoSession
<1>3. sessions' = [sessions EXCEPT ![s] = d] /\ UNCHANGED documents
  BY <1>1 DEF HandleNewSession, RecordsUnchanged
<1> HIDE DEF d
<1>4. /\ sessions'[s] = d
      /\ \A t \in SessionIds \ {s} : sessions'[t] = sessions[t]
  BY <1>3 DEF PresenceInv, TypeOK
<1>5. ~Listening(sessions'[s])
  BY <1>2, <1>4 DEF Listening, Connected, AwaitingConnectMessage
<1>6. PresenceInSync'
  BY <1>3, <1>4, <1>5 DEF PresenceInv, PresenceInSync, Listening
<1>7. ASSUME NEW p \in PresenceIds, documents'[p].state # Absent
      PROVE  \E t \in SessionIds : /\ sessions'[t].state # "none"
                                   /\ sessions'[t].presenceId = p
  <2>1. PICK t \in SessionIds : /\ sessions[t].state # "none"
                                /\ sessions[t].presenceId = p
    BY <1>3, <1>7 DEF PresenceInv, PresenceOwned
  <2>2. AwaitingConnectMessage # "none"
    BY DEF AwaitingConnectMessage
  <2>3. sessions'[t].state # "none" /\ sessions'[t].presenceId = p
    BY <1>1, <1>2, <1>4, <2>1, <2>2
  <2> QED BY <2>3
<1> QED BY <1>6, <1>7 DEF PresenceOwned

\* The diff of a connect request has the presence of all the others.
LEMMA HydrationHasPresence ==
    ASSUME NEW c, NEW k, NEW p \in PresenceIds \ {c.presenceId}
    PROVE  ApplyNetworkDiff(BaseView(k), Hydration(c, k))[p]
             = documents[p].state
<1>1. p \in RecordIds /\ p \notin Ids
  BY IdsAssumption DEF RecordIds
<1>2. DOMAIN BaseView(k) = RecordIds /\ BaseView(k)[p] = Absent
  BY <1>1 DEF BaseView
<1>3. /\ p \in DOMAIN Hydration(c, k) <=> p \in Present
      /\ p \in Present =>
           Hydration(c, k)[p] = PutOp(documents[p].state)
  BY <1>1 DEF Hydration, Present
<1>4. p \in Present <=> documents[p].state # Absent
  BY <1>1 DEF Present
<1>5. ApplyOp(Absent, PutOp(documents[p].state)) = documents[p].state
  BY DEF ApplyOp, PutOp
<1> QED BY <1>1, <1>2, <1>3, <1>4, <1>5 DEF ApplyNetworkDiff

\* handleConnectRequest gives a client the presence of all the others, or
\* removes its session and tells them.
LEMMA HandleConnectRequestPresence ==
    ASSUME PresenceInv, NEW s \in SessionIds, NEW k \in Nat, NEW version,
           NEW schemaOk, NEW reqId \in Nat,
           HandleConnectRequest(s, k, version, schemaOk, reqId)
    PROVE  PresenceInSync' /\ PresenceOwned'
<1> DEFINE c == [sessions[s] EXCEPT
                   !.requiresLegacyRejection = version \in {5, 6}]
           diff == Hydration(c, k)
           view == ApplyNetworkDiff(BaseView(k), diff)
           joined == [c EXCEPT !.state = Connected,
                               !.debouncing = FALSE, !.outstanding = <<>>,
                               !.view = view, !.stale = ForgottenSince(k)]
           msg == [type |-> "connect",
                   hydrationType |-> IF WipesAll(k) THEN "wipe_all"
                                     ELSE "wipe_presence",
                   diff |-> diff, serverClock |-> clock,
                   connectRequestId |-> reqId, isReadonly |-> c.isReadonly]
           known == [sessions EXCEPT ![s] = c]
           gone == PresenceOf(c, documents)
<1>1. TypeOK /\ sessions \in Sessions
  BY DEF PresenceInv, TypeOK, Sessions
<1>2. \/ /\ sessions' = [sessions EXCEPT ![s] = SendMessage(joined, msg)]
         /\ UNCHANGED documents
      \/ /\ sessions' = RejectSession(known, documents, s, TRUE)
         /\ documents' = WithoutRecords(documents, gone)
  BY DEF HandleConnectRequest
<1>3. sessions[s] \in Session /\ sessions[s].state # "none"
  <2>1. c.state # "none"
    BY DEF HandleConnectRequest
  <2>2. c.state = sessions[s].state
    BY <1>1, Zenon DEF Sessions, Session
  <2> QED BY <1>1, <2>1, <2>2 DEF Sessions
<1>4. /\ c \in Session /\ c.presenceId = sessions[s].presenceId
      /\ c.state = sessions[s].state
  <2>1. (version \in {5, 6}) \in BOOLEAN
    OBVIOUS
  <2> QED BY <1>3, <2>1, Zenon DEF Session
<1>5. diff \in NetworkDiff
  BY <1>1, HydrationType
<1>6. view \in [RecordIds -> MaybeRecord]
  BY <1>1, <1>5, BaseViewType, ApplyNetworkDiffType
<1>7. \A p \in PresenceIds \ {c.presenceId} : view[p] = documents[p].state
  BY HydrationHasPresence
<1> HIDE DEF c, diff, view
<1>8. /\ joined \in Session /\ joined.presenceId = c.presenceId
      /\ joined.state = Connected /\ joined.view = view
  <2>1. <<>> \in Seq(DataMessage) /\ ForgottenSince(k) \in SUBSET Ids
    BY DEF ForgottenSince
  <2> QED BY <1>4, <1>6, <2>1, Zenon DEF Session
<1> HIDE DEF joined, msg
<1>9. CASE /\ sessions' = [sessions EXCEPT ![s] = SendMessage(joined, msg)]
           /\ UNCHANGED documents
  <2>1. Untold(joined, SendMessage(joined, msg))
    BY <1>8, UntoldSendMessage
  <2>2. Connected # "none"
    BY DEF Connected
  <2> DEFINE d == SendMessage(joined, msg)
  <2>3. sessions' = [sessions EXCEPT ![s] = d] /\ Untold(joined, d)
    BY <1>9, <2>1
  <2> HIDE DEF d
  <2>4. PresenceSynced(d, documents) /\ KeepsOwner(sessions[s], d)
    BY <1>4, <1>7, <1>8, <2>2, <2>3
       DEF Untold, KeepsOwner, PresenceSynced
  <2>5. \A t \in SessionIds : /\ PresenceSynced(sessions'[t], documents)
                              /\ KeepsOwner(sessions[t], sessions'[t])
    BY <1>1, <2>3, <2>4
       DEF Sessions, PresenceInv, PresenceInSync, PresenceSynced, KeepsOwner
  <2> QED BY <1>9, <2>5, PresenceKept
<1>10. CASE /\ sessions' = RejectSession(known, documents, s, TRUE)
            /\ documents' = WithoutRecords(documents, gone)
  <2>1. /\ known \in Sessions /\ known[s] = c
        /\ \A t \in SessionIds \ {s} : known[t] = sessions[t]
    BY <1>1, <1>4 DEF Sessions
  <2>2. /\ gone = PresenceOf(known[s], documents)
        /\ gone = PresenceOf(sessions[s], documents)
    BY <1>4, <2>1 DEF PresenceOf
  <2>3. PresenceLost(documents', documents, gone)
    BY <1>10 DEF PresenceLost, WithoutRecords, NoDocument, RecordIds
  <2>4. OthersSynced(known, s, documents)
    BY <2>1 DEF OthersSynced, PresenceInv, PresenceInSync, PresenceSynced
  <2> HIDE DEF known, gone
  <2>5. ASSUME NEW f \in BOOLEAN, sessions' = RejectSession(known, documents, s, f)
        PROVE  /\ ~Listening(sessions'[s])
               /\ \A t \in SessionIds \ {s} :
                    /\ PresenceSynced(sessions'[t], documents')
                    /\ KeepsOwner(known[t], sessions'[t])
    BY <2>1, <2>2, <2>3, <2>4, <2>5, RejectSessionTells
  <2>6. /\ ~Listening(sessions'[s])
        /\ \A t \in SessionIds \ {s} :
             /\ PresenceSynced(sessions'[t], documents')
             /\ KeepsOwner(sessions[t], sessions'[t])
    BY <1>10, <2>1, <2>5
  <2>7. \A p \in PresenceIds : documents'[p].state # Absent =>
          /\ documents[p].state # Absent
          /\ p \notin PresenceOf(sessions[s], documents)
    BY <2>2, <2>3 DEF PresenceLost
  <2>8. /\ \A t \in SessionIds \ {s} :
             /\ PresenceSynced(sessions'[t], documents')
             /\ KeepsOwner(sessions[t], sessions'[t])
        /\ \A t \in {s} : ~Listening(sessions'[t])
        /\ \A p \in PresenceIds : documents'[p].state # Absent =>
             /\ documents[p].state # Absent
             /\ \A t \in {s} : p \notin PresenceOf(sessions[t], documents)
        /\ {s} \in SUBSET SessionIds
    BY <2>6, <2>7
  <2> QED BY <2>8, PresenceLeaves
<1> QED BY <1>2, <1>9, <1>10

\* closeSession removes the session's record and tells the others.
LEMMA CloseSessionPresence ==
    ASSUME PresenceInv, NEW s \in SessionIds, NEW fatal \in BOOLEAN,
           CloseSession(s, fatal)
    PROVE  PresenceInSync' /\ PresenceOwned'
<1> DEFINE gone == PresenceOf(sessions[s], documents)
<1>1. sessions \in Sessions
  BY DEF PresenceInv, TypeOK, Sessions
<1>2. /\ sessions' = RejectSession(sessions, documents, s, fatal)
      /\ documents' = WithoutRecords(documents, gone)
  BY DEF CloseSession
<1>3. PresenceLost(documents', documents, gone)
  BY <1>2 DEF PresenceLost, WithoutRecords, NoDocument, RecordIds
<1>4. OthersSynced(sessions, s, documents)
  BY DEF OthersSynced, PresenceInv, PresenceInSync, PresenceSynced
<1>5. /\ ~Listening(sessions'[s])
      /\ \A t \in SessionIds \ {s} :
           /\ PresenceSynced(sessions'[t], documents')
           /\ KeepsOwner(sessions[t], sessions'[t])
  BY <1>1, <1>2, <1>3, <1>4, RejectSessionTells
<1>6. /\ \A t \in {s} : ~Listening(sessions'[t])
      /\ \A p \in PresenceIds : documents'[p].state # Absent =>
           /\ documents[p].state # Absent
           /\ \A t \in {s} : p \notin PresenceOf(sessions[t], documents)
      /\ {s} \in SUBSET SessionIds
  BY <1>3, <1>5 DEF PresenceLost
<1> QED BY <1>5, <1>6, PresenceLeaves

\* What a push announces is what it did to each record it names.
LEMMA PushTellsRecord ==
    ASSUME TypeOK, NEW ops \in NetworkDiff, ApplyPush(ops), NEW c \in Session,
           NEW ids, NEW msgs, msgs # <<>>,
           Listening(SendData(c, msgs, ActualChanges(ops, ids))),
           NEW id \in RecordIds, id \in Changed(ops) => id \in ids,
           c.view[id] = documents[id].state
    PROVE  SendData(c, msgs, ActualChanges(ops, ids)).view[id]
             = documents'[id].state
<1> DEFINE diff == ActualChanges(ops, ids)
           d == SendData(c, msgs, diff)
<1>1. d.view = ApplyNetworkDiff(c.view, diff)
  BY ViewAfterSendData
<1>2. DOMAIN c.view = RecordIds
  BY Zenon DEF Session
<1>3. /\ DOMAIN diff = Changed(ops) \cap ids
      /\ id \in Changed(ops) =>
           diff[id] = OpBetween(documents[id].state, Outcome(ops)[id])
  BY DEF ActualChanges
<1>4. documents[id].state \in MaybeRecord /\ Outcome(ops)[id] \in MaybeRecord
  BY OutcomeType DEF TypeOK, DocumentState
<1> HIDE DEF diff, d
<1>5. d.view[id] = IF id \in Changed(ops)
                     THEN ApplyOp(documents[id].state, diff[id])
                     ELSE documents[id].state
  BY <1>1, <1>2, <1>3 DEF ApplyNetworkDiff
<1>6. documents'[id].state = IF id \in Changed(ops) THEN Outcome(ops)[id]
                             ELSE documents[id].state
  BY DEF ApplyPush, TombstonesAfter
<1>7. d.view[id] = documents'[id].state
  BY <1>3, <1>4, <1>5, <1>6, OpBetweenApplies
<1> QED BY <1>7 DEF d, diff

\* handlePushRequest tells the others what it did to the session's presence
\* record; only a failure can leave that record behind.
LEMMA HandlePushRequestPresence ==
    ASSUME PresenceInv, NoGhosts, NEW s \in SessionIds,
           NEW diff \in DocDiffs,
           NEW presence \in PresencePushes,
           NEW clientClock \in Nat,
           HandlePushRequest(s, diff, presence, clientClock)
    PROVE  PresenceInSync' /\ PresenceOwned'
<1> DEFINE ops == PushedOps(sessions[s], diff, presence)
           all == ActualChanges(ops, RecordIds)
           docChanges == ActualChanges(ops, Ids)
           result == PushResult(diff, docChanges, clientClock)
           told == SendData(sessions[s], <<result>>, docChanges)
           answered == [sessions EXCEPT ![s] = told]
<1>1. TypeOK /\ sessions \in Sessions /\ sessions[s] \in Session
  BY DEF PresenceInv, TypeOK, Sessions
<1>2. sessions[s].state = Connected
  BY DEF HandlePushRequest
<1>3. ops \in NetworkDiff
  BY PushedOpsType
<1>4. \A p \in PresenceIds : p \in DOMAIN ops => p = sessions[s].presenceId
  <2>1. DOMAIN diff \subseteq Ids
    BY DEF DocDiffs
  <2> QED BY <2>1, IdsAssumption DEF PushedOps
<1>5. \/ /\ ApplyPush(ops)
         /\ sessions' = IF Changed(ops) = {} THEN answered
                        ELSE BroadcastPatch(answered, all, s)
      \/ /\ Fails(ops) /\ UNCHANGED documents
         /\ sessions' = RejectSession(sessions, DocumentsAtFailure(ops), s, TRUE)
  BY DEF HandlePushRequest, RollbackPush
<1>6. Fails(ops) => PresenceOf(sessions[s], documents) = {}
  <2>1. Fails(ops) => FailedPush(s)
    BY DEF FailedPush
  <2> QED BY <2>1 DEF NoGhosts
<1>7. \A t \in SessionIds : PresenceSynced(sessions[t], documents)
  BY DEF PresenceInv, PresenceInSync, PresenceSynced
<1>8. clock' \in Nat
  BY DEF HandlePushRequest, IncrementClock, PresenceInv, TypeOK
<1> HIDE DEF ops
<1>9. docChanges \in NetworkDiff
  BY <1>1, <1>3, ActualChangesType
<1>10. CASE /\ ApplyPush(ops)
            /\ sessions' = IF Changed(ops) = {} THEN answered
                           ELSE BroadcastPatch(answered, all, s)
  <2>1. \A p \in PresenceIds \ {sessions[s].presenceId} : p \notin Changed(ops)
    BY <1>4 DEF Changed
  <2>2. told \in Session
    <3>1. <<result>> \in Seq(DataMessage)
      BY <1>8, <1>9, PushResultType
    <3> HIDE DEF result
    <3> QED BY <1>1, <1>9, <3>1, SendDataType
  <2>3. PresenceSynced(told, documents') /\ KeepsOwner(sessions[s], told)
    <3>1. KeepsOwner(sessions[s], told)
      BY <1>1, OwnerSendData
    <3>2. ASSUME Listening(told), NEW p \in PresenceIds \ {told.presenceId}
          PROVE  told.view[p] = documents'[p].state
      <4>1. p # sessions[s].presenceId
        BY <3>1, <3>2 DEF KeepsOwner
      <4>2. p \in RecordIds /\ p \notin Changed(ops)
        BY <2>1, <4>1 DEF RecordIds
      <4>3. <<result>> # <<>>
        OBVIOUS
      <4> HIDE DEF result
      <4>4. Listening(sessions[s])
        BY <1>1, <3>2, <4>3, ViewAfterSendData
      <4>5. sessions[s].view[p] = documents[p].state
        BY <1>7, <4>1, <4>4 DEF PresenceSynced
      <4>6. ApplyPush(ops)
        BY <1>10
      <4>7. p \in Changed(ops) => p \in Ids
        BY <4>2
      <4> DEFINE msgs == <<result>>
      <4>8. msgs # <<>> /\ told = SendData(sessions[s], msgs, docChanges)
        BY <4>3
      <4> HIDE DEF msgs
      <4> QED BY <1>1, <1>3, <3>2, <4>2, <4>5, <4>6, <4>7, <4>8,
                 PushTellsRecord
    <3> HIDE DEF told
    <3> QED BY <3>1, <3>2 DEF PresenceSynced
  <2> HIDE DEF told
  <2>4. /\ answered[s] = told
        /\ \A t \in SessionIds \ {s} : answered[t] = sessions[t]
    BY <1>1 DEF Sessions
  <2> HIDE DEF answered
  <2>5. sessions'[s] = told
    BY <1>10, <2>4 DEF BroadcastPatch
  <2>6. ASSUME NEW t \in SessionIds \ {s}
        PROVE  /\ PresenceSynced(sessions'[t], documents')
               /\ KeepsOwner(sessions[t], sessions'[t])
    <3>1. CASE Changed(ops) = {}
      <4>1. documents' = documents /\ sessions'[t] = sessions[t]
        BY <1>1, <1>10, <2>4, <3>1, NothingChanged
      <4> QED BY <1>7, <4>1 DEF KeepsOwner
    <3>2. CASE Changed(ops) # {}
      <4> DEFINE msgs == <<PatchMessage(all)>>
                 d == SendData(sessions[t], msgs, all)
      <4>1. sessions'[t] = d
        BY <1>10, <2>4, <3>2 DEF BroadcastPatch
      <4>2. sessions[t] \in Session /\ msgs # <<>>
        BY <1>1 DEF Sessions
      <4> HIDE DEF msgs
      <4>3. KeepsOwner(sessions[t], d)
        BY <4>2, OwnerSendData
      <4>4. ASSUME Listening(d), NEW p \in PresenceIds \ {d.presenceId}
            PROVE  d.view[p] = documents'[p].state
        <5>1. Listening(sessions[t])
          BY <4>2, <4>4, ViewAfterSendData
        <5>2. sessions[t].view[p] = documents[p].state
          BY <1>7, <4>3, <4>4, <5>1 DEF PresenceSynced, KeepsOwner
        <5>3. p \in RecordIds
          BY DEF RecordIds
        <5> QED BY <1>1, <1>3, <1>10, <4>2, <4>4, <5>2, <5>3, PushTellsRecord
      <4> HIDE DEF d
      <4> QED BY <4>1, <4>3, <4>4 DEF PresenceSynced
    <3> QED BY <3>1, <3>2
  <2>7. ASSUME NEW p \in PresenceIds, documents'[p].state # Absent
        PROVE  \/ documents[p].state # Absent
               \/ \E t \in SessionIds : /\ sessions[t].state # "none"
                                        /\ sessions[t].presenceId = p
    <3>1. CASE p = sessions[s].presenceId
      BY <1>2, <3>1 DEF Connected
    <3>2. CASE p # sessions[s].presenceId
      <4>1. documents'[p] = documents[p]
        BY <1>10, <2>1, <3>2 DEF ApplyPush, TombstonesAfter, RecordIds
      <4> QED BY <2>7, <4>1
    <3> QED BY <3>1, <3>2
  <2>8. \A t \in SessionIds : /\ PresenceSynced(sessions'[t], documents')
                              /\ KeepsOwner(sessions[t], sessions'[t])
    BY <2>3, <2>5, <2>6
  <2> QED BY <2>7, <2>8, PresenceKept
<1>11. CASE /\ Fails(ops) /\ UNCHANGED documents
            /\ sessions' =
                 RejectSession(sessions, DocumentsAtFailure(ops), s, TRUE)
  <2> DEFINE docs == DocumentsAtFailure(ops)
  <2>1. PresenceLost(documents', documents, PresenceOf(sessions[s], docs))
    <3>1. \A p \in PresenceIds : p \in PresenceOf(sessions[s], docs) =>
            documents[p].state = Absent
      BY <1>6, <1>11 DEF PresenceOf
    <3> QED BY <1>11, <3>1 DEF PresenceLost
  <2> HIDE DEF docs
  <2>2. ASSUME NEW f \in BOOLEAN, sessions' = RejectSession(sessions, docs, s, f)
        PROVE  /\ ~Listening(sessions'[s])
               /\ \A t \in SessionIds \ {s} :
                    /\ PresenceSynced(sessions'[t], documents')
                    /\ KeepsOwner(sessions[t], sessions'[t])
    BY <1>1, <1>7, <2>1, <2>2, RejectSessionTells DEF OthersSynced
  <2>3. /\ ~Listening(sessions'[s])
        /\ \A t \in SessionIds \ {s} :
             /\ PresenceSynced(sessions'[t], documents')
             /\ KeepsOwner(sessions[t], sessions'[t])
    BY <1>11, <2>2 DEF docs
  <2>4. /\ \A t \in {s} : ~Listening(sessions'[t])
        /\ \A p \in PresenceIds : documents'[p].state # Absent =>
             /\ documents[p].state # Absent
             /\ \A t \in {s} : p \notin PresenceOf(sessions[t], documents)
        /\ {s} \in SUBSET SessionIds
    BY <1>6, <1>11, <2>3
  <2> QED BY <2>3, <2>4, PresenceLeaves
<1> QED BY <1>5, <1>10, <1>11

\* An updateStore does nothing to presence records.
LEMMA CommitUpdateStorePresence ==
    ASSUME PresenceInv, NEW target \in StoreTargets, CommitUpdateStore(target)
    PROVE  PresenceInSync' /\ PresenceOwned'
<1> DEFINE ops == ToDiff(storeUpdate, target)
           diff == ActualChanges(ops, Ids)
           msgs == <<PatchMessage(diff)>>
<1>1. TypeOK /\ \A t \in SessionIds : sessions[t] \in Session
  BY DEF PresenceInv, TypeOK
<1>2. ops \in NetworkDiff
  <2>1. storeUpdate \in [Ids -> MaybeRecord]
    BY DEF CommitUpdateStore, PresenceInv, TypeOK
  <2> QED BY <2>1, RoomAssumption, ToDiffType
<1>3. \/ /\ UNCHANGED documents \/ ApplyPush(ops)
         /\ UNCHANGED sessions
      \/ /\ ApplyPush(ops)
         /\ sessions' = BroadcastPatch(sessions, diff, NoPresence)
  BY DEF CommitUpdateStore, RollbackPush
<1>4. \A p \in PresenceIds : p \in RecordIds /\ p \notin Changed(ops)
  BY IdsAssumption DEF Changed, ToDiff, RecordIds
<1> HIDE DEF ops
<1>5. \A p \in PresenceIds : documents'[p] = documents[p]
  BY <1>3, <1>4 DEF ApplyPush, TombstonesAfter
<1>6. CASE UNCHANGED sessions
  BY <1>5, <1>6, UntoldStep DEF Untold, KeepsOwner
<1>7. CASE /\ ApplyPush(ops)
           /\ sessions' = BroadcastPatch(sessions, diff, NoPresence)
  <2>1. ASSUME NEW t \in SessionIds
        PROVE  /\ PresenceSynced(sessions'[t], documents')
               /\ KeepsOwner(sessions[t], sessions'[t])
    <3> DEFINE d == SendData(sessions[t], msgs, diff)
    <3>1. t # NoPresence
      BY RoomAssumption
    <3>2. sessions'[t] = d
      BY <1>7, <3>1 DEF BroadcastPatch
    <3>3. msgs # <<>> /\ sessions[t] \in Session
      BY <1>1
    <3> HIDE DEF msgs
    <3>4. KeepsOwner(sessions[t], d)
      BY <3>3, OwnerSendData
    <3>5. ASSUME Listening(d), NEW p \in PresenceIds \ {d.presenceId}
          PROVE  d.view[p] = documents'[p].state
      <4>1. Listening(sessions[t])
        BY <3>3, <3>5, ViewAfterSendData
      <4>2. sessions[t].view[p] = documents[p].state
        BY <3>4, <3>5, <4>1
           DEF PresenceInv, PresenceInSync, KeepsOwner
      <4> QED BY <1>1, <1>2, <1>4, <1>7, <3>3, <3>5, <4>2, PushTellsRecord
    <3> HIDE DEF d
    <3> QED BY <3>2, <3>4, <3>5 DEF PresenceSynced
  <2> QED BY <1>5, <2>1, PresenceKept
<1> QED BY <1>3, <1>6, <1>7

\* A pass of pruneSessions tells those it keeps of all that goes.
LEMMA PruneSessionsPresence ==
    ASSUME PresenceInv, NEW timedOut \in SUBSET SessionIds,
           PruneSessions(timedOut)
    PROVE  PresenceInSync' /\ PresenceOwned'
<1> DEFINE Expired(s) == s \in timedOut \/ ~sessions[s].open
           canceled == {s \in SessionIds :
                          sessions[s].state = Connected /\ Expired(s)}
           removed == {s \in SessionIds :
                         \/ sessions[s].state = AwaitingConnectMessage
                            /\ Expired(s)
                         \/ sessions[s].state = AwaitingRemoval
                            /\ s \in timedOut}
           gone == UNION {PresenceOf(sessions[s], documents) : s \in removed}
<1>1. PICK order \in Orders(gone),
           seen \in [canceled -> 0..Cardinality(gone)] :
        sessions' = [s \in SessionIds |->
           IF s \in removed THEN RemovedSession(sessions[s], FALSE)
           ELSE IF s \in canceled
             THEN CancelSession(SendRemovals(sessions[s], order, seen[s]))
           ELSE SendRemovals(sessions[s], order, Cardinality(gone))]
  BY DEF PruneSessions
<1>2. documents' = WithoutRecords(documents, gone) /\ clock' \in Nat
  BY DEF PruneSessions, ClocksUnchanged, PresenceInv, TypeOK
<1>3. gone \in SUBSET PresenceIds /\ Cardinality(gone) \in Nat
  BY FinitelyManyGone
<1>4. removed \in SUBSET SessionIds
  OBVIOUS
<1>5. \A s \in removed : PresenceOf(sessions[s], documents) \subseteq gone
  OBVIOUS
<1> HIDE DEF removed, canceled, gone
<1>6. PresenceLost(documents', documents, gone)
  BY <1>2 DEF PresenceLost, WithoutRecords, NoDocument, RecordIds
<1>7. ASSUME NEW t \in SessionIds \ removed
      PROVE  /\ PresenceSynced(sessions'[t], documents')
             /\ KeepsOwner(sessions[t], sessions'[t])
  <2>1. /\ sessions[t] \in Session
        /\ PresenceSynced(sessions[t], documents)
    BY DEF PresenceInv, PresenceInSync, PresenceSynced, TypeOK
  <2>2. CASE t \in canceled
    <3> DEFINE c == SendRemovals(sessions[t], order, seen[t])
    <3>1. seen[t] \in 0..Cardinality(gone)
      BY <2>2
    <3>2. seen[t] \in Nat /\ \A i \in 1..seen[t] : order[i] \in RecordIds
      BY <1>3, <3>1 DEF Orders, RecordIds
    <3>3. c \in Session
      BY <1>2, <2>1, <3>2, SendRemovalsType
    <3>4. KeepsOwner(sessions[t], c)
      BY <2>1, OwnerSendData DEF SendRemovals
    <3> HIDE DEF c
    <3>5. sessions'[t] = CancelSession(c)
      BY <1>1, <2>2 DEF c
    <3>6. KeepsOwner(c, CancelSession(c)) /\ ~Listening(CancelSession(c))
      BY <3>3, UntoldCancel, CanceledIsDeaf DEF Untold
    <3> QED BY <3>4, <3>5, <3>6 DEF KeepsOwner, PresenceSynced
  <2>3. CASE t \notin canceled
    <3> DEFINE n == Cardinality(gone)
               msgs == [i \in 1..n |-> PatchMessage(RemovalOf({order[i]}))]
               ids == {order[i] : i \in 1..n}
    <3>1. sessions'[t] = SendData(sessions[t], msgs, RemovalOf(ids))
      BY <1>1, <2>3 DEF SendRemovals
    <3>2. ids = gone
      <4>1. order \in [1..n -> gone]
            /\ \A x \in gone : \E i \in DOMAIN order : order[i] = x
        BY DEF Orders
      <4> HIDE DEF n
      <4> QED BY <4>1
    <3>3. msgs = <<>> => gone = {}
      <4>1. ASSUME msgs = <<>> PROVE 1..n = {}
        <5>1. DOMAIN msgs = 1..n
          OBVIOUS
        <5>2. DOMAIN <<>> = {}
          OBVIOUS
        <5> HIDE DEF msgs
        <5> QED BY <4>1, <5>1, <5>2
      <4>2. ASSUME 1..n = {} PROVE ids = {}
        <5> HIDE DEF n
        <5> QED BY <4>2
      <4> QED BY <3>2, <4>1, <4>2
    <3> HIDE DEF msgs, ids, n
    <3>4. PresenceSynced(SendData(sessions[t], msgs, RemovalOf(gone)),
                         documents')
      BY <1>6, <2>1, <3>3, SendDataRemoves
    <3>5. KeepsOwner(sessions[t], SendData(sessions[t], msgs, RemovalOf(gone)))
      BY <2>1, OwnerSendData
    <3> QED BY <3>1, <3>2, <3>4, <3>5
  <2> QED BY <2>2, <2>3
<1>8. \A t \in removed : ~Listening(sessions'[t])
  BY <1>1, <1>4, RemovedIsDeaf
<1>9. \A p \in PresenceIds : documents'[p].state # Absent =>
        /\ documents[p].state # Absent
        /\ \A t \in removed : p \notin PresenceOf(sessions[t], documents)
  BY <1>5, <1>6 DEF PresenceLost
<1> QED BY <1>4, <1>7, <1>8, <1>9, PresenceLeaves

\* Every step but a failed push with presence keeps track of presence.
LEMMA NextPresenceInv ==
    ASSUME PresenceInv, [OpenNext]_vars, [NoGhosts]_vars
    PROVE  PresenceInv'
<1> DEFINE Kept == PresenceInSync' /\ PresenceOwned'
<1>1. TypeOK'
  BY NextType DEF PresenceInv
<1> SUFFICES Kept
  BY <1>1 DEF PresenceInv
<1>2. CASE UNCHANGED vars
  BY <1>2 DEF vars, PresenceInv, PresenceInSync, PresenceOwned, Listening
<1>3. ASSUME NEW s \in SessionIds, OpenSessionNext(s), NoGhosts
      PROVE  Kept
  <2>1. ASSUME NEW isReadonly \in BOOLEAN, HandleNewSession(s, isReadonly)
        PROVE  Kept
    BY <2>1, HandleNewSessionPresence
  <2>2. ASSUME NEW k \in Nat, NEW version,
               NEW schemaOk \in BOOLEAN, NEW reqId \in Nat,
               HandleConnectRequest(s, k, version, schemaOk, reqId)
        PROVE  Kept
    <3>1. k \in Nat
      BY RoomAssumption
    <3> QED BY <2>2, <3>1, HandleConnectRequestPresence
  <2>3. ASSUME NEW diff \in DocDiffs,
               NEW presence \in PresencePushes,
               NEW clientClock \in Nat,
               HandlePushRequest(s, diff, presence, clientClock)
        PROVE  Kept
    BY <1>3, <2>3, HandlePushRequestPresence
  <2>4. ASSUME NEW fatal \in BOOLEAN, CloseSession(s, fatal)
        PROVE  Kept
    BY <2>4, CloseSessionPresence
  <2>5. CASE \/ HandlePing(s) \/ FlushTimer(s) \/ HandleClose(s)
             \/ Deliver(s) \/ SocketCloses(s)
    BY <2>5, SessionOpsPresence
  <2> QED BY <1>3, <2>1, <2>2, <2>3, <2>4, <2>5 DEF OpenSessionNext
<1>4. ASSUME NEW target \in StoreTargets, CommitUpdateStore(target)
      PROVE  Kept
  BY <1>4, CommitUpdateStorePresence
<1>5. ASSUME NEW timedOut \in SUBSET SessionIds, PruneSessions(timedOut)
      PROVE  Kept
  BY <1>5, PruneSessionsPresence
<1>6. CASE Close
  <2>1. ASSUME NEW t \in SessionIds PROVE Untold(sessions[t], sessions'[t])
    <3>1. sessions[t] \in Session
      BY DEF PresenceInv, TypeOK
    <3>2. sessions'[t] \in {sessions[t], CloseSocket(sessions[t], FALSE)}
      BY <1>6 DEF Close
    <3>3. Untold(sessions[t], sessions[t])
      BY DEF Untold, KeepsOwner
    <3> QED BY <3>1, <3>2, <3>3, UntoldCloseSocket
  <2> QED BY <1>6, <2>1, UntoldStep DEF Close, RecordsUnchanged
<1>7. CASE PruneTombstones \/ BeginUpdateStore
  <2>1. UNCHANGED <<sessions, documents>>
    BY <1>7 DEF PruneTombstones, BeginUpdateStore
  <2> QED BY <2>1, UntoldStep DEF Untold, KeepsOwner
<1> HIDE DEF Kept
<1> QED BY <1>2, <1>3, <1>4, <1>5, <1>6, <1>7 DEF OpenNext

\* The room keeps track of presence for as long as no push fails in a session
\* that has a presence record.
LEMMA PresenceInvCorrect == Spec /\ [][NoGhosts]_vars => []PresenceInv
<1>1. Init => PresenceInv
  <2> SUFFICES ASSUME Init PROVE PresenceInv
    OBVIOUS
  <2>1. /\ sessions = [s \in SessionIds |-> NoSession]
        /\ \A p \in PresenceIds : documents[p].state = Absent
    <3>1. PICK docs \in InitialDocs :
            documents = [id \in RecordIds |->
                           [state |-> IF id \in Ids THEN docs[id] ELSE Absent,
                            lastChangedClock |-> 0]]
      BY DEF Init
    <3>2. \A p \in PresenceIds : p \in RecordIds /\ p \notin Ids
      BY IdsAssumption DEF RecordIds
    <3> QED BY <3>1, <3>2 DEF Init
  <2>2. NoSession.state # Connected
    BY DEF NoSession, Connected
  <2>3. PresenceInSync
    BY <2>1, <2>2 DEF PresenceInSync, Listening
  <2>4. PresenceOwned
    BY <2>1 DEF PresenceOwned
  <2> QED BY <2>3, <2>4, InitType DEF PresenceInv
<1>2. PresenceInv /\ [OpenNext]_vars /\ [NoGhosts]_vars => PresenceInv'
  BY NextPresenceInv
<1> QED BY <1>1, <1>2, SpecIsOpen, PTL DEF OpenSpec

\* Every session has the presence of every other session as the room has it:
\* whatever connects, moves, leaves, is pruned or is rejected, no cursor stays
\* behind and none is lost, unless a push fails in a session with a presence
\* record.
THEOREM PresenceInSyncCorrect ==
    Spec /\ [][NoGhosts]_vars => []PresenceInSync
<1>1. PresenceInv => PresenceInSync
  BY DEF PresenceInv
<1> QED BY <1>1, PresenceInvCorrect, PTL

\* A presence record always belongs to a session in the table, so removeSession
\* will remove it, unless a push fails in a session with a presence record.
THEOREM PresenceOwnedCorrect ==
    Spec /\ [][NoGhosts]_vars => []PresenceOwned
<1>1. PresenceInv => PresenceOwned
  BY DEF PresenceInv
<1> QED BY <1>1, PresenceInvCorrect, PTL

\* In a room whose validators accept every record no push fails, and presence
\* is always in sync and owned.
THEOREM PresenceWithoutRejections ==
    ASSUME BadRecords = {}
    PROVE  Spec => [](PresenceInSync /\ PresenceOwned)
<1>1. NoGhosts
  BY DEF NoGhosts, FailedPush, Fails, Invalid, IsValid
<1>2. PresenceInv => PresenceInSync /\ PresenceOwned
  BY DEF PresenceInv
<1> QED BY <1>1, <1>2, PresenceInvCorrect, PTL
=============================================================================
