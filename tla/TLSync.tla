-------------------------------- MODULE TLSync --------------------------------
(***************************************************************************)
(* Clients, the room and the sockets between them.                         *)
(*                                                                         *)
(* A client is known to the room by the session id of its tab.  What the   *)
(* room sends travels in sessions[s].wire, what the client sends in        *)
(* clients[s].out.  Either end of a socket may find it closed before the   *)
(* other does; a client that is offline opens a new one.                   *)
(***************************************************************************)
EXTENDS TLSyncRoom, TLSyncClient

CONSTANT Scenarios  \* what users, sockets and timers may do, and how often

(***************************************************************************)
(* edits, moves: what each user may make of each document record, and what *)
(* a user's presence may become.  late: messages of a closed socket may    *)
(* reach the room late.  timeOuts: the sessions whose time is up at a pass *)
(* of pruneSessions.  Bounds: initial, the room's documents at first;      *)
(* maxEdits and maxRequests, the edits and connect requests of each client.*)
(***************************************************************************)
Scenario ==
    [edits : [SessionIds -> [Ids -> SUBSET MaybeRecord]],
     moves : SUBSET Record, late : BOOLEAN, timeOuts : SUBSET SUBSET SessionIds,
     initial : SUBSET InitialDocs,
     maxEdits : [SessionIds -> Nat], maxRequests : [SessionIds -> Nat]]

ASSUME SyncAssumption == Scenarios \subseteq Scenario

VARIABLES
    clients,  \* session id -> client
    late,     \* session id -> messages of its earlier sockets, in order
    scenario  \* what may happen in this behaviour; it never changes

syncVars == <<vars, clients, late, scenario>>

SyncInit ==
    /\ Init
    /\ clients = [s \in SessionIds |-> NewClient]
    /\ late = [s \in SessionIds |-> <<>>]
    /\ scenario \in Scenarios
    /\ hist[clock] \in scenario.initial

\* A step of one client that nobody else sees.
ClientStep(s, next) ==
    /\ clients' = [clients EXCEPT ![s] = next]
    /\ UNCHANGED <<vars, late, scenario>>

-----------------------------------------------------------------------------
\* A user changes, creates or deletes a record, on a page that has loaded.
Edit(s, id, record) ==
    LET c == clients[s]
    IN  /\ c.loaded /\ c.status # SocketClosed
        /\ c.edits < scenario.maxEdits[s]
        /\ record # c.store[id]
        /\ ClientStep(s, [UserChange(c, [c.store EXCEPT ![id] = record])
                            EXCEPT !.edits = @ + 1])

\* A user's cursor moves.
Move(s, presence) ==
    LET c == clients[s]
    IN  /\ c.loaded /\ c.status # SocketClosed
        /\ c.edits < scenario.maxEdits[s]
        /\ presence # c.presence
        /\ ClientStep(s, [PushPresence(c, presence) EXCEPT !.edits = @ + 1])

\* The throttled functions run.
ListenerFlush(s) ==
    /\ clients[s].status # SocketClosed
    /\ clients[s].history # <<>>
    /\ ClientStep(s, FlushHistory(clients[s]))

SendPushes(s) ==
    LET c == clients[s]
    IN  /\ c.isConnectedToRoom /\ c.status = SocketOnline
        /\ HasUnsentPushes(c)
        /\ ClientStep(s, FlushPendingPushRequests(c))

RunRebase(s) ==
    /\ clients[s].incomingDiffBuffer # <<>>
    /\ \E early \in SUBSET Ids : ClientStep(s, Rebase(clients[s], early))

-----------------------------------------------------------------------------
\* A client opens a socket and sends its connect request.
Connect(s) ==
    LET c == clients[s]
    IN  /\ c.status = SocketOffline
        /\ c.requests < scenario.maxRequests[s]
        /\ HandleNewSession(s, FALSE)
        /\ clients' = [clients EXCEPT ![s] =
                         SendConnectMessage([c EXCEPT !.out = <<>>])]
        /\ late' = [late EXCEPT ![s] =
                      IF scenario.late THEN @ \o c.out ELSE <<>>]
        /\ UNCHANGED scenario

\* Bound: the last connection of a client lasts.
MayLose(s) == clients[s].requests < scenario.maxRequests[s]

\* The socket closes, or a health check or a ping fails and restarts it.  The
\* room does not know yet.
LoseConnection(s) ==
    /\ clients[s].status = SocketOnline
    /\ MayLose(s)
    /\ ClientStep(s, ConnectionLost(clients[s], FALSE))

\* The client receives a message, or learns that the room closed its socket.
ClientReceive(s) ==
    LET msg == Head(sessions[s].wire)
    IN  /\ clients[s].status = SocketOnline
        /\ Deliver(s)
        /\ clients' = [clients EXCEPT ![s] =
             IF msg.type = "close" THEN ConnectionLost(@, msg.fatal)
             ELSE HandleServerEvent(@, msg)]
        /\ UNCHANGED <<late, scenario>>

-----------------------------------------------------------------------------
\* TLSocketRoom.handleSocketMessage: the room handles a message of a session in
\* its table; it ignores a push of a session that is not connected.
RoomHandles(s, msg) ==
    \/ /\ msg.type = "connect"
       /\ HandleConnectRequest(s, msg.lastServerClock, TLSYNC_PROTOCOL_VERSION,
                               TRUE, msg.connectRequestId)
    \/ /\ msg.type = "push"
       /\ HandlePushRequest(s, msg.diff, msg.presence, msg.clientClock)
    \/ /\ \/ sessions[s].state = "none"
          \/ sessions[s].state # Connected /\ msg.type = "push"
       /\ UNCHANGED vars

RoomReceive(s) ==
    /\ clients[s].out # <<>>
    /\ RoomHandles(s, Head(clients[s].out))
    /\ clients' = [clients EXCEPT ![s].out = Tail(@)]
    /\ UNCHANGED <<late, scenario>>

\* A connect request that discards what waits for the debounce timer.
Discards(s, msg) == msg.type = "connect" /\ sessions[s].outstanding # <<>>

\* Socket listeners know the session's id and not their socket: what an earlier
\* socket of the tab still delivers is taken for the session's.
RoomReceiveLate(s) ==
    LET msg == Head(late[s])
    IN  /\ late[s] # <<>>
        /\ RoomHandles(s, msg)
        /\ late' = [late EXCEPT ![s] = Tail(@)]
        /\ clients' = [clients EXCEPT ![s].astray = @ \/ Discards(s, msg)]
        /\ UNCHANGED scenario

\* The room's own steps.  A close event is that of the session's socket.
RoomStep ==
    /\ \/ \E s \in SessionIds :
            \/ FlushTimer(s)
            \/ MayLose(s) /\ SocketCloses(s)
            \/ ~sessions[s].open /\ HandleClose(s)
       \/ \E timedOut \in scenario.timeOuts : PruneSessions(timedOut)
       \/ PruneTombstones
    /\ UNCHANGED <<clients, late, scenario>>

SyncNext ==
    \/ \E s \in SessionIds :
         \/ \E id \in Ids : \E record \in scenario.edits[s][id] :
              Edit(s, id, record)
         \/ \E presence \in scenario.moves : Move(s, presence)
         \/ ListenerFlush(s)
         \/ SendPushes(s)
         \/ RunRebase(s)
         \/ Connect(s)
         \/ LoseConnection(s)
         \/ ClientReceive(s)
         \/ RoomReceive(s)
         \/ RoomReceiveLate(s)
    \/ RoomStep

SyncSpec == SyncInit /\ [][SyncNext]_syncVars

(***************************************************************************)
(* Throttled functions and debounce timers run, sockets that stay open     *)
(* deliver, both ends hear of a closed socket, and a client that is        *)
(* offline tries again.  Nothing is assumed of users, and nothing of a     *)
(* connection but that the last one lasts.  That the buffer is empty again *)
(* and again is weak fairness of RunRebase, which empties it.              *)
(***************************************************************************)
Fairness(s) ==
    /\ []<>(clients[s].incomingDiffBuffer = <<>>)
    /\ WF_syncVars(ListenerFlush(s))
    /\ WF_syncVars(SendPushes(s))
    /\ WF_syncVars(Connect(s))
    /\ WF_syncVars(~sessions[s].open /\ LoseConnection(s))
    /\ WF_syncVars(ClientReceive(s))
    /\ WF_syncVars(RoomReceive(s))
    /\ WF_syncVars(FlushTimer(s) /\ UNCHANGED <<clients, late, scenario>>)

FairSyncSpec == SyncSpec /\ \A s \in SessionIds : Fairness(s)

-----------------------------------------------------------------------------
SyncTypeOK ==
    /\ \A s \in SessionIds : IsClient(clients[s])
    /\ \A s \in SessionIds : \A i \in DOMAIN late[s] :
         late[s][i].type \in {"connect", "push"}

\* Undoing what a client has not flushed and what is speculative leaves the
\* document records of the room as they were at lastServerClock, whatever was
\* pushed, answered, lost or done meanwhile: what the comment on
\* speculativeChanges says.
ConfirmedIsRoom(c) ==
    c.loaded => Confirmed(c) = hist[c.lastServerClock]

\* As far as the code keeps it: for a client that never connected anew with
\* changes that its listener had not seen, nor failed to apply its pending
\* changes again after some of them, and whose earlier sockets have not made the
\* room discard messages to it.
ConfirmedIsRoomUnlessAstray ==
    \A s \in SessionIds : clients[s].astray \/ ConfirmedIsRoom(clients[s])

\* rebase never meets an answer for a request that is not at the front of the
\* queue: sessions, sockets and requests are matched right, unless an earlier
\* socket of the tab delivers a request that the client has forgotten.
AnswersInOrder ==
    ~scenario.late => \A s \in SessionIds : AnswersMatch(clients[s])

\* What a connected client shows beyond the room's records is on its way: the
\* pending requests, applied again to the confirmed records, give the records
\* in the store, but for changes that the listener has not seen.
NothingUnpushed ==
    \A s \in SessionIds :
        LET c == clients[s]
        IN  c.isConnectedToRoom /\ ~c.astray =>
              Flushed(c) = WithPending(c, Confirmed(c))

\* Nothing is on its way, and everybody is connected.
Quiet ==
    \A s \in SessionIds :
        /\ clients[s].isConnectedToRoom /\ clients[s].status = SocketOnline
        /\ sessions[s].state = Connected /\ sessions[s].open
        /\ <<>> = clients[s].history
        /\ <<>> = clients[s].pendingPushRequests
        /\ <<>> = clients[s].incomingDiffBuffer
        /\ <<>> = clients[s].out
        /\ <<>> = sessions[s].wire
        /\ <<>> = sessions[s].outstanding

HasRoomDocuments(c) ==
    \A id \in Ids : c.store[id] = documents[id].state

\* Everybody gets there: edits are pushed, answered and rebased, reconnections
\* complete, and from then on all is quiet and everybody has the same records.
SettlesDown ==
    <>[](Quiet /\ \A s \in SessionIds :
                    clients[s].astray \/ HasRoomDocuments(clients[s]))

HasPeersPresence(s) ==
    \A p \in PresenceIds \ {sessions[s].presenceId} :
        clients[s].store[p] = documents[p].state

RoomHasPresence(s) ==
    LET pushed == clients[s].lastPushedPresenceState
    IN  pushed # Absent => documents[sessions[s].presenceId].state = pushed

\* When all is quiet every client has the room's document records and its peers'
\* presence as the room has it, and the room has the presence that the client
\* pushed last, whether that was put, patched, or joined to a push of documents.
Converged ==
    Quiet => \A s \in SessionIds :
        /\ \/ clients[s].astray
           \/ HasRoomDocuments(clients[s]) /\ HasPeersPresence(s)
        /\ RoomHasPresence(s)

\* syncFuzz.test.ts: "all stores should be the same", after every flush.
AllStoresTheSame ==
    Quiet => \A s \in SessionIds : HasRoomDocuments(clients[s])

\* Clients and room together are a shared document: the room's documents have
\* one history, and what a client takes for confirmed is a version of it that
\* only ever moves forward, whatever is lost, answered late or done again.
Shared ==
    INSTANCE SharedDocument
        WITH Clients <- SessionIds,
             Documents <- [Ids -> MaybeRecord],
             NoCopy <- [id \in Ids |-> Absent],
             latest <- clock,
             versions <- hist,
             seen <- [s \in SessionIds |-> clients[s].lastServerClock],
             astray <- {s \in SessionIds : clients[s].astray},
             copy <- [s \in SessionIds |->
                        IF clients[s].loaded /\ ~clients[s].astray
                          THEN Confirmed(clients[s])
                          ELSE [id \in Ids |-> Absent]]

ImplementsSharedDocument == Shared!Spec
=============================================================================
