------------------------ MODULE ClientWebSocketAdapter ------------------------
(***************************************************************************)
(* The socket that keeps coming back: the adapter and its ReconnectManager *)
(* in packages/sync-core/src/lib/ClientWebSocketAdapter.ts, as the browser *)
(* drives them with socket events, timers, promises and hints that the     *)
(* network is back.                                                        *)
(*                                                                         *)
(* Time passes in ticks.  A timer may fire late, never early.              *)
(***************************************************************************)
EXTENDS Integers

CONSTANTS
    ACTIVE_MIN_DELAY, ACTIVE_MAX_DELAY,      \* in ticks, as all delays
    INACTIVE_MIN_DELAY, INACTIVE_MAX_DELAY,
    ATTEMPT_TIMEOUT,
    MaxUris  \* bound: the pending getUri promises that are told apart

ASSUME AdapterAssumption ==
    /\ {ACTIVE_MIN_DELAY, ACTIVE_MAX_DELAY, INACTIVE_MIN_DELAY,
        INACTIVE_MAX_DELAY, ATTEMPT_TIMEOUT, MaxUris} \subseteq Nat \ {0}
    /\ ACTIVE_MIN_DELAY <= INACTIVE_MIN_DELAY
    /\ ACTIVE_MIN_DELAY <= ACTIVE_MAX_DELAY
    /\ INACTIVE_MIN_DELAY <= INACTIVE_MAX_DELAY

Off == -1    \* a timer that is not set
Never == -1  \* lastAttemptStart is null

Least(i, j) == IF i < j THEN i ELSE j
Greatest(i, j) == IF i < j THEN j ELSE i

\* From this age on, an attempt is older than every delay.
OldAge == Greatest(Greatest(ACTIVE_MAX_DELAY, INACTIVE_MAX_DELAY),
                   ATTEMPT_TIMEOUT)

VARIABLES
    adapter,  \* the adapter and its manager, on the page's one thread
    world     \* what may happen in this behaviour; it never changes

vars == <<adapter, world>>

(***************************************************************************)
(* ws is the readyState of the adapter's socket, null if it has none.      *)
(* orphans are the readyStates of earlier sockets that have not closed.    *)
(* age is the time since lastAttemptStart.  uris counts the promises that  *)
(* scheduleAttempt is waiting for.  hidden is document.hidden.             *)
(***************************************************************************)
Adapter ==
    [ws : {"null", "connecting", "open", "closing", "closed"},
     orphans : SUBSET {"connecting", "open", "closing"},
     status : {"online", "offline", "error"},
     state : {"pendingAttempt", "pendingAttemptResult", "delay", "connected"},
     intendedDelay : 1..OldAge,
     age : 0..OldAge \cup {Never},
     reconnectTimeout : 0..OldAge \cup {Off},
     recheckConnectingTimeout : 0..OldAge \cup {Off},
     uris : 0..MaxUris,
     isDisposed : BOOLEAN, hidden : BOOLEAN]

\* closingIsSeen: other code runs between a closing handshake and onclose.
\* uriMayFail: getUri may reject, or return what is no URL.
World == [closingIsSeen : BOOLEAN, uriMayFail : BOOLEAN]

\* The constructor schedules the first attempt.
Init ==
    /\ \E isHidden \in BOOLEAN :
         adapter = [ws |-> "null", orphans |-> {}, status |-> "offline",
                    state |-> "pendingAttempt",
                    intendedDelay |-> ACTIVE_MIN_DELAY, age |-> Never,
                    reconnectTimeout |-> Off, recheckConnectingTimeout |-> Off,
                    uris |-> 1, isDisposed |-> FALSE, hidden |-> isHidden]
    /\ world \in World

-----------------------------------------------------------------------------
(***************************************************************************)
(* ReconnectManager.                                                       *)
(***************************************************************************)
GetMinDelay(m) == IF m.hidden THEN INACTIVE_MIN_DELAY ELSE ACTIVE_MIN_DELAY
GetMaxDelay(m) == IF m.hidden THEN INACTIVE_MAX_DELAY ELSE ACTIVE_MAX_DELAY

\* A mutant: the delay may grow beyond the longest one.
NextDelayUncapped(m) ==
    (3 * Greatest(GetMinDelay(m), m.intendedDelay) + 1) \div 2

\* The delay after the next attempt: DELAY_EXPONENT is 1.5, in whole ticks.
NextDelay(m) ==
    Least(GetMaxDelay(m),
          (3 * Greatest(GetMinDelay(m), m.intendedDelay) + 1) \div 2)

Live(m) == m.ws \in {"open", "connecting"}

ScheduleAttempt(m) == [m EXCEPT !.uris = Least(@ + 1, MaxUris)]

\* How long to wait before the next attempt.
DelayLeft(m) ==
    IF m.state = "connected" THEN GetMinDelay(m)
    ELSE IF m.age = Never THEN 0 ELSE m.intendedDelay - m.age

\* Two mutants: a delay that is over is not followed by an attempt; a fresh
\* disconnection does not wait.
DisconnectedForgetful(m) ==
    IF Live(m) THEN m
    ELSE IF DelayLeft(m) > 0
      THEN [m EXCEPT !.intendedDelay = IF m.state = "connected"
                                         THEN GetMinDelay(m) ELSE @,
                     !.state = "delay", !.reconnectTimeout = DelayLeft(m)]
    ELSE [m EXCEPT !.state = "pendingAttempt", !.reconnectTimeout = Off,
                   !.intendedDelay = NextDelay(m)]
DisconnectedAtOnce(m) ==
    IF Live(m) THEN m
    ELSE ScheduleAttempt([m EXCEPT !.state = "pendingAttempt",
                                   !.reconnectTimeout = Off,
                                   !.intendedDelay = NextDelay(m)])

\* disconnected.
Disconnected(m) ==
    IF Live(m) THEN m
    ELSE IF DelayLeft(m) > 0
      THEN [m EXCEPT !.intendedDelay = IF m.state = "connected"
                                         THEN GetMinDelay(m) ELSE @,
                     !.state = "delay", !.reconnectTimeout = DelayLeft(m)]
    ELSE ScheduleAttempt([m EXCEPT !.state = "pendingAttempt",
                                   !.reconnectTimeout = Off,
                                   !.intendedDelay = NextDelay(m)])

\* connected.
ConnectedTo(m) ==
    IF m.ws # "open" THEN m
    ELSE [m EXCEPT !.state = "connected", !.reconnectTimeout = Off,
                   !.intendedDelay = ACTIVE_MIN_DELAY]

-----------------------------------------------------------------------------
(***************************************************************************)
(* The adapter.                                                            *)
(***************************************************************************)
\* _handleDisconnect, with the status that the reason and the close code give.
HandleDisconnect(m, newStatus) ==
    Disconnected(IF newStatus = "error" /\ m.status = "offline"
                   THEN m ELSE [m EXCEPT !.status = newStatus])

\* A socket that the adapter lets go is still there until it is closed.
Orphaned(m, readyState) ==
    IF readyState \in {"null", "closed"} THEN m.orphans
    ELSE m.orphans \cup {readyState}

\* A mutant: the socket is dropped and not closed.
CloseSocketForgotten(m) ==
    IF m.ws = "null" THEN m
    ELSE HandleDisconnect(
           [m EXCEPT !.ws = "null", !.orphans = Orphaned(m, m.ws)], "offline")

\* A mutant: nobody is told.
CloseSocketSilently(m) ==
    IF m.ws = "null" THEN m
    ELSE Disconnected(
           [m EXCEPT !.ws = "null",
                     !.orphans = Orphaned(m, IF m.ws = "closed" THEN "closed"
                                             ELSE "closing")])

\* _closeSocket: WebSocket.close() leaves the socket closing, or closed.
CloseSocket(m) ==
    IF m.ws = "null" THEN m
    ELSE HandleDisconnect(
           [m EXCEPT !.ws = "null",
                     !.orphans = Orphaned(m, IF m.ws = "closed" THEN "closed"
                                             ELSE "closing")],
           "offline")

\* maybeReconnected: something hints that it is worth trying now.
MaybeReconnected(m) ==
    LET cleared == [m EXCEPT !.recheckConnectingTimeout = Off]
    IN  CASE m.ws = "open" -> cleared
          [] m.ws = "connecting" /\ m.age < ATTEMPT_TIMEOUT ->
               [m EXCEPT !.recheckConnectingTimeout = ATTEMPT_TIMEOUT - m.age]
          [] m.ws = "connecting" /\ m.age >= ATTEMPT_TIMEOUT ->
               CloseSocket(cleared)
          [] OTHER -> Disconnected([cleared EXCEPT !.intendedDelay =
                                                       ACTIVE_MIN_DELAY])

-----------------------------------------------------------------------------
(***************************************************************************)
(* What the page's thread runs.                                            *)
(***************************************************************************)
\* A mutant: a manager that was closed goes on.
WithUriDisposed(m) ==
    LET ready == [m EXCEPT !.uris = @ - 1]
    IN  IF m.state # "pendingAttempt" THEN ready
        ELSE [ready EXCEPT !.age = 0, !.ws = "connecting",
                           !.orphans = Orphaned(m, m.ws),
                           !.state = "pendingAttemptResult"]

\* A promise of scheduleAttempt is fulfilled.  The ones that come too late, or
\* once the manager is closed, are ignored.
WithUri(m) ==
    LET ready == [m EXCEPT !.uris = @ - 1]
    IN  IF m.state # "pendingAttempt" \/ m.isDisposed THEN ready
        ELSE [ready EXCEPT !.age = 0, !.ws = "connecting",
                           !.orphans = Orphaned(m, m.ws),
                           !.state = "pendingAttemptResult"]

UriArrives ==
    /\ adapter.uris > 0
    /\ adapter' = WithUri(adapter)
    /\ UNCHANGED world

\* getUri rejects, or the WebSocket constructor throws.
UriFails ==
    /\ world.uriMayFail /\ adapter.uris > 0
    /\ \/ adapter' = [adapter EXCEPT !.uris = @ - 1]
       \/ /\ adapter.state = "pendingAttempt" /\ ~adapter.isDisposed
          /\ adapter' = [adapter EXCEPT !.uris = @ - 1, !.age = 0]
    /\ UNCHANGED world

\* onopen: _handleConnect.
Opens ==
    /\ adapter.ws = "connecting"
    /\ adapter' = ConnectedTo([adapter EXCEPT !.ws = "open",
                                              !.status = "online"])
    /\ UNCHANGED world

\* A closing handshake from the server, or close().
StartsClosing ==
    /\ world.closingIsSeen /\ adapter.ws = "open"
    /\ adapter' = [adapter EXCEPT !.ws = "closing"]
    /\ UNCHANGED world

\* onclose, with a code that says why or any other.
Closes ==
    /\ adapter.ws \in {"connecting", "open", "closing"}
    /\ \E newStatus \in {"offline", "error"} :
         adapter' = HandleDisconnect([adapter EXCEPT !.ws = "closed"],
                                     newStatus)
    /\ UNCHANGED world

\* onerror and then onclose.  Promises are served in between: when one of them
\* makes a new socket, onclose finds its own one orphaned.
Fails ==
    /\ adapter.ws \in {"connecting", "open", "closing"}
    /\ LET errored == HandleDisconnect([adapter EXCEPT !.ws = "closed"],
                                       "offline")
       IN  \/ adapter' = HandleDisconnect(errored, "offline")
           \/ /\ errored.uris > 0
              /\ LET served == WithUri(errored)
                 IN  adapter' = IF served.ws = "closed"
                                  THEN HandleDisconnect(served, "offline")
                                  ELSE served
    /\ UNCHANGED world

\* Orphans close unheard.
OrphansClose ==
    /\ "closing" \in adapter.orphans
    /\ adapter' = [adapter EXCEPT !.orphans = @ \ {"closing"}]
    /\ UNCHANGED world

ReconnectTimeout ==
    /\ adapter.reconnectTimeout = 0
    /\ adapter' = Disconnected([adapter EXCEPT !.reconnectTimeout = Off])
    /\ UNCHANGED world

RecheckConnectingTimeout ==
    /\ adapter.recheckConnectingTimeout = 0
    /\ adapter' = MaybeReconnected(adapter)
    /\ UNCHANGED world

\* The window is online, or the connection changed.
Hint ==
    /\ ~adapter.isDisposed
    /\ adapter' = MaybeReconnected(adapter)
    /\ UNCHANGED world

\* The tab is hidden, or shown.
VisibilityChange ==
    /\ LET changed == [adapter EXCEPT !.hidden = ~@]
       IN  adapter' = IF changed.hidden \/ changed.isDisposed THEN changed
                      ELSE MaybeReconnected(changed)
    /\ UNCHANGED world

WindowOffline ==
    /\ ~adapter.isDisposed
    /\ adapter' = CloseSocket(adapter)
    /\ UNCHANGED world

\* restart, which TLSyncClient calls while it is online.
Restart ==
    /\ ~adapter.isDisposed /\ adapter.status = "online"
    /\ adapter' = MaybeReconnected(CloseSocket(adapter))
    /\ UNCHANGED world

\* close.
Close ==
    /\ ~adapter.isDisposed
    /\ adapter' = [adapter EXCEPT !.isDisposed = TRUE,
                                  !.reconnectTimeout = Off,
                                  !.recheckConnectingTimeout = Off,
                                  !.ws = IF @ \in {"null", "closed"} THEN @
                                         ELSE "closing"]
    /\ UNCHANGED world

TimeLeft(timeout) == IF timeout = Off THEN Off ELSE Greatest(timeout - 1, 0)

Tick ==
    /\ adapter' = [adapter EXCEPT
                     !.age = IF @ = Never THEN Never ELSE Least(@ + 1, OldAge),
                     !.reconnectTimeout = TimeLeft(@),
                     !.recheckConnectingTimeout = TimeLeft(@)]
    /\ UNCHANGED world

Next ==
    \/ UriArrives \/ UriFails \/ Opens \/ StartsClosing \/ Closes \/ Fails
    \/ OrphansClose \/ ReconnectTimeout \/ RecheckConnectingTimeout \/ Hint
    \/ VisibilityChange \/ WindowOffline \/ Restart \/ Close \/ Tick

Spec == Init /\ [][Next]_vars

(***************************************************************************)
(* Time passes, timers fire, promises settle, and the browser closes a     *)
(* socket whose handshake has begun.  Nothing is assumed of the network:   *)
(* an attempt may fail, or stay in the air for ever.                       *)
(***************************************************************************)
FairSpec ==
    /\ Spec
    /\ WF_vars(Tick) /\ WF_vars(ReconnectTimeout) /\ WF_vars(UriArrives)
    /\ WF_vars(RecheckConnectingTimeout)
    /\ WF_vars(adapter.ws = "closing" /\ Closes)

-----------------------------------------------------------------------------
TypeOK == adapter \in Adapter /\ world \in World

\* The assertions of _setNewSocket, onopen, onmessage and scheduleAttempt: a
\* socket is only let go when it is closing or closed, so what is orphaned can
\* neither open nor receive, and no attempt is made next to a live socket.
OrphansAreClosing ==
    /\ adapter.orphans \subseteq {"closing"}
    /\ adapter.state = "pendingAttempt" => ~Live(adapter)

\* Without a socket that is live or about to tell that it closed, something is
\* under way that will make the next attempt: a timer in state delay, a promise
\* in state pendingAttempt.  No sequence of hints, restarts, errors, late
\* promises and late timers leaves the manager idle.  A promise that is rejected
\* does: nothing is left then but to wait for a hint.
NeverIdle ==
    \/ world.uriMayFail \/ adapter.isDisposed
    \/ adapter.ws \in {"connecting", "open", "closing"}
    \/ adapter.state = "delay" /\ adapter.reconnectTimeout # Off
    \/ adapter.state = "pendingAttempt" /\ adapter.uris > 0

\* While the adapter says it is online it has a socket that has been opened, so
\* that nothing is sent on a socket that is connecting, which throws, and who
\* listens to the status learns of every new connection.  A hint that comes
\* while a closing handshake is under way breaks this.
OnlineHasItsSocket ==
    ~world.closingIsSeen /\ adapter.status = "online" =>
        adapter.ws \in {"open", "closing"}

\* "Restart the backoff and retry ASAP (honouring the min delay)": whatever
\* hints, restarts and failures come, and however many promises are pending,
\* attempts are not made more often than ACTIVE_MIN_DELAY allows.  (One whose
\* constructor throws may be followed at once by the next pending promise.)
MinDelayHonoured ==
    [][adapter'.ws = "connecting" /\ adapter.ws # "connecting" =>
         \/ world.uriMayFail \/ adapter.age = Never
         \/ adapter.age >= ACTIVE_MIN_DELAY]_vars

\* close() is for good: no socket is made after it.
ClosedForGood ==
    [][adapter.isDisposed => adapter'.isDisposed /\ ~Live(adapter')]_vars

\* A lost connection is followed by another attempt, whatever hints do to the
\* timers, as long as there is a URI to be had.
KeepsTrying ==
    ~Live(adapter) ~>
    Live(adapter) \/ adapter.isDisposed \/ world.uriMayFail
=============================================================================
