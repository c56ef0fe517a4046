--------------------- MODULE ClientWebSocketAdapterProofs ---------------------
(***************************************************************************)
(* Theorems about ClientWebSocketAdapter, for all delays.                  *)
(***************************************************************************)
EXTENDS ClientWebSocketAdapter, TLAPS

\* The next attempt would not come too early.
Rested(m) == world.uriMayFail \/ m.age = Never \/ m.age >= ACTIVE_MIN_DELAY

\* Something is under way that will make the next attempt.
Working(m) ==
    \/ world.uriMayFail \/ m.isDisposed
    \/ m.ws \in {"connecting", "open", "closing"}
    \/ m.state = "delay" /\ m.reconnectTimeout # Off
    \/ m.state = "pendingAttempt" /\ m.uris > 0

\* What holds of the adapter in the midst of a handler, too.
Sound(m) ==
    /\ m \in Adapter
    /\ m.intendedDelay >= ACTIVE_MIN_DELAY
    /\ m.orphans \subseteq {"closing"}
    /\ m.state = "pendingAttempt" => ~Live(m) /\ Rested(m)
    /\ ~world.closingIsSeen =>
         /\ m.status = "online" => m.ws \in {"open", "closing"}
         /\ m.ws = "closing" => m.isDisposed
    /\ m.isDisposed => ~Live(m)
    /\ m.ws = "connecting" => m.age # Never

AdapterInv ==
    /\ world \in World
    /\ Sound(adapter) /\ Working(adapter)

-----------------------------------------------------------------------------
(***************************************************************************)
(* Delays.                                                                 *)
(***************************************************************************)
\* The longest delay is as long as each of them.
LEMMA OldAgeBounds ==
    /\ OldAge \in Nat \ {0}
    /\ ACTIVE_MAX_DELAY <= OldAge /\ INACTIVE_MAX_DELAY <= OldAge
    /\ ATTEMPT_TIMEOUT <= OldAge /\ ACTIVE_MIN_DELAY <= OldAge
    /\ INACTIVE_MIN_DELAY <= OldAge
BY AdapterAssumption DEF OldAge, Greatest

\* The shortest and the longest delay, in a tab that is shown or hidden.
LEMMA DelayBounds ==
    ASSUME NEW m
    PROVE  /\ GetMinDelay(m) \in Nat \ {0} /\ GetMaxDelay(m) \in Nat \ {0}
           /\ ACTIVE_MIN_DELAY <= GetMinDelay(m)
           /\ GetMinDelay(m) <= GetMaxDelay(m) /\ GetMaxDelay(m) <= OldAge
BY AdapterAssumption, OldAgeBounds DEF GetMinDelay, GetMaxDelay

\* The back-off stays between the shortest active and the longest delay.
LEMMA NextDelayBounds ==
    ASSUME NEW m, m.intendedDelay \in 1..OldAge
    PROVE  NextDelay(m) \in 1..OldAge /\ ACTIVE_MIN_DELAY <= NextDelay(m)
<1> DEFINE longer == Greatest(GetMinDelay(m), m.intendedDelay)
<1>1. longer \in Nat \ {0} /\ GetMinDelay(m) <= longer
  BY DelayBounds, OldAgeBounds DEF Greatest
<1>2. \A x \in Nat \ {0} : (3 * x + 1) \div 2 \in Nat /\ x <= (3 * x + 1) \div 2
  OBVIOUS
<1>3. (3 * longer + 1) \div 2 \in Nat /\ longer <= (3 * longer + 1) \div 2
  BY <1>1, <1>2
<1>4. NextDelay(m) = Least(GetMaxDelay(m), (3 * longer + 1) \div 2)
  BY DEF NextDelay
<1> HIDE DEF longer
<1> QED BY <1>1, <1>3, <1>4, DelayBounds, OldAgeBounds, AdapterAssumption
        DEF Least

-----------------------------------------------------------------------------
(***************************************************************************)
(* What handlers are made of.                                              *)
(***************************************************************************)
\* disconnected, when the manager's socket is not live: something is under way.
LEMMA DisconnectedWorks ==
    ASSUME NEW m, Sound(m), world \in World
    PROVE  /\ Sound(Disconnected(m))
           /\ Live(m) => Disconnected(m) = m
           /\ ~Live(m) => Working(Disconnected(m))
           /\ Disconnected(m).ws = m.ws /\ Disconnected(m).age = m.age
           /\ Disconnected(m).isDisposed = m.isDisposed
           /\ Disconnected(m).status = m.status
<1>1. CASE Live(m)
  BY <1>1 DEF Disconnected
<1>2. CASE ~Live(m) /\ DelayLeft(m) > 0
  <2> DEFINE delay == IF m.state = "connected" THEN GetMinDelay(m)
                      ELSE m.intendedDelay
             next == [m EXCEPT !.intendedDelay = delay, !.state = "delay",
                               !.reconnectTimeout = DelayLeft(m)]
  <2>1. Disconnected(m) = next
    BY <1>2 DEF Disconnected
  <2>2. delay \in 1..OldAge /\ delay >= ACTIVE_MIN_DELAY
    BY DelayBounds, OldAgeBounds, AdapterAssumption DEF Sound, Adapter
  <2>3. DelayLeft(m) \in 0..OldAge
    BY <1>2, DelayBounds, OldAgeBounds, AdapterAssumption
       DEF Sound, Adapter, DelayLeft, Never
  <2>4. next \in Adapter
    BY <2>2, <2>3 DEF Sound, Adapter
  <2> HIDE DEF delay
  <2>5. Sound(next)
    BY <1>2, <2>2, <2>4 DEF Sound, Adapter, Live, Rested
  <2>6. Working(next)
    BY <1>2, <2>3 DEF Sound, Adapter, Working, Off
  <2> QED BY <1>2, <2>1, <2>5, <2>6 DEF Sound, Adapter
<1>3. CASE ~Live(m) /\ ~(DelayLeft(m) > 0)
  <2> DEFINE uris == Least(m.uris + 1, MaxUris)
             next == [m EXCEPT !.state = "pendingAttempt",
                               !.reconnectTimeout = Off,
                               !.intendedDelay = NextDelay(m),
                               !.uris = uris]
  <2>1. Disconnected(m) = next
    BY <1>3 DEF Disconnected, ScheduleAttempt, Sound, Adapter
  <2>2. uris \in 1..MaxUris /\ uris \in 0..MaxUris
    BY AdapterAssumption DEF Least, Sound, Adapter
  <2>3. NextDelay(m) \in 1..OldAge
        /\ ACTIVE_MIN_DELAY <= NextDelay(m)
    BY NextDelayBounds DEF Sound, Adapter
  <2>4. m.state # "connected"
    BY <1>3, DelayBounds DEF DelayLeft
  <2>5. Rested(m)
    BY <1>3, <2>4, AdapterAssumption, OldAgeBounds
       DEF DelayLeft, Rested, Sound, Adapter, Never
  <2> HIDE DEF uris
  <2>6. next \in Adapter
    BY <2>2, <2>3 DEF Sound, Adapter
  <2>7. Sound(next)
    BY <1>3, <2>3, <2>5, <2>6, AdapterAssumption, OldAgeBounds
       DEF Sound, Adapter, Live, Rested
  <2>8. Working(next)
    BY <2>2 DEF Working, Sound, Adapter
  <2> QED BY <1>3, <2>1, <2>7, <2>8 DEF Sound, Adapter
<1> QED BY <1>1, <1>2, <1>3

\* _handleDisconnect, of a socket that the adapter lets go or that has closed.
LEMMA HandleDisconnectWorks ==
    ASSUME NEW m, Sound([m EXCEPT !.status = "offline"]), m \in Adapter,
           m.ws \in {"null", "closed"}, world \in World,
           NEW newStatus \in {"offline", "error"}
    PROVE  LET next == HandleDisconnect(m, newStatus)
           IN  /\ Sound(next) /\ Working(next)
               /\ next.ws = m.ws /\ next.age = m.age
               /\ next.isDisposed = m.isDisposed
               /\ next.status # "online"
<1> DEFINE told == IF newStatus = "error" /\ m.status = "offline"
                     THEN m ELSE [m EXCEPT !.status = newStatus]
<1>1. told \in Adapter /\ told.status # "online" /\ told.ws = m.ws
      /\ told.age = m.age /\ told.isDisposed = m.isDisposed
      /\ told.intendedDelay = m.intendedDelay /\ told.orphans = m.orphans
      /\ told.state = m.state
  BY DEF Adapter
<1>2. HandleDisconnect(m, newStatus) = Disconnected(told)
  BY DEF HandleDisconnect
<1> HIDE DEF told
<1>3. Sound(told)
  BY <1>1 DEF Sound, Adapter, Live, Rested
<1>4. ~Live(told)
  BY <1>1 DEF Live
<1> QED BY <1>1, <1>2, <1>3, <1>4, DisconnectedWorks

\* _closeSocket: what is let go is closing.
LEMMA CloseSocketWorks ==
    ASSUME NEW m, Sound(m), Working(m), world \in World
    PROVE  /\ Sound(CloseSocket(m)) /\ Working(CloseSocket(m))
           /\ CloseSocket(m).ws = "null" /\ CloseSocket(m).age = m.age
           /\ CloseSocket(m).isDisposed = m.isDisposed
<1>1. CASE m.ws = "null"
  BY <1>1 DEF CloseSocket
<1>2. CASE m.ws # "null"
  <2> DEFINE left == [m EXCEPT !.ws = "null",
                         !.orphans = Orphaned(m, IF m.ws = "closed" THEN "closed"
                                                 ELSE "closing")]
  <2>1. CloseSocket(m) = HandleDisconnect(left, "offline")
    BY <1>2 DEF CloseSocket
  <2>2. Orphaned(m, IF m.ws = "closed" THEN "closed" ELSE "closing")
          \subseteq {"closing"}
    BY DEF Sound, Orphaned
  <2>3. /\ left \in Adapter /\ left.ws = "null" /\ left.age = m.age
        /\ left.isDisposed = m.isDisposed /\ left.state = m.state
        /\ left.intendedDelay = m.intendedDelay
        /\ left.orphans \subseteq {"closing"}
    BY <2>2 DEF Sound, Adapter
  <2> HIDE DEF left
  <2>4. Sound([left EXCEPT !.status = "offline"])
    BY <2>3 DEF Sound, Adapter, Live, Rested
  <2> QED BY <2>1, <2>3, <2>4, HandleDisconnectWorks
<1> QED BY <1>1, <1>2

\* maybeReconnected makes no socket, and leaves what is under way under way.
LEMMA MaybeReconnectedWorks ==
    ASSUME NEW m, Sound(m), world \in World,
           Working(m) \/ ~Live(m)
    PROVE  /\ Sound(MaybeReconnected(m)) /\ Working(MaybeReconnected(m))
           /\ MaybeReconnected(m).ws \in {m.ws, "null"}
           /\ MaybeReconnected(m).isDisposed = m.isDisposed
<1> DEFINE cleared == [m EXCEPT !.recheckConnectingTimeout = Off]
<1>1. /\ Sound(cleared) /\ cleared.ws = m.ws
      /\ cleared.isDisposed = m.isDisposed
      /\ Working(m) => Working(cleared)
  BY DEF Sound, Adapter, Live, Rested, Working
<1>2. CASE m.ws = "open"
  <2>1. MaybeReconnected(m) = cleared
    BY <1>2 DEF MaybeReconnected
  <2>2. Working(cleared)
    BY <1>1, <1>2 DEF Live, Working
  <2> QED BY <1>1, <2>1, <2>2
<1>3. CASE m.ws = "connecting" /\ m.age < ATTEMPT_TIMEOUT
  <2> DEFINE next == [m EXCEPT !.recheckConnectingTimeout =
                                  ATTEMPT_TIMEOUT - m.age]
  <2>1. MaybeReconnected(m) = next
    BY <1>3, AdapterAssumption DEF MaybeReconnected, Sound, Adapter, Never
  <2>2. ATTEMPT_TIMEOUT - m.age \in 0..OldAge
    <3>1. m.age \in 0..OldAge
      BY <1>3 DEF Sound, Adapter
    <3>2. ATTEMPT_TIMEOUT \in Nat
      BY AdapterAssumption
    <3> QED BY <1>3, <3>1, <3>2, OldAgeBounds
  <2>3. next \in Adapter
    BY <2>2 DEF Sound, Adapter
  <2>4. Sound(next) /\ Working(next)
    BY <1>3, <2>3 DEF Sound, Adapter, Live, Rested, Working
  <2> QED BY <2>1, <2>4 DEF Sound, Adapter
<1>4. CASE m.ws = "connecting" /\ ~(m.age < ATTEMPT_TIMEOUT)
  <2>1. MaybeReconnected(m) = CloseSocket(cleared)
    BY <1>4, AdapterAssumption DEF MaybeReconnected, Sound, Adapter, Never
  <2>2. Working(cleared)
    BY <1>1, <1>4 DEF Working
  <2> HIDE DEF cleared
  <2> QED BY <1>1, <2>1, <2>2, CloseSocketWorks
<1>5. CASE m.ws \notin {"open", "connecting"}
  <2> DEFINE hinted == [cleared EXCEPT !.intendedDelay = ACTIVE_MIN_DELAY]
  <2>1. MaybeReconnected(m) = Disconnected(hinted)
    BY <1>5 DEF MaybeReconnected
  <2> HIDE DEF cleared
  <2>2. hinted \in Adapter /\ hinted.intendedDelay = ACTIVE_MIN_DELAY
    BY <1>1, AdapterAssumption, OldAgeBounds DEF Sound, Adapter
  <2>3. Sound(hinted) /\ hinted.ws = m.ws /\ hinted.isDisposed = m.isDisposed
    BY <1>1, <2>2, AdapterAssumption DEF Sound, Adapter, Live, Rested
  <2>4. ~Live(hinted)
    BY <1>5, <2>3 DEF Live
  <2> HIDE DEF hinted
  <2> QED BY <2>1, <2>3, <2>4, DisconnectedWorks
<1> QED BY <1>2, <1>3, <1>4, <1>5

\* A promise is fulfilled: a socket is made when none is live, and not early.
LEMMA WithUriWorks ==
    ASSUME NEW m, Sound(m), Working(m), m.uris > 0, world \in World
    PROVE  /\ Sound(WithUri(m)) /\ Working(WithUri(m))
           /\ WithUri(m).isDisposed = m.isDisposed
           /\ \/ WithUri(m).ws = m.ws
              \/ WithUri(m).ws = "connecting" /\ ~Live(m) /\ Rested(m)
<1> DEFINE ready == [m EXCEPT !.uris = @ - 1]
<1>1. ready \in Adapter
  BY AdapterAssumption DEF Sound, Adapter
<1>2. CASE m.state # "pendingAttempt" \/ m.isDisposed
  <2>1. WithUri(m) = ready
    BY <1>2 DEF WithUri
  <2>2. Sound(ready)
    BY <1>1 DEF Sound, Adapter, Live, Rested
  <2>3. Working(ready)
    BY <1>2 DEF Working, Sound, Adapter
  <2> QED BY <2>1, <2>2, <2>3 DEF Sound, Adapter
<1>3. CASE m.state = "pendingAttempt" /\ ~m.isDisposed
  <2> DEFINE next == [ready EXCEPT !.age = 0, !.ws = "connecting",
                                   !.orphans = Orphaned(m, m.ws),
                                   !.state = "pendingAttemptResult"]
  <2>1. WithUri(m) = next
    BY <1>3 DEF WithUri
  <2>2. ~Live(m) /\ Rested(m)
    BY <1>3 DEF Sound
  <2>3. Orphaned(m, m.ws) \subseteq {"closing"}
    BY <2>2 DEF Sound, Adapter, Orphaned, Live
  <2> DEFINE orphans == Orphaned(m, m.ws)
  <2>4. 0 \in 0..OldAge \cup {Never}
    BY OldAgeBounds
  <2> HIDE DEF ready, orphans
  <2>5. /\ ready.isDisposed = m.isDisposed /\ ready.status = m.status
        /\ ready.intendedDelay = m.intendedDelay
    BY DEF ready, Sound, Adapter
  <2>6. next \in Adapter /\ next.ws = "connecting" /\ next.age = 0
        /\ next.orphans \subseteq {"closing"}
        /\ next.state = "pendingAttemptResult"
        /\ next.isDisposed = m.isDisposed /\ next.status = m.status
        /\ next.intendedDelay = m.intendedDelay
    BY <1>1, <2>3, <2>4, <2>5 DEF Adapter
  <2> HIDE DEF next
  <2>7. ~world.closingIsSeen => next.status # "online"
    BY <1>3, <2>2, <2>6 DEF Sound, Live
  <2>8. Sound(next)
    BY <1>3, <2>6, <2>7 DEF Sound, Live, Never
  <2>9. Working(next)
    BY <2>6 DEF Working
  <2> QED BY <2>1, <2>2, <2>6, <2>8, <2>9
<1> QED BY <1>2, <1>3

-----------------------------------------------------------------------------
(***************************************************************************)
(* The inductive invariant.                                                *)
(***************************************************************************)
\* What a step may do: never a new socket after close, and none too early.
Paced ==
    /\ adapter.isDisposed => adapter'.isDisposed
    /\ adapter'.ws = "connecting" /\ adapter.ws # "connecting" =>
         Rested(adapter)

\* A tab that is shown or hidden changes nothing else.
LEMMA TurnedWorks ==
    ASSUME NEW m, Sound(m), Working(m), NEW isHidden \in BOOLEAN
    PROVE  LET turned == [m EXCEPT !.hidden = isHidden]
           IN  /\ Sound(turned) /\ Working(turned)
               /\ turned.ws = m.ws /\ turned.isDisposed = m.isDisposed
               /\ turned.orphans = m.orphans /\ turned.age = m.age
<1> DEFINE turned == [m EXCEPT !.hidden = isHidden]
<1>1. turned \in Adapter
  BY Zenon DEF Sound, Adapter
<1>2. /\ turned.ws = m.ws /\ turned.isDisposed = m.isDisposed
      /\ turned.orphans = m.orphans /\ turned.age = m.age
      /\ turned.state = m.state /\ turned.status = m.status
      /\ turned.intendedDelay = m.intendedDelay
      /\ turned.reconnectTimeout = m.reconnectTimeout
      /\ turned.uris = m.uris
  BY DEF Sound, Adapter
<1> HIDE DEF turned
<1>3. Sound(turned) /\ Working(turned)
  BY <1>1, <1>2 DEF Sound, Live, Rested, Working
<1> QED BY <1>2, <1>3 DEF turned

\* The constructor establishes the invariant.
LEMMA InitInv == Init => AdapterInv
<1> SUFFICES ASSUME Init PROVE AdapterInv
  OBVIOUS
<1>1. adapter \in Adapter
  BY AdapterAssumption, OldAgeBounds DEF Init, Adapter, Never, Off
<1>2. Sound(adapter) /\ Working(adapter)
  BY <1>1, AdapterAssumption DEF Init, Sound, Working, Live, Rested
<1> QED BY <1>2 DEF Init, AdapterInv

\* A handler leaves the adapter sound, working and, once it is closed, closed.
Handles(m) ==
    /\ Sound(m) /\ Working(m)
    /\ adapter.isDisposed => m.isDisposed
    /\ m.ws = "connecting" /\ adapter.ws # "connecting" => Rested(adapter)

\* Each handler, timer, promise and hint.
LEMMA StepHandles ==
    ASSUME AdapterInv, Next
    PROVE  Handles(adapter') /\ world' = world
<1> USE DEF AdapterInv
<1>1. CASE UriArrives
  <2>1. adapter' = WithUri(adapter) /\ adapter.uris > 0 /\ world' = world
    BY <1>1 DEF UriArrives
  <2> QED BY <2>1, WithUriWorks DEF Handles
<1>2. CASE UriFails
  <2>1. /\ world.uriMayFail /\ world' = world
        /\ adapter' \in Adapter /\ adapter'.ws = adapter.ws
        /\ adapter'.isDisposed = adapter.isDisposed
        /\ adapter'.orphans = adapter.orphans
        /\ adapter'.state = adapter.state
        /\ adapter'.status = adapter.status
        /\ adapter'.intendedDelay = adapter.intendedDelay
        /\ adapter'.age \in {adapter.age, 0}
    <3>1. 0 \in 0..OldAge \cup {Never} /\ MaxUris \in Nat
      BY OldAgeBounds, AdapterAssumption
    <3>2. /\ world.uriMayFail /\ world' = world
          /\ adapter.uris - 1 \in 0..MaxUris
      BY <1>2, <3>1 DEF UriFails, Sound, Adapter
    <3> DEFINE uris == adapter.uris - 1
    <3>3. \/ adapter' = [adapter EXCEPT !.uris = uris]
          \/ adapter' = [adapter EXCEPT !.uris = uris, !.age = 0]
      BY <1>2 DEF UriFails
    <3> HIDE DEF uris
    <3>4. uris \in 0..MaxUris
      BY <3>2 DEF uris
    <3> QED BY <3>1, <3>2, <3>3, <3>4 DEF Sound, Adapter
  <2> QED BY <2>1 DEF Handles, Sound, Live, Rested, Working, Never
<1>3. CASE Opens
  <2>1. /\ adapter.ws = "connecting" /\ world' = world
        /\ adapter' = [adapter EXCEPT !.ws = "open", !.status = "online",
                          !.state = "connected", !.reconnectTimeout = Off,
                          !.intendedDelay = ACTIVE_MIN_DELAY]
    BY <1>3 DEF Opens, ConnectedTo, Sound, Adapter
  <2>2. /\ adapter' \in Adapter /\ adapter'.ws = "open"
        /\ adapter'.state = "connected"
        /\ adapter'.isDisposed = adapter.isDisposed
        /\ adapter'.orphans = adapter.orphans
        /\ adapter'.intendedDelay = ACTIVE_MIN_DELAY
    <3>1. ACTIVE_MIN_DELAY \in 1..OldAge /\ Off \in 0..OldAge \cup {Off}
      BY AdapterAssumption, OldAgeBounds
    <3> QED BY <2>1, <3>1 DEF Sound, Adapter
  <2> QED BY <2>1, <2>2, AdapterAssumption DEF Handles, Sound, Live, Working
<1>4. CASE StartsClosing
  <2>1. /\ world.closingIsSeen /\ world' = world
        /\ adapter' \in Adapter /\ adapter'.ws = "closing"
        /\ adapter'.isDisposed = adapter.isDisposed
        /\ adapter'.orphans = adapter.orphans
        /\ adapter'.state = adapter.state /\ adapter'.age = adapter.age
        /\ adapter'.intendedDelay = adapter.intendedDelay
    BY <1>4 DEF StartsClosing, Sound, Adapter
  <2> QED BY <2>1 DEF Handles, Sound, Live, Rested, Working
<1>5. CASE Closes
  <2> DEFINE shut == [adapter EXCEPT !.ws = "closed"]
  <2>1. PICK newStatus \in {"offline", "error"} :
          adapter' = HandleDisconnect(shut, newStatus) /\ world' = world
    BY <1>5 DEF Closes
  <2>2. /\ shut \in Adapter /\ shut.ws = "closed"
        /\ shut.isDisposed = adapter.isDisposed
        /\ Sound([shut EXCEPT !.status = "offline"])
    BY DEF Sound, Adapter, Live, Rested
  <2> HIDE DEF shut
  <2> QED BY <2>1, <2>2, HandleDisconnectWorks DEF Handles
<1>6. CASE Fails
  <2> DEFINE shut == [adapter EXCEPT !.ws = "closed"]
             errored == HandleDisconnect(shut, "offline")
             served == WithUri(errored)
  <2>1. /\ adapter.ws \in {"connecting", "open", "closing"}
        /\ world' = world
        /\ \/ adapter' = HandleDisconnect(errored, "offline")
           \/ /\ errored.uris > 0
              /\ adapter' = IF served.ws = "closed"
                              THEN HandleDisconnect(served, "offline")
                              ELSE served
    BY <1>6 DEF Fails
  <2>2. /\ shut \in Adapter /\ shut.ws = "closed" /\ shut.age = adapter.age
        /\ shut.isDisposed = adapter.isDisposed
        /\ Sound([shut EXCEPT !.status = "offline"])
    BY DEF Sound, Adapter, Live, Rested
  <2> HIDE DEF shut
  <2>3. /\ Sound(errored) /\ Working(errored) /\ errored.ws = "closed"
        /\ errored.isDisposed = adapter.isDisposed
        /\ errored.age = adapter.age
    BY <2>2, HandleDisconnectWorks
  <2> HIDE DEF errored
  <2>4. ASSUME NEW m, Sound(m)
        PROVE  m \in Adapter /\ (m.ws = "closed" =>
                 Sound([m EXCEPT !.status = "offline"]))
    BY <2>4 DEF Sound, Adapter, Live, Rested
  <2>5. CASE adapter' = HandleDisconnect(errored, "offline")
    BY <2>1, <2>3, <2>4, <2>5, HandleDisconnectWorks DEF Handles
  <2>6. CASE errored.uris > 0 /\ adapter' = IF served.ws = "closed"
                              THEN HandleDisconnect(served, "offline")
                              ELSE served
    <3>1. /\ Sound(served) /\ Working(served)
          /\ served.isDisposed = adapter.isDisposed
          /\ served.ws = "connecting" => Rested(errored)
      BY <2>3, <2>6, WithUriWorks
    <3>2. Rested(errored) <=> Rested(adapter)
      BY <2>3 DEF Rested
    <3> HIDE DEF served
    <3> QED BY <2>1, <2>4, <2>6, <3>1, <3>2, HandleDisconnectWorks DEF Handles
  <2> QED BY <2>1, <2>5, <2>6
<1>7. CASE OrphansClose
  <2>1. /\ world' = world
        /\ adapter' \in Adapter /\ adapter'.ws = adapter.ws
        /\ adapter'.isDisposed = adapter.isDisposed
        /\ adapter'.orphans \subseteq adapter.orphans
        /\ adapter'.state = adapter.state /\ adapter'.age = adapter.age
        /\ adapter'.status = adapter.status
        /\ adapter'.intendedDelay = adapter.intendedDelay
        /\ adapter'.reconnectTimeout = adapter.reconnectTimeout
        /\ adapter'.uris = adapter.uris
    BY <1>7 DEF OrphansClose, Sound, Adapter
  <2> QED BY <2>1 DEF Handles, Sound, Live, Rested, Working
<1>8. CASE ReconnectTimeout
  <2> DEFINE rung == [adapter EXCEPT !.reconnectTimeout = Off]
  <2>1. adapter' = Disconnected(rung) /\ world' = world
    BY <1>8 DEF ReconnectTimeout
  <2>2. /\ Sound(rung) /\ rung.ws = adapter.ws
        /\ rung.isDisposed = adapter.isDisposed
        /\ Live(rung) => Working(rung)
    BY DEF Sound, Adapter, Live, Rested, Working
  <2> HIDE DEF rung
  <2> QED BY <2>1, <2>2, DisconnectedWorks DEF Handles
<1>9. CASE RecheckConnectingTimeout \/ Hint
  <2>1. adapter' = MaybeReconnected(adapter) /\ world' = world
    BY <1>9 DEF RecheckConnectingTimeout, Hint
  <2> QED BY <2>1, MaybeReconnectedWorks DEF Handles
<1>10. CASE VisibilityChange
  <2> DEFINE turned == [adapter EXCEPT !.hidden = ~@]
  <2>1. /\ adapter' \in {turned, MaybeReconnected(turned)}
        /\ world' = world
    BY <1>10 DEF VisibilityChange
  <2>2. PICK isHidden : isHidden = ~adapter.hidden
    OBVIOUS
  <2>3. isHidden \in BOOLEAN
    BY <2>2
  <2>4. turned = [adapter EXCEPT !.hidden = isHidden]
    BY <2>2
  <2> HIDE DEF turned
  <2>5. Sound(turned) /\ Working(turned) /\ turned.ws = adapter.ws
        /\ turned.isDisposed = adapter.isDisposed
        /\ turned.orphans = adapter.orphans
        /\ turned.age = adapter.age
    BY <2>3, <2>4, TurnedWorks
  <2> QED BY <2>1, <2>5, MaybeReconnectedWorks DEF Handles
<1>11. CASE WindowOffline
  <2>1. adapter' = CloseSocket(adapter) /\ world' = world
    BY <1>11 DEF WindowOffline
  <2> QED BY <2>1, CloseSocketWorks DEF Handles
<1>12. CASE Restart
  <2>1. adapter' = MaybeReconnected(CloseSocket(adapter)) /\ world' = world
    BY <1>12 DEF Restart
  <2> QED BY <2>1, CloseSocketWorks, MaybeReconnectedWorks DEF Handles
<1>13. CASE Close
  <2>1. /\ world' = world /\ adapter' \in Adapter /\ adapter'.isDisposed
        /\ adapter'.ws \in {"null", "closing", "closed"}
        /\ adapter'.ws # "closing" => adapter'.ws = adapter.ws
        /\ adapter.ws \notin {"null", "closed"} => adapter'.ws = "closing"
        /\ adapter'.orphans = adapter.orphans
        /\ adapter'.state = adapter.state /\ adapter'.age = adapter.age
        /\ adapter'.status = adapter.status
        /\ adapter'.intendedDelay = adapter.intendedDelay
    BY <1>13 DEF Close, Sound, Adapter
  <2> QED BY <2>1 DEF Handles, Sound, Live, Rested, Working
<1>14. CASE Tick
  <2>1. /\ TimeLeft(adapter.reconnectTimeout) \in 0..OldAge \cup {Off}
        /\ TimeLeft(adapter.recheckConnectingTimeout) \in 0..OldAge \cup {Off}
        /\ adapter.reconnectTimeout # Off =>
             TimeLeft(adapter.reconnectTimeout) # Off
    BY OldAgeBounds DEF TimeLeft, Greatest, Off, Sound, Adapter
  <2> DEFINE age == IF adapter.age = Never THEN Never
                    ELSE Least(adapter.age + 1, OldAge)
  <2>2. /\ age \in 0..OldAge \cup {Never}
        /\ adapter.age # Never => age # Never
        /\ Rested(adapter) => \/ world.uriMayFail \/ age = Never
                              \/ age >= ACTIVE_MIN_DELAY
    BY OldAgeBounds, AdapterAssumption
       DEF Least, Never, Rested, Sound, Adapter
  <2>3. /\ adapter' = [adapter EXCEPT
                         !.age = age,
                         !.reconnectTimeout = TimeLeft(@),
                         !.recheckConnectingTimeout = TimeLeft(@)]
        /\ world' = world
    BY <1>14 DEF Tick
  <2> HIDE DEF age
  <2>4. /\ adapter' \in Adapter /\ adapter'.ws = adapter.ws
        /\ adapter'.isDisposed = adapter.isDisposed
        /\ adapter'.orphans = adapter.orphans
        /\ adapter'.state = adapter.state /\ adapter'.age = age
        /\ adapter'.status = adapter.status
        /\ adapter'.intendedDelay = adapter.intendedDelay
        /\ adapter'.reconnectTimeout = TimeLeft(adapter.reconnectTimeout)
        /\ adapter'.uris = adapter.uris
    BY <2>1, <2>2, <2>3 DEF Sound, Adapter
  <2> QED BY <2>1, <2>2, <2>3, <2>4 DEF Handles, Sound, Live, Rested, Working
<1> QED BY <1>1, <1>2, <1>3, <1>4, <1>5, <1>6, <1>7, <1>8, <1>9, <1>10, <1>11,
           <1>12, <1>13, <1>14 DEF Next

\* Every step keeps the invariant and is paced.
LEMMA NextInv ==
    ASSUME AdapterInv, [Next]_vars
    PROVE  AdapterInv' /\ Paced
<1>1. CASE Next
  <2>1. Handles(adapter') /\ world' = world
    BY <1>1, StepHandles
  <2>2. AdapterInv'
    BY <2>1 DEF AdapterInv, Handles, Sound, Working, Live, Rested
  <2> QED BY <2>1, <2>2 DEF Handles, Paced
<1>2. CASE UNCHANGED vars
  BY <1>2 DEF vars, AdapterInv, Sound, Working, Live, Rested, Paced
<1> QED BY <1>1, <1>2

\* The invariant holds in every behaviour.
LEMMA AdapterCorrect == Spec => []AdapterInv
<1>1. Init => AdapterInv
  BY InitInv
<1>2. AdapterInv /\ [Next]_vars => AdapterInv'
  BY NextInv
<1> QED BY <1>1, <1>2, PTL DEF Spec

-----------------------------------------------------------------------------
(***************************************************************************)
(* What follows.                                                           *)
(***************************************************************************)
\* The adapter, its manager, their timers and promises keep their types.
THEOREM TypeCorrect == Spec => []TypeOK
<1>1. AdapterInv => TypeOK
  BY DEF AdapterInv, Sound, TypeOK
<1> QED BY <1>1, AdapterCorrect, PTL

\* The assertions of _setNewSocket, onopen, onmessage and scheduleAttempt hold:
\* no socket that may still open is let go, and no attempt is made next to one.
THEOREM OrphansCorrect == Spec => []OrphansAreClosing
<1>1. AdapterInv => OrphansAreClosing
  BY DEF AdapterInv, Sound, OrphansAreClosing
<1> QED BY <1>1, AdapterCorrect, PTL

\* Whatever hints, errors, timers and promises come: the manager has set a timer
\* or waits for a promise whenever its socket is gone.
THEOREM AlwaysWorking == Spec => []NeverIdle
<1>1. AdapterInv => NeverIdle
  BY DEF AdapterInv, Working, NeverIdle
<1> QED BY <1>1, AdapterCorrect, PTL

\* connectionStatus is online only with a socket that has been opened.
THEOREM OnlineCorrect == Spec => []OnlineHasItsSocket
<1>1. AdapterInv => OnlineHasItsSocket
  BY DEF AdapterInv, Sound, OnlineHasItsSocket
<1> QED BY <1>1, AdapterCorrect, PTL

\* disconnected and scheduleAttempt honour the shortest delay, also when hints
\* restart the back-off.
THEOREM AttemptsPaced == Spec => MinDelayHonoured
<1>1. AdapterInv /\ [Next]_vars =>
        [adapter'.ws = "connecting" /\ adapter.ws # "connecting" =>
           \/ world.uriMayFail \/ adapter.age = Never
           \/ adapter.age >= ACTIVE_MIN_DELAY]_vars
  BY NextInv DEF Paced, Rested
<1> QED BY <1>1, AdapterCorrect, PTL DEF Spec, MinDelayHonoured

\* After close() no socket is made and none opens.
THEOREM CloseIsFinal == Spec => ClosedForGood
<1>1. AdapterInv /\ [Next]_vars =>
        [adapter.isDisposed => adapter'.isDisposed /\ ~Live(adapter')]_vars
  <2> SUFFICES ASSUME AdapterInv, [Next]_vars, adapter.isDisposed
               PROVE  adapter'.isDisposed /\ ~Live(adapter')
    OBVIOUS
  <2>1. AdapterInv' /\ adapter'.isDisposed
    BY NextInv DEF Paced
  <2> QED BY <2>1 DEF AdapterInv, Sound, Live
<1> QED BY <1>1, AdapterCorrect, PTL DEF Spec, ClosedForGood
===============================================================================
