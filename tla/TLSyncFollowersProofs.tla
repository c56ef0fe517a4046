------------------------ MODULE TLSyncFollowersProofs ------------------------
(***************************************************************************)
(* Theorems about what TLSync's clients make of what the room tells them,  *)
(* for every set of clients, records and scenarios: every client that is   *)
(* not astray follows the room's documents, and clients and room together  *)
(* implement the shared document.                                          *)
(***************************************************************************)
EXTENDS TLSyncProofs

-----------------------------------------------------------------------------
(***************************************************************************)
(* What events tell a client of the room's documents: each leads from the  *)
(* version at the clock of the event before it to that at its own.  h are  *)
(* the versions so far, t is the clock of the last.                        *)
(***************************************************************************)
ClockAt(k, events, i) == IF i = 0 THEN k ELSE events[i].serverClock

EndOf(k, events) == ClockAt(k, events, Len(events))

Telling(h, t, c, k, e) ==
    /\ e.serverClock <= t
    /\ ~IsAnswer(e) => h[e.serverClock] = ApplyNetworkDiff(h[k], e.diff)
    /\ IsAnswer(e) =>
         /\ e.clientClock < c.clientClock
         /\ \A p \in PendingPushes(c) : p.clientClock = e.clientClock =>
              h[e.serverClock] = ApplyNetworkDiff(h[k], EventDiff(e, p.diff))

Tells(h, t, c, k, events) ==
    \A i \in 1..Len(events) :
        Telling(h, t, c, ClockAt(k, events, i - 1), events[i])

\* on: there is nothing that the events do not tell.
Story(h, t, c, k, events, on) ==
    /\ Tells(h, t, c, k, events)
    /\ on => h[EndOf(k, events)] = h[t]

\* The clocks of a story are those of versions.
LEMMA TellsWhen ==
    ASSUME NEW h, NEW t \in Nat, NEW c, NEW k \in 0..t,
           NEW events \in Seq(DataMessage), Tells(h, t, c, k, events)
    PROVE  /\ \A i \in 0..Len(events) : ClockAt(k, events, i) \in 0..t
           /\ EndOf(k, events) \in 0..t
<1>1. Len(events) \in Nat
  OBVIOUS
<1>2. ASSUME NEW i \in 1..Len(events) PROVE events[i].serverClock \in 0..t
  <2>1. events[i] \in DataMessage
    OBVIOUS
  <2>2. events[i].serverClock \in Nat
    BY <2>1 DEF DataMessage
  <2>3. events[i].serverClock <= t
    BY DEF Tells, Telling
  <2> QED BY <2>2, <2>3
<1>3. ASSUME NEW i \in 0..Len(events) PROVE ClockAt(k, events, i) \in 0..t
  <2>1. CASE i = 0
    BY <2>1 DEF ClockAt
  <2>2. CASE i # 0
    <3>1. i \in 1..Len(events)
      BY <2>2
    <3> QED BY <1>2, <2>2, <3>1 DEF ClockAt
  <2> QED BY <2>1, <2>2
<1> QED BY <1>1, <1>3 DEF EndOf

\* Nothing tells nothing.
LEMMA TellsNothing ==
    \A h, t, c, k : Tells(h, t, c, k, <<>>) /\ EndOf(k, <<>>) = k
<1>1. Len(<<>>) = 0
  OBVIOUS
<1> QED BY <1>1 DEF Tells, EndOf, ClockAt

\* One event.
LEMMA TellsOne ==
    ASSUME NEW h, NEW t, NEW c, NEW k, NEW e, Telling(h, t, c, k, e)
    PROVE  Tells(h, t, c, k, <<e>>) /\ EndOf(k, <<e>>) = e.serverClock
<1>1. Len(<<e>>) = 1 /\ <<e>>[1] = e /\ \A i \in 1..1 : i = 1 /\ i - 1 = 0
  OBVIOUS
<1> QED BY <1>1 DEF Tells, EndOf, ClockAt

\* A story and its continuation.
LEMMA TellsMore ==
    ASSUME NEW h, NEW t, NEW c, NEW k,
           NEW a \in Seq(DataMessage), NEW b \in Seq(DataMessage)
    PROVE  /\ EndOf(k, a \o b) = EndOf(EndOf(k, a), b)
           /\ Tells(h, t, c, k, a \o b) =>
                Tells(h, t, c, k, a) /\ Tells(h, t, c, EndOf(k, a), b)
           /\ Tells(h, t, c, k, a) /\ Tells(h, t, c, EndOf(k, a), b) =>
                Tells(h, t, c, k, a \o b)
<1> DEFINE all == a \o b
           m == Len(a)
           n == Len(b)
           there == EndOf(k, a)
<1>1. /\ m \in Nat /\ n \in Nat /\ Len(all) = m + n
      /\ \A i \in 1..m : all[i] = a[i]
      /\ \A i \in 1..n : all[m + i] = b[i]
  OBVIOUS
<1> HIDE DEF all
<1>2. there = ClockAt(k, a, m)
  BY DEF EndOf
<1> HIDE DEF m, n, there
<1>3. \A i \in 0..m : ClockAt(k, all, i) = ClockAt(k, a, i)
  BY <1>1 DEF ClockAt
<1>4. ASSUME NEW i \in 0..n PROVE ClockAt(k, all, m + i) = ClockAt(there, b, i)
  <2>1. CASE i = 0
    <3>1. m + i = m /\ m \in 0..m
      BY <1>1, <2>1
    <3> QED BY <1>2, <1>3, <2>1, <3>1 DEF ClockAt
  <2>2. CASE i # 0
    <3>1. i \in 1..n /\ m + i # 0
      BY <1>1, <2>2
    <3> QED BY <1>1, <2>2, <3>1 DEF ClockAt
  <2> QED BY <2>1, <2>2
<1>5. EndOf(k, all) = EndOf(there, b)
  <2>1. n \in 0..n
    BY <1>1
  <2> QED BY <1>1, <1>4, <2>1 DEF EndOf, n
<1>6. ASSUME Tells(h, t, c, k, all) PROVE Tells(h, t, c, k, a)
  <2> SUFFICES ASSUME NEW i \in 1..m
               PROVE  Telling(h, t, c, ClockAt(k, a, i - 1), a[i])
    BY DEF Tells, m
  <2>1. i \in 1..Len(all) /\ i - 1 \in 0..m /\ all[i] = a[i]
    BY <1>1
  <2>2. Telling(h, t, c, ClockAt(k, all, i - 1), all[i])
    BY <1>6, <2>1 DEF Tells
  <2> QED BY <1>3, <2>1, <2>2
<1>7. ASSUME Tells(h, t, c, k, all) PROVE Tells(h, t, c, there, b)
  <2> SUFFICES ASSUME NEW i \in 1..n
               PROVE  Telling(h, t, c, ClockAt(there, b, i - 1), b[i])
    BY DEF Tells, n
  <2>1. /\ m + i \in 1..Len(all) /\ i - 1 \in 0..n /\ all[m + i] = b[i]
        /\ (m + i) - 1 = m + (i - 1)
    BY <1>1
  <2>2. Telling(h, t, c, ClockAt(k, all, (m + i) - 1), all[m + i])
    BY <1>7, <2>1 DEF Tells
  <2> QED BY <1>4, <2>1, <2>2
<1>8. ASSUME Tells(h, t, c, k, a), Tells(h, t, c, there, b)
      PROVE  Tells(h, t, c, k, all)
  <2> SUFFICES ASSUME NEW i \in 1..Len(all)
               PROVE  Telling(h, t, c, ClockAt(k, all, i - 1), all[i])
    BY DEF Tells
  <2>1. CASE i \in 1..m
    <3>1. Telling(h, t, c, ClockAt(k, a, i - 1), a[i])
      BY <1>8, <2>1 DEF Tells, m
    <3>2. i - 1 \in 0..m /\ all[i] = a[i]
      BY <1>1, <2>1
    <3> QED BY <1>3, <3>1, <3>2
  <2>2. CASE i \notin 1..m
    <3>1. /\ i - m \in 1..n /\ (i - m) - 1 \in 0..n /\ m + (i - m) = i
          /\ m + ((i - m) - 1) = i - 1
      BY <1>1, <2>2
    <3>2. Telling(h, t, c, ClockAt(there, b, (i - m) - 1), b[i - m])
      BY <1>8, <3>1 DEF Tells, n
    <3>3. all[i] = b[i - m]
      BY <1>1, <3>1
    <3>4. ClockAt(k, all, i - 1) = ClockAt(there, b, (i - m) - 1)
      BY <1>4, <3>1
    <3> QED BY <3>2, <3>3, <3>4
  <2> QED BY <2>1, <2>2
<1> QED BY <1>5, <1>6, <1>7, <1>8 DEF all, there

\* A story stays true when there are more versions.
LEMMA TellsLater ==
    ASSUME NEW h, NEW t \in Nat, NEW g, NEW u \in Nat, t <= u,
           \A j \in 0..t : g[j] = h[j],
           NEW c, NEW k \in 0..t, NEW events \in Seq(DataMessage),
           Tells(h, t, c, k, events)
    PROVE  Tells(g, u, c, k, events)
<1> SUFFICES ASSUME NEW i \in 1..Len(events)
             PROVE  Telling(g, u, c, ClockAt(k, events, i - 1), events[i])
  BY DEF Tells
<1> DEFINE e == events[i]
           x == ClockAt(k, events, i - 1)
<1>1. i - 1 \in 0..Len(events) /\ i \in 0..Len(events) /\ i # 0
  OBVIOUS
<1>2. x \in 0..t /\ ClockAt(k, events, i) \in 0..t
  BY <1>1, TellsWhen
<1>3. e.serverClock \in 0..t
  BY <1>1, <1>2 DEF ClockAt
<1>4. Telling(h, t, c, x, e)
  BY DEF Tells
<1> HIDE DEF e, x
<1>5. g[x] = h[x] /\ g[e.serverClock] = h[e.serverClock] /\ e.serverClock <= u
  BY <1>2, <1>3
<1>6. Telling(g, u, c, x, e)
  BY <1>4, <1>5 DEF Telling
<1> QED BY <1>6 DEF e, x

\* A story for a client is one for the client with new requests.
LEMMA TellsNumberedOn ==
    ASSUME NEW c \in Client, NEW d \in Client, NumbersOn(c, d), NEW h, NEW t,
           NEW k, NEW events \in Seq(DataMessage), Tells(h, t, c, k, events)
    PROVE  Tells(h, t, d, k, events)
<1>1. c.clientClock \in Nat /\ d.clientClock \in Nat /\ c.clientClock <= d.clientClock
  BY PushesHave DEF NumbersOn
<1>2. \A p \in PendingPushes(d) : p.clientClock \in Nat /\
        (p \in PendingPushes(c) \/ p.clientClock >= c.clientClock)
  BY PushesHave DEF NumbersOn
<1> SUFFICES ASSUME NEW i \in 1..Len(events)
             PROVE  Telling(h, t, d, ClockAt(k, events, i - 1), events[i])
  BY DEF Tells
<1> DEFINE e == events[i]
           x == ClockAt(k, events, i - 1)
<1>3. Telling(h, t, c, x, e)
  BY DEF Tells
<1>4. e \in DataMessage
  OBVIOUS
<1>5. IsAnswer(e) => e.clientClock \in Nat
  BY <1>4 DEF IsAnswer, DataMessage
<1> HIDE DEF e, x
<1>6. Telling(h, t, d, x, e)
  BY <1>1, <1>2, <1>3, <1>5 DEF Telling
<1> QED BY <1>6 DEF e, x

\* What msgs tell of a step of the room, to whoever knows the version before it.
Informs(c, msgs) ==
    \A k \in 0..clock : hist'[k] = hist[clock] =>
        Story(hist', clock', c, k, msgs, TRUE)

\* One patch that leads to a version tells of it.
LEMMA PatchTells ==
    ASSUME NEW h, NEW t \in Nat, NEW c, NEW k, NEW e, ~IsAnswer(e),
           e.serverClock = t, h[t] = ApplyNetworkDiff(h[k], e.diff)
    PROVE  Telling(h, t, c, k, e)
BY DEF Telling

\* News informs everybody.
LEMMA NewsInforms ==
    ASSUME RecordsInv, clock' \in Nat, NEW c, NEW msgs \in Seq(DataMessage),
           News(msgs)
    PROVE  Informs(c, msgs)
<1> SUFFICES ASSUME NEW k \in 0..clock, hist'[k] = hist[clock]
             PROVE  Story(hist', clock', c, k, msgs, TRUE)
  BY DEF Informs
<1> DEFINE old == hist[clock]
           new == hist'[clock']
           h == hist'
           t == clock'
           n == Len(msgs)
<1>1. old \in Docs /\ n \in Nat
  BY LatestIsDocuments
<1>2. h[k] = old /\ new = h[t] /\ t \in Nat
  OBVIOUS
<1>3. \A i \in 1..n : ~IsAnswer(msgs[i]) /\ msgs[i].serverClock = t
  BY DEF News
<1>4. \/ new = old /\ \A i \in 1..n : DOMAIN msgs[i].diff \cap Ids = {}
      \/ n = 1 /\ new = ApplyNetworkDiff(old, msgs[1].diff)
  BY DEF News
<1> HIDE DEF old, new, h, t, n
<1>5. CASE new = old /\ \A i \in 1..n : DOMAIN msgs[i].diff \cap Ids = {}
  <2>1. ASSUME NEW i \in 0..n PROVE h[ClockAt(k, msgs, i)] = old
    <3>1. CASE i = 0
      BY <1>2, <3>1 DEF ClockAt
    <3>2. CASE i # 0
      <4>1. i \in 1..n
        BY <1>1, <3>2
      <4>2. ClockAt(k, msgs, i) = t
        BY <1>3, <3>2, <4>1 DEF ClockAt
      <4> QED BY <1>2, <1>5, <4>2
    <3> QED BY <3>1, <3>2
  <2>2. ASSUME NEW i \in 1..n PROVE Telling(h, t, c, ClockAt(k, msgs, i - 1), msgs[i])
    <3>1. i - 1 \in 0..n
      BY <1>1
    <3>2. ApplyNetworkDiff(old, msgs[i].diff) = old
      BY <1>1, <1>5 DEF ApplyNetworkDiff, Docs
    <3>3. ~IsAnswer(msgs[i]) /\ msgs[i].serverClock = t
      BY <1>3
    <3>4. h[ClockAt(k, msgs, i - 1)] = old
      BY <2>1, <3>1
    <3>5. h[t] = ApplyNetworkDiff(h[ClockAt(k, msgs, i - 1)], msgs[i].diff)
      BY <1>2, <1>5, <3>2, <3>4
    <3> QED BY <1>2, <3>3, <3>5, PatchTells
  <2>3. h[EndOf(k, msgs)] = h[t]
    <3>1. n \in 0..n
      BY <1>1
    <3>2. h[ClockAt(k, msgs, n)] = old
      BY <2>1, <3>1
    <3> QED BY <1>2, <1>5, <3>2 DEF EndOf, n
  <2>4. Tells(h, t, c, k, msgs)
    BY <2>2 DEF Tells, n
  <2> QED BY <2>3, <2>4 DEF Story, h, t
<1>6. CASE n = 1 /\ new = ApplyNetworkDiff(old, msgs[1].diff)
  <2>1. ClockAt(k, msgs, 0) = k /\ ClockAt(k, msgs, 1) = t /\ 1 \in 1..n
    BY <1>3, <1>6 DEF ClockAt
  <2>2. ~IsAnswer(msgs[1]) /\ msgs[1].serverClock = t
    BY <1>3, <2>1
  <2>3. h[t] = ApplyNetworkDiff(h[k], msgs[1].diff)
    BY <1>2, <1>6
  <2>6. Telling(h, t, c, k, msgs[1])
    BY <1>2, <2>2, <2>3, PatchTells
  <2>7. \A i \in 1..n : i = 1 /\ i - 1 = 0
    BY <1>6
  <2>4. Tells(h, t, c, k, msgs)
    BY <2>1, <2>6, <2>7 DEF Tells, n
  <2>5. h[EndOf(k, msgs)] = h[t]
    BY <1>6, <2>1 DEF EndOf, n
  <2> QED BY <2>4, <2>5 DEF Story, h, t
<1> QED BY <1>4, <1>5, <1>6

\* An answer informs the client whose request it settles.
LEMMA AnswerInforms ==
    ASSUME RecordsInv, clock' \in Nat, NEW c \in Client, NEW msg \in DataMessage,
           NEW diff, Settles(msg, diff), msg.clientClock < c.clientClock,
           \A p \in PendingPushes(c) : p.clientClock = msg.clientClock => p.diff = diff
    PROVE  Informs(c, <<msg>>)
<1> SUFFICES ASSUME NEW k \in 0..clock, hist'[k] = hist[clock]
             PROVE  Story(hist', clock', c, k, <<msg>>, TRUE)
  BY DEF Informs
<1>1. /\ IsAnswer(msg) /\ msg.serverClock = clock'
      /\ hist'[clock'] = ApplyNetworkDiff(hist'[k], EventDiff(msg, diff))
  BY DEF Settles
<1>2. Telling(hist', clock', c, k, msg)
  BY <1>1 DEF Telling
<1>3. Tells(hist', clock', c, k, <<msg>>) /\ EndOf(k, <<msg>>) = msg.serverClock
  BY <1>2, TellsOne
<1> QED BY <1>1, <1>3 DEF Story

-----------------------------------------------------------------------------
(***************************************************************************)
(* What a session hears in a step goes on with the story of what is on its *)
(* way.                                                                    *)
(***************************************************************************)
HistoryGoesOn ==
    /\ clock \in Nat /\ clock' \in Nat /\ clock <= clock'
    /\ \A j \in 0..clock : hist'[j] = hist[j]

\* What is on its way follows before, as it did.
LEMMA StoryHeard ==
    ASSUME HistoryGoesOn, NEW c, NEW d \in Session, NEW e \in Session,
           NEW msgs \in Seq(DataMessage), Hears(d, e, msgs),
           Listening(d) => Informs(c, msgs),
           NEW before \in Seq(DataMessage), NEW k \in 0..clock,
           Story(hist, clock, c, k, before \o SessionData(d), Listening(d))
    PROVE  Story(hist', clock', c, k, before \o SessionData(e), Listening(e))
<1> DEFINE old == SessionData(d)
           new == SessionData(e)
           all == before \o old
           x == EndOf(k, all)
<1>1. old \in Seq(DataMessage) /\ new \in Seq(DataMessage)
  BY SessionDataType
<1>2. /\ Listening(e) => Listening(d) /\ new = old \o msgs
      /\ Listening(d) => Prefix(new, old \o msgs)
      /\ ~Listening(d) => Prefix(new, old)
  BY DEF Hears
<1>3. Tells(hist, clock, c, k, all) /\ (Listening(d) => hist[x] = hist[clock])
  BY DEF Story
<1>4. k \in 0..clock' /\ clock \in 0..clock
  BY DEF HistoryGoesOn
<1> HIDE DEF old, new
<1>5. all \in Seq(DataMessage)
  BY <1>1
<1> HIDE DEF all
<1>6. Tells(hist', clock', c, k, all)
  BY <1>3, <1>5, TellsLater DEF HistoryGoesOn
<1>7. x \in 0..clock
  BY <1>3, <1>5, TellsWhen DEF HistoryGoesOn
<1> HIDE DEF x
<1>8. CASE ~Listening(d)
  <2>1. PICK rest \in Seq(DataMessage) : old = new \o rest
    BY <1>2, <1>8 DEF Prefix
  <2>2. before \o new \in Seq(DataMessage) /\ all = (before \o new) \o rest
    BY <1>1, <2>1, MessagesAssoc, ConcatProperties DEF all
  <2>3. Tells(hist', clock', c, k, before \o new)
    BY <1>6, <2>1, <2>2, TellsMore
  <2>4. ~Listening(e)
    BY <1>2, <1>8
  <2> QED BY <2>3, <2>4 DEF Story, new
<1>9. CASE Listening(d)
  <2>1. hist'[x] = hist[clock]
    BY <1>3, <1>4, <1>7, <1>9 DEF HistoryGoesOn
  <2>2. Story(hist', clock', c, x, msgs, TRUE)
    BY <1>7, <1>9, <2>1 DEF Informs
  <2>3. Tells(hist', clock', c, x, msgs) /\ hist'[EndOf(x, msgs)] = hist'[clock']
    BY <2>2 DEF Story
  <2>4. /\ Tells(hist', clock', c, k, all \o msgs)
        /\ EndOf(k, all \o msgs) = EndOf(x, msgs)
    BY <1>5, <1>6, <2>3, TellsMore DEF x
  <2>5. PICK rest \in Seq(DataMessage) : old \o msgs = new \o rest
    BY <1>2, <1>9 DEF Prefix
  <2>6. all \o msgs = before \o (old \o msgs)
    BY <1>1, MessagesAssoc DEF all
  <2>10. before \o new \in Seq(DataMessage)
    BY <1>1, ConcatProperties
  <2>11. (before \o new) \o rest = before \o (new \o rest)
    BY <1>1, <2>5, MessagesAssoc
  <2>7. /\ before \o new \in Seq(DataMessage)
        /\ all \o msgs = (before \o new) \o rest
    BY <2>5, <2>6, <2>10, <2>11, Zenon
  <2>8. Tells(hist', clock', c, k, before \o new)
    <3>1. Tells(hist', clock', c, k, (before \o new) \o rest)
      BY <2>4, <2>7, Zenon
    <3> QED BY <2>5, <2>10, <3>1, TellsMore
  <2>9. Listening(e) => before \o new = all \o msgs
    BY <1>2, <2>6
  <2> QED BY <2>3, <2>4, <2>8, <2>9 DEF Story, new
<1> QED BY <1>8, <1>9

\* What is on a socket: its first messages, and then the rest.
LEMMA WireDataConcat ==
    ASSUME NEW v \in Seq(ServerMessage), NEW w \in Seq(ServerMessage)
    PROVE  WireData(v \o w) = WireData(v) \o WireData(w)
BY CollectingAdds, WireDataIs, Collecting!FoldSplits

\* What follows the same beginning is the same.
LEMMA SameBeginning ==
    ASSUME NEW T, NEW p \in Seq(T), NEW a \in Seq(T), NEW b \in Seq(T),
           p \o a = p \o b
    PROVE  a = b
<1>1. /\ Len(p) \in Nat /\ Len(a) \in Nat /\ Len(b) \in Nat
      /\ Len(p \o a) = Len(p) + Len(a) /\ Len(p \o b) = Len(p) + Len(b)
  OBVIOUS
<1>2. Len(a) = Len(b)
  BY <1>1
<1>3. ASSUME NEW i \in 1..Len(a) PROVE a[i] = b[i]
  <2>1. (p \o a)[Len(p) + i] = a[i] /\ (p \o b)[Len(p) + i] = b[i]
    BY <1>1, <1>2
  <2> QED BY <2>1
<1> QED BY <1>2, <1>3, SeqEqual

\* A sequence up to a place, and from there.
LEMMA SplitAt ==
    ASSUME NEW T, NEW w \in Seq(T), NEW i \in 0..Len(w)
    PROVE  LET a == SubSeq(w, 1, i)
               b == SubSeq(w, i + 1, Len(w))
           IN  /\ a \in Seq(T) /\ b \in Seq(T) /\ w = a \o b
               /\ Len(b) = Len(w) - i
               /\ \A j \in 1..Len(w) - i : b[j] = w[i + j]
<1> DEFINE a == SubSeq(w, 1, i)
           b == SubSeq(w, i + 1, Len(w))
<1>1. Len(w) \in Nat /\ i \in Nat /\ i <= Len(w)
  OBVIOUS
<1>2. /\ a \in Seq(T) /\ Len(a) = i
      /\ \A j \in 1..i : a[j] = w[j]
  BY <1>1
<1>3. /\ b \in Seq(T) /\ Len(b) = Len(w) - i
      /\ \A j \in 1..Len(w) - i : b[j] = w[i + j]
  BY <1>1
<1> HIDE DEF a, b
<1>4. a \o b \in Seq(T) /\ Len(a \o b) = Len(w)
  BY <1>1, <1>2, <1>3
<1>5. ASSUME NEW j \in 1..Len(w) PROVE (a \o b)[j] = w[j]
  <2>1. CASE j <= i
    BY <1>1, <1>2, <1>3, <2>1
  <2>2. CASE j > i
    <3>1. (a \o b)[j] = b[j - i]
      BY <1>1, <1>2, <1>3, <2>2
    <3>2. j - i \in 1..Len(w) - i /\ i + (j - i) = j
      BY <1>1, <2>2
    <3>3. b[j - i] = w[i + (j - i)]
      BY <1>3, <3>2
    <3>4. w[i + (j - i)] = w[j]
      BY <3>2, Zenon
    <3> QED BY <3>1, <3>3, <3>4, Zenon
  <2>3. j <= i \/ j > i
    <3>1. j \in Nat
      OBVIOUS
    <3> QED BY <1>1, <3>1
  <2> QED BY <2>1, <2>2, <2>3, Zenon
<1>6. w = a \o b
  BY <1>4, <1>5, SeqEqual
<1> QED BY <1>2, <1>3, <1>6 DEF a, b

(***************************************************************************)
(* The session as the client will know it when message i has arrived.      *)
(***************************************************************************)
Behind(d, i) == [d EXCEPT !.wire = SubSeq(d.wire, i + 1, Len(d.wire))]

\* A session's socket is open only while the session is connected.
Attended(d) == d.open => d.state = Connected

\* Leaving out its first messages changes nothing else of a session.
LEMMA BehindIs ==
    ASSUME NEW d \in Session, NEW i \in 0..Len(d.wire)
    PROVE  /\ Behind(d, i) \in Session
           /\ Behind(d, i).wire = SubSeq(d.wire, i + 1, Len(d.wire))
           /\ Behind(d, i).open = d.open /\ Behind(d, i).state = d.state
           /\ Behind(d, i).outstanding = d.outstanding
           /\ Listening(Behind(d, i)) <=> Listening(d)
           /\ Attended(Behind(d, i)) <=> Attended(d)
           /\ SessionData(d) = WireData(SubSeq(d.wire, 1, i))
                                 \o SessionData(Behind(d, i))
<1> DEFINE a == SubSeq(d.wire, 1, i)
           b == SubSeq(d.wire, i + 1, Len(d.wire))
           rest == IF d.open THEN d.outstanding ELSE <<>>
           e == [d EXCEPT !.wire = b]
<1>1. d.wire \in Seq(ServerMessage) /\ d.outstanding \in Seq(DataMessage)
  BY OrderlyQueues
<1>2. a \in Seq(ServerMessage) /\ b \in Seq(ServerMessage) /\ d.wire = a \o b
  BY <1>1, SplitAt
<1> HIDE DEF a, b
<1>3. /\ e \in Session /\ e.wire = b /\ e.open = d.open /\ e.state = d.state
      /\ e.outstanding = d.outstanding
  BY <1>2, Zenon DEF Session
<1>4. e = Behind(d, i)
  BY DEF Behind, b
<1> HIDE DEF e
<1>5. (Listening(e) <=> Listening(d)) /\ (Attended(e) <=> Attended(d))
  BY <1>3 DEF Listening, Attended
<1>6. rest \in Seq(DataMessage)
  <2>1. <<>> \in Seq(DataMessage)
    OBVIOUS
  <2> QED BY <1>1, <2>1
<1>7. SessionData(d) = WireData(d.wire) \o rest /\ SessionData(e) = WireData(b) \o rest
  BY <1>3 DEF SessionData
<1> HIDE DEF rest
<1>8. WireData(a) \in Seq(DataMessage) /\ WireData(b) \in Seq(DataMessage)
  BY <1>2, WireDataType
<1>9. WireData(d.wire) = WireData(a) \o WireData(b)
  BY <1>2, WireDataConcat
<1>10. SessionData(d) = WireData(a) \o SessionData(e)
  BY <1>6, <1>7, <1>8, <1>9, MessagesAssoc
<1> QED BY <1>3, <1>4, <1>5, <1>10 DEF a, b

\* What is heard behind a connect answer is what is heard.
LEMMA BehindHears ==
    ASSUME NEW d \in Session, NEW e \in Session, NEW msgs \in Seq(DataMessage),
           Hears(d, e, msgs), NEW i \in 1..Len(e.wire),
           e.wire[i].type = "connect"
    PROVE  /\ i \in 1..Len(d.wire) /\ e.wire[i] = d.wire[i]
           /\ Hears(Behind(d, i), Behind(e, i), msgs)
<1> DEFINE v == d.wire
           w == e.wire
           p == SubSeq(v, 1, i)
           x == Behind(d, i)
           y == Behind(e, i)
           pre == WireData(p)
<1>1. /\ v \in Seq(ServerMessage) /\ w \in Seq(ServerMessage)
      /\ Len(v) \in Nat /\ Len(w) \in Nat
  BY OrderlyQueues
<1>2. KeepsConnects(v, w) /\ Greeted(d, e)
  BY DEF Hears
<1>3. i <= Len(v) /\ \A j \in 1..i : w[j] = v[j]
  BY <1>2 DEF KeepsConnects
<1>4. i \in 0..Len(v) /\ i \in 0..Len(w) /\ i \in 1..Len(v) /\ i \in 1..i
  BY <1>1, <1>3
<1>5. SubSeq(w, 1, i) = p
  <2> HIDE DEF v, w
  <2>1. SubSeq(w, 1, i) \in Seq(ServerMessage) /\ Len(SubSeq(w, 1, i)) = i
    BY <1>1, <1>4
  <2>2. p \in Seq(ServerMessage) /\ Len(p) = i
    BY <1>1, <1>4
  <2>3. \A j \in 1..i : SubSeq(w, 1, i)[j] = w[j] /\ p[j] = v[j]
    BY <1>1, <1>4
  <2> QED BY <1>3, <2>1, <2>2, <2>3, SeqEqual
<1>6. /\ x \in Session /\ SessionData(d) = pre \o SessionData(x)
      /\ Listening(x) <=> Listening(d)
      /\ x.open = d.open /\ x.state = d.state
      /\ x.wire = SubSeq(v, i + 1, Len(v))
  BY <1>4, BehindIs
<1>7. /\ y \in Session /\ SessionData(e) = pre \o SessionData(y)
      /\ Listening(y) <=> Listening(e)
      /\ y.open = e.open /\ y.state = e.state
      /\ y.wire = SubSeq(w, i + 1, Len(w))
  BY <1>4, <1>5, BehindIs
<1>8. pre \in Seq(DataMessage)
  BY <1>1, <1>4, SplitAt, WireDataType
<1>9. SessionData(x) \in Seq(DataMessage) /\ SessionData(y) \in Seq(DataMessage)
  BY <1>6, <1>7, SessionDataType
<1>10. Greeted(x, y)
  BY <1>2, <1>6, <1>7 DEF Greeted
<1>11. KeepsConnects(x.wire, y.wire)
  <2>1. /\ Len(x.wire) = Len(v) - i
        /\ \A j \in 1..Len(v) - i : x.wire[j] = v[i + j]
    BY <1>1, <1>4, <1>6, SplitAt
  <2>2. /\ Len(y.wire) = Len(w) - i
        /\ \A j \in 1..Len(w) - i : y.wire[j] = w[i + j]
    BY <1>1, <1>4, <1>7, SplitAt
  <2> SUFFICES ASSUME NEW j \in 1..Len(y.wire), y.wire[j].type = "connect"
               PROVE  j <= Len(x.wire) /\ \A n \in 1..j : y.wire[n] = x.wire[n]
    BY DEF KeepsConnects
  <2> HIDE DEF v, w, x, y
  <2>3. j \in 1..Len(w) - i /\ i + j \in 1..Len(w)
    BY <1>1, <1>4, <2>2
  <2>4. w[i + j].type = "connect"
    BY <2>2, <2>3
  <2>5. i + j <= Len(v) /\ \A n \in 1..i + j : w[n] = v[n]
    BY <1>2, <2>3, <2>4 DEF KeepsConnects
  <2>6. j <= Len(x.wire)
    BY <1>1, <1>4, <2>1, <2>5
  <2>7. ASSUME NEW n \in 1..j PROVE y.wire[n] = x.wire[n]
    <3>1. n \in 1..Len(w) - i /\ n \in 1..Len(v) - i /\ i + n \in 1..i + j
      BY <1>1, <1>4, <2>3, <2>5
    <3>2. y.wire[n] = w[i + n] /\ x.wire[n] = v[i + n]
      BY <2>1, <2>2, <3>1
    <3>3. w[i + n] = v[i + n]
      BY <2>5, <3>1
    <3> QED BY <3>2, <3>3
  <2> QED BY <2>6, <2>7
<1> HIDE DEF v, w, p, x, y, pre
<1>12. ASSUME Listening(y)
       PROVE  Listening(x) /\ SessionData(y) = SessionData(x) \o msgs
  <2>1. Listening(d) /\ SessionData(e) = SessionData(d) \o msgs
    BY <1>7, <1>12 DEF Hears
  <2>4. (pre \o SessionData(x)) \o msgs = pre \o (SessionData(x) \o msgs)
    BY <1>8, <1>9, MessagesAssoc
  <2>2. pre \o SessionData(y) = pre \o (SessionData(x) \o msgs)
    BY <1>6, <1>7, <2>1, <2>4, Zenon
  <2>3. SessionData(x) \o msgs \in Seq(DataMessage)
    BY <1>9, ConcatProperties
  <2> QED BY <1>6, <1>8, <1>9, <2>1, <2>2, <2>3, SameBeginning
<1>13. ASSUME NEW more \in Seq(DataMessage), Prefix(SessionData(e), SessionData(d) \o more)
       PROVE  Prefix(SessionData(y), SessionData(x) \o more)
  <2>1. PICK rest \in Seq(DataMessage) : SessionData(d) \o more = SessionData(e) \o rest
    BY <1>13 DEF Prefix
  <2>5. /\ (pre \o SessionData(x)) \o more = pre \o (SessionData(x) \o more)
        /\ (pre \o SessionData(y)) \o rest = pre \o (SessionData(y) \o rest)
    BY <1>8, <1>9, <2>1, MessagesAssoc
  <2>2. pre \o (SessionData(x) \o more) = pre \o (SessionData(y) \o rest)
    BY <1>6, <1>7, <2>1, <2>5, Zenon
  <2>3. /\ SessionData(x) \o more \in Seq(DataMessage)
        /\ SessionData(y) \o rest \in Seq(DataMessage)
    BY <1>9, ConcatProperties
  <2>4. SessionData(x) \o more = SessionData(y) \o rest
    BY <1>8, <2>2, <2>3, SameBeginning
  <2> QED BY <2>4 DEF Prefix
<1>14. Listening(x) => Prefix(SessionData(y), SessionData(x) \o msgs)
  BY <1>6, <1>13 DEF Hears
<1>15. ASSUME ~Listening(x) PROVE Prefix(SessionData(y), SessionData(x))
  <2>1. Prefix(SessionData(e), SessionData(d))
    BY <1>6, <1>15 DEF Hears
  <2>2. <<>> \in Seq(DataMessage)
    OBVIOUS
  <2>3. SessionData(d) \o <<>> = SessionData(d) /\ SessionData(x) \o <<>> = SessionData(x)
    BY <1>9, ConcatEmpty, SessionDataType
  <2> QED BY <1>13, <2>1, <2>2, <2>3
<1>16. Hears(x, y, msgs)
  BY <1>10, <1>11, <1>12, <1>14, <1>15 DEF Hears
<1> QED BY <1>3, <1>4, <1>16 DEF v, w, x, y

-----------------------------------------------------------------------------
(***************************************************************************)
(* A client that follows the room: it is ahead of a version of the room's  *)
(* documents, what its session has for it leads from there to the last     *)
(* one, and an answer to its connect request leads it back.  h are the     *)
(* versions so far, t is the clock of the last; l are the messages of      *)
(* earlier sockets.                                                        *)
(***************************************************************************)
Copied(h, t, c) ==
    /\ c.lastServerClock \in 0..t
    /\ ~c.loaded => c.lastServerClock = 0 /\ ~c.isConnectedToRoom
    /\ c.loaded => Ahead(c, h[c.lastServerClock])
    /\ Numbered(c)

\* The connect requests whose answers can come too late.
Earlier(c) == IF c.requests = 0 THEN 0 ELSE c.requests - 1

Written(c, l) ==
    /\ c.out \in Seq(Sendable(c, IF c.isConnectedToRoom THEN 0 ELSE c.requests))
    /\ l \in Seq(Sendable(c, Earlier(c)))
    /\ ~c.isConnectedToRoom =>
         c.pendingPushRequests = <<>> /\ c.incomingDiffBuffer = <<>>

\* Every connect answer answers a request.
Requested(d) ==
    \A i \in 1..Len(d.wire) :
        d.wire[i].type = "connect" => d.wire[i].connectRequestId # NoRequest

HearsAll(h, t, c, d) ==
    c.isConnectedToRoom =>
        /\ c.status = SocketOnline /\ c.latestConnectRequestId = NoRequest
        /\ Attended(d)
        /\ Story(h, t, c, c.lastServerClock,
                 c.incomingDiffBuffer \o SessionData(d), Listening(d))

\* A connect answer m hydrates a client that knows version k.
Hydrates(h, k, m) ==
    \/ /\ m.hydrationType = "wipe_all"
       /\ h[m.serverClock] = ApplyNetworkDiff(NoDocs, m.diff)
    \/ /\ m.hydrationType = "wipe_presence" /\ k > 0
       /\ h[m.serverClock] = ApplyNetworkDiff(h[k], m.diff)

Accepts(c, m) ==
    m.type = "connect" /\ m.connectRequestId = c.latestConnectRequestId

\* What the client will hear when it has accepted m; d is the session then.
Welcome(h, t, c, m, d) ==
    /\ c.out = <<>> /\ Attended(d)
    /\ m.serverClock \in 0..t
    /\ Hydrates(h, c.lastServerClock, m)
    /\ Story(h, t, c, m.serverClock, SessionData(d), Listening(d))

\* The only message of a client that waits is its connect request.
Waits(c) ==
    /\ c.latestConnectRequestId = c.requests
    /\ c.out # <<>> =>
         /\ Len(c.out) = 1 /\ Head(c.out).type = "connect"
         /\ Head(c.out).connectRequestId = c.requests
         /\ Head(c.out).lastServerClock = c.lastServerClock

Awaits(h, t, c, d) ==
    c.status = SocketOnline /\ ~c.isConnectedToRoom =>
        /\ Waits(c)
        /\ \A i \in 1..Len(d.wire) : Accepts(c, d.wire[i]) =>
             Welcome(h, t, c, d.wire[i], Behind(d, i))

Follows(h, t, c, d, l) ==
    /\ Copied(h, t, c) /\ Written(c, l) /\ Requested(d)
    /\ HearsAll(h, t, c, d) /\ Awaits(h, t, c, d)

Following(h, t, c, d, l) == c.astray \/ Follows(h, t, c, d, l)

\* The versions so far are documents.
Versions(h, t) == t \in Nat /\ \A j \in 0..t : h[j] \in Docs

\* A client that only does things of its own goes on following.
LEMMA FollowingContinues ==
    ASSUME NEW h, NEW t, Versions(h, t), NEW c \in Client, NEW e \in Client,
           NEW d \in Session, NEW l, Continues(c, e), Following(h, t, c, d, l)
    PROVE  Following(h, t, e, d, l)
<1> DEFINE k == c.lastServerClock
           n == IF c.isConnectedToRoom THEN 0 ELSE c.requests
<1>1. /\ e.status = c.status /\ e.isConnectedToRoom = c.isConnectedToRoom
      /\ e.incomingDiffBuffer = c.incomingDiffBuffer
      /\ e.lastServerClock = k
      /\ e.latestConnectRequestId = c.latestConnectRequestId
      /\ e.requests = c.requests /\ e.loaded = c.loaded /\ e.astray = c.astray
      /\ ~c.isConnectedToRoom =>
           e.pendingPushRequests = c.pendingPushRequests /\ e.out = c.out
      /\ NumbersOn(c, e)
  BY DEF Continues
<1>2. \A m \in Nat : Numbered(c) /\ c.out \in Seq(Sendable(c, m)) =>
                       e.out \in Seq(Sendable(e, m))
  BY DEF Continues
<1>3. \A base \in Docs : Ahead(c, base) => Ahead(e, base)
  BY DEF Continues
<1>4. c.requests \in Nat /\ c.incomingDiffBuffer \in Seq(DataMessage)
  BY DEF Client
<1>5. SessionData(d) \in Seq(DataMessage)
  BY SessionDataType
<1> SUFFICES ASSUME Follows(h, t, c, d, l) PROVE Follows(h, t, e, d, l)
  BY <1>1 DEF Following
<1>6. /\ Copied(h, t, c) /\ Written(c, l) /\ Requested(d)
      /\ HearsAll(h, t, c, d) /\ Awaits(h, t, c, d)
  BY DEF Follows
<1>7. k \in 0..t /\ Numbered(c) /\ (c.loaded => Ahead(c, h[k]))
  BY <1>6 DEF Copied
<1>8. Copied(h, t, e)
  <2>1. h[k] \in Docs
    BY <1>7 DEF Versions
  <2>2. Numbered(e)
    BY <1>1, <1>7 DEF NumbersOn
  <2>3. e.loaded => Ahead(e, h[k])
    BY <1>1, <1>3, <1>7, <2>1
  <2> HIDE DEF k
  <2> QED BY <1>1, <1>6, <1>7, <2>2, <2>3 DEF Copied, k
<1>9. Written(e, l)
  <2>1. n \in Nat /\ Earlier(c) \in Nat /\ Earlier(e) = Earlier(c)
    BY <1>1, <1>4 DEF Earlier
  <2>2. c.out \in Seq(Sendable(c, n)) /\ l \in Seq(Sendable(c, Earlier(c)))
    BY <1>6 DEF Written
  <2>3. e.out \in Seq(Sendable(e, n))
    BY <1>2, <1>7, <2>1, <2>2
  <2>4. l \in Seq(Sendable(e, Earlier(c)))
    BY <1>1, <2>1, <2>2, StillSendable
  <2>5. n = IF e.isConnectedToRoom THEN 0 ELSE e.requests
    BY <1>1
  <2> HIDE DEF n
  <2>6. ~e.isConnectedToRoom =>
          e.pendingPushRequests = <<>> /\ e.incomingDiffBuffer = <<>>
    BY <1>1, <1>6 DEF Written
  <2> QED BY <2>1, <2>3, <2>4, <2>5, <2>6 DEF Written
<1>10. ASSUME NEW x, NEW events \in Seq(DataMessage), NEW on,
              Story(h, t, c, x, events, on)
       PROVE  Story(h, t, e, x, events, on)
  BY <1>1, <1>10, TellsNumberedOn DEF Story
<1>11. HearsAll(h, t, e, d)
  <2> SUFFICES ASSUME e.isConnectedToRoom PROVE HearsAll(h, t, e, d)
    BY DEF HearsAll
  <2>1. /\ c.status = SocketOnline /\ c.latestConnectRequestId = NoRequest
        /\ Attended(d)
        /\ Story(h, t, c, k, c.incomingDiffBuffer \o SessionData(d), Listening(d))
    BY <1>1, <1>6 DEF HearsAll
  <2>2. c.incomingDiffBuffer \o SessionData(d) \in Seq(DataMessage)
    BY <1>4, <1>5
  <2>3. Story(h, t, e, k, c.incomingDiffBuffer \o SessionData(d), Listening(d))
    BY <1>10, <2>1, <2>2
  <2> QED BY <1>1, <2>1, <2>3 DEF HearsAll
<1>12. Awaits(h, t, e, d)
  <2> SUFFICES ASSUME e.status = SocketOnline, ~e.isConnectedToRoom
               PROVE  Awaits(h, t, e, d)
    BY DEF Awaits
  <2>1. /\ Waits(c)
        /\ \A i \in 1..Len(d.wire) : Accepts(c, d.wire[i]) =>
             Welcome(h, t, c, d.wire[i], Behind(d, i))
    BY <1>1, <1>6 DEF Awaits
  <2>2. Waits(e) /\ e.out = c.out
    BY <1>1, <2>1 DEF Waits
  <2>3. ASSUME NEW i \in 1..Len(d.wire), Accepts(e, d.wire[i])
        PROVE  Welcome(h, t, e, d.wire[i], Behind(d, i))
    <3>1. Welcome(h, t, c, d.wire[i], Behind(d, i))
      BY <1>1, <2>1, <2>3 DEF Accepts
    <3>2. i \in 0..Len(d.wire)
      OBVIOUS
    <3>3. SessionData(Behind(d, i)) \in Seq(DataMessage)
      BY <3>2, BehindIs, SessionDataType
    <3> QED BY <1>1, <1>10, <2>2, <3>1, <3>3 DEF Welcome
  <2> QED BY <2>2, <2>3 DEF Awaits
<1> QED BY <1>6, <1>8, <1>9, <1>11, <1>12 DEF Follows

\* A client that lets go of its connection goes on following.
LEMMA FollowingLetsGo ==
    ASSUME NEW h, NEW t, Versions(h, t), NEW c \in Client, NEW e \in Client,
           NEW d, NEW b, NEW l, LetsGo(c, e), Requested(d) => Requested(b),
           Following(h, t, c, d, l)
    PROVE  Following(h, t, e, b, l)
<1> DEFINE k == c.lastServerClock
           n == IF c.isConnectedToRoom THEN 0 ELSE c.requests
<1>1. /\ e.status # SocketOnline /\ ~e.isConnectedToRoom
      /\ e.pendingPushRequests = <<>> /\ e.incomingDiffBuffer = <<>>
      /\ e.lastServerClock = k
      /\ e.requests = c.requests /\ e.loaded = c.loaded /\ e.astray = c.astray
      /\ e.out = c.out /\ NumbersOn(c, e)
  BY DEF LetsGo
<1>2. \A base \in Docs : Ahead(c, base) => Ahead(e, base)
  BY DEF LetsGo
<1>3. c.requests \in Nat
  BY DEF Client
<1> SUFFICES ASSUME Follows(h, t, c, d, l) PROVE Follows(h, t, e, b, l)
  BY <1>1 DEF Following
<1>4. Copied(h, t, c) /\ Written(c, l) /\ Requested(d)
  BY DEF Follows
<1>5. k \in 0..t /\ Numbered(c) /\ (c.loaded => Ahead(c, h[k]))
      /\ (~c.loaded => k = 0)
  BY <1>4 DEF Copied
<1>6. Copied(h, t, e)
  <2>1. h[k] \in Docs
    BY <1>5 DEF Versions
  <2>2. Numbered(e)
    BY <1>1, <1>5 DEF NumbersOn
  <2>3. e.loaded => Ahead(e, h[k])
    BY <1>1, <1>2, <1>5, <2>1
  <2> HIDE DEF k
  <2> QED BY <1>1, <1>5, <2>2, <2>3 DEF Copied
<1>7. Written(e, l)
  <2>1. n \in Nat /\ Earlier(c) \in Nat /\ Earlier(e) = Earlier(c) /\ n <= c.requests
    BY <1>1, <1>3 DEF Earlier
  <2>2. c.out \in Seq(Sendable(c, n)) /\ l \in Seq(Sendable(c, Earlier(c)))
    BY <1>4 DEF Written
  <2> HIDE DEF n
  <2>3. c.out \in Seq(Sendable(e, c.requests))
    BY <1>1, <1>3, <2>1, <2>2, StillSendable
  <2>4. l \in Seq(Sendable(e, Earlier(c)))
    BY <1>1, <2>1, <2>2, StillSendable
  <2> QED BY <1>1, <2>1, <2>3, <2>4 DEF Written
<1>8. HearsAll(h, t, e, b) /\ Awaits(h, t, e, b)
  BY <1>1 DEF HearsAll, Awaits
<1> QED BY <1>4, <1>6, <1>7, <1>8 DEF Follows

\* A client goes on following while its session hears what the room tells.
LEMMA FollowingHeard ==
    ASSUME HistoryGoesOn, NEW c \in Client, NEW d \in Session, NEW e \in Session,
           NEW msgs \in Seq(DataMessage), Hears(d, e, msgs),
           Listening(d) => Informs(c, msgs), NEW l,
           Following(hist, clock, c, d, l)
    PROVE  Following(hist', clock', c, e, l)
<1> DEFINE k == c.lastServerClock
<1> SUFFICES ASSUME Follows(hist, clock, c, d, l)
             PROVE  Follows(hist', clock', c, e, l)
  BY DEF Following
<1>1. /\ Copied(hist, clock, c) /\ Written(c, l) /\ Requested(d)
      /\ HearsAll(hist, clock, c, d) /\ Awaits(hist, clock, c, d)
  BY DEF Follows
<1>2. k \in 0..clock
  BY <1>1 DEF Copied
<1>3. /\ \A j \in 0..clock : hist'[j] = hist[j] /\ j \in 0..clock'
      /\ clock \in Nat /\ clock' \in Nat
  BY DEF HistoryGoesOn
<1>4. Copied(hist', clock', c)
  BY <1>1, <1>2, <1>3 DEF Copied
<1>5. KeepsConnects(d.wire, e.wire) /\ Greeted(d, e)
  BY DEF Hears
<1>6. ASSUME NEW i \in 1..Len(e.wire), e.wire[i].type = "connect"
      PROVE  /\ i \in 1..Len(d.wire) /\ e.wire[i] = d.wire[i]
             /\ Hears(Behind(d, i), Behind(e, i), msgs)
  BY <1>6, BehindHears
<1>7. Requested(e)
  BY <1>1, <1>6 DEF Requested
<1>8. Attended(d) => Attended(e)
  BY <1>5 DEF Attended, Greeted
<1>9. ASSUME NEW x \in Session, NEW y \in Session, Hears(x, y, msgs),
             Listening(x) => Listening(d),
             NEW before \in Seq(DataMessage), NEW j \in 0..clock,
             Story(hist, clock, c, j, before \o SessionData(x), Listening(x))
      PROVE  Story(hist', clock', c, j, before \o SessionData(y), Listening(y))
  BY <1>9, StoryHeard
<1>10. HearsAll(hist', clock', c, e)
  <2> SUFFICES ASSUME c.isConnectedToRoom PROVE HearsAll(hist', clock', c, e)
    BY DEF HearsAll
  <2>1. /\ c.status = SocketOnline /\ c.latestConnectRequestId = NoRequest
        /\ Attended(d)
        /\ Story(hist, clock, c, k, c.incomingDiffBuffer \o SessionData(d),
                 Listening(d))
    BY <1>1 DEF HearsAll
  <2>2. c.incomingDiffBuffer \in Seq(DataMessage)
    BY DEF Client
  <2> HIDE DEF k
  <2>3. Story(hist', clock', c, k, c.incomingDiffBuffer \o SessionData(e),
              Listening(e))
    BY <1>2, <1>9, <2>1, <2>2
  <2> QED BY <1>8, <2>1, <2>3 DEF HearsAll, k
<1>11. Awaits(hist', clock', c, e)
  <2> SUFFICES ASSUME c.status = SocketOnline, ~c.isConnectedToRoom
               PROVE  Awaits(hist', clock', c, e)
    BY DEF Awaits
  <2>1. /\ Waits(c)
        /\ \A i \in 1..Len(d.wire) : Accepts(c, d.wire[i]) =>
             Welcome(hist, clock, c, d.wire[i], Behind(d, i))
    BY <1>1 DEF Awaits
  <2>2. ASSUME NEW i \in 1..Len(e.wire), Accepts(c, e.wire[i])
        PROVE  Welcome(hist', clock', c, e.wire[i], Behind(e, i))
    <3> DEFINE m == e.wire[i]
               x == Behind(d, i)
               y == Behind(e, i)
               none == <<>>
    <3>1. i \in 1..Len(d.wire) /\ m = d.wire[i] /\ Hears(x, y, msgs)
      BY <1>6, <2>2 DEF Accepts
    <3>2. Welcome(hist, clock, c, m, x)
      BY <2>1, <2>2, <3>1
    <3>3. i \in 0..Len(d.wire) /\ i \in 0..Len(e.wire)
      BY <3>1
    <3>4. /\ x \in Session /\ y \in Session
          /\ Listening(x) => Listening(d)
          /\ Attended(x) => Attended(d)
          /\ Attended(e) => Attended(y)
      BY <3>3, BehindIs
    <3> HIDE DEF m, x, y
    <3>5. /\ c.out = <<>> /\ Attended(x)
          /\ m.serverClock \in 0..clock
          /\ Hydrates(hist, k, m)
          /\ Story(hist, clock, c, m.serverClock, SessionData(x), Listening(x))
      BY <3>2 DEF Welcome
    <3>6. none \in Seq(DataMessage) /\ none \o SessionData(x) = SessionData(x)
          /\ none \o SessionData(y) = SessionData(y)
      <4>1. none \in Seq(DataMessage)
        OBVIOUS
      <4>2. SessionData(x) \in Seq(DataMessage) /\ SessionData(y) \in Seq(DataMessage)
        BY <3>4, SessionDataType
      <4> QED BY <4>1, <4>2, ConcatEmpty
    <3> HIDE DEF none
    <3>7. Story(hist, clock, c, m.serverClock, none \o SessionData(x), Listening(x))
      BY <3>5, <3>6
    <3>8. Story(hist', clock', c, m.serverClock, none \o SessionData(y), Listening(y))
      BY <1>9, <3>1, <3>4, <3>5, <3>6, <3>7
    <3>9. Hydrates(hist', k, m) /\ m.serverClock \in 0..clock'
      <4> HIDE DEF k
      <4> QED BY <1>2, <1>3, <3>5 DEF Hydrates
    <3>10. Attended(y)
      BY <1>8, <3>4, <3>5
    <3>11. Welcome(hist', clock', c, m, y)
      BY <3>5, <3>6, <3>8, <3>9, <3>10 DEF Welcome
    <3> QED BY <3>11 DEF m, y
  <2> QED BY <2>1, <2>2 DEF Awaits
<1> QED BY <1>1, <1>4, <1>7, <1>10, <1>11 DEF Follows

\* A message that arrives is no longer sent.
LEMMA FollowingSent ==
    ASSUME NEW h, NEW t, NEW c \in Client, c.out # <<>>, NEW d \in Session, NEW l,
           Following(h, t, c, d, l)
    PROVE  Following(h, t, [c EXCEPT !.out = Tail(@)], d, l)
<1> DEFINE e == [c EXCEPT !.out = Tail(c.out)]
           n == IF c.isConnectedToRoom THEN 0 ELSE c.requests
<1>1. c.out \in Seq(ClientMessage) /\ c.requests \in Nat
  BY DEF Client
<1>2. Tail(c.out) \in Seq(ClientMessage)
  BY <1>1
<1>3. /\ e \in Client /\ e.out = Tail(c.out)
      /\ e.status = c.status /\ e.isConnectedToRoom = c.isConnectedToRoom
      /\ e.incomingDiffBuffer = c.incomingDiffBuffer
      /\ e.lastServerClock = c.lastServerClock
      /\ e.latestConnectRequestId = c.latestConnectRequestId
      /\ e.requests = c.requests /\ e.loaded = c.loaded /\ e.astray = c.astray
      /\ e.clientClock = c.clientClock
      /\ e.pendingPushRequests = c.pendingPushRequests
      /\ e.history = c.history /\ e.store = c.store
      /\ e.speculativeChanges = c.speculativeChanges
  BY <1>2 DEF Client
<1> HIDE DEF e
<1>4. PendingPushes(e) = PendingPushes(c) /\ (Numbered(e) <=> Numbered(c))
  BY <1>3 DEF PendingPushes, Numbered
<1>5. \A m \in Nat : Sendable(e, m) = Sendable(c, m)
  BY <1>3, <1>4 DEF Sendable
<1>6. \A base : Ahead(c, base) => Ahead(e, base)
  BY <1>3 DEF Ahead, Shown, WithPending
<1>7. \A x, events, on : Story(h, t, c, x, events, on) => Story(h, t, e, x, events, on)
  BY <1>3, <1>4 DEF Story, Tells, Telling
<1> SUFFICES ASSUME Follows(h, t, c, d, l) PROVE Follows(h, t, e, d, l)
  BY <1>3 DEF Following, e
<1>8. /\ Copied(h, t, c) /\ Written(c, l) /\ Requested(d)
      /\ HearsAll(h, t, c, d) /\ Awaits(h, t, c, d)
  BY DEF Follows
<1>9. Copied(h, t, e)
  BY <1>3, <1>4, <1>6, <1>8 DEF Copied
<1>10. Written(e, l)
  <2>1. n \in Nat /\ Earlier(c) \in Nat /\ Earlier(e) = Earlier(c)
    BY <1>1, <1>3 DEF Earlier
  <2>2. c.out \in Seq(Sendable(c, n)) /\ l \in Seq(Sendable(c, Earlier(c)))
    BY <1>8 DEF Written
  <2>3. n = IF e.isConnectedToRoom THEN 0 ELSE e.requests
    BY <1>3
  <2> HIDE DEF n
  <2>4. Tail(c.out) \in Seq(Sendable(c, n))
    BY <2>2
  <2>5. /\ e.out \in Seq(Sendable(e, n)) /\ l \in Seq(Sendable(e, Earlier(e)))
    BY <1>3, <1>5, <2>1, <2>2, <2>4
  <2> QED BY <1>3, <1>8, <2>3, <2>5 DEF Written
<1>11. HearsAll(h, t, e, d)
  BY <1>3, <1>7, <1>8 DEF HearsAll
<1>12. Awaits(h, t, e, d)
  <2> SUFFICES ASSUME e.status = SocketOnline, ~e.isConnectedToRoom
               PROVE  Awaits(h, t, e, d)
    BY DEF Awaits
  <2>1. /\ Waits(c)
        /\ \A i \in 1..Len(d.wire) : Accepts(c, d.wire[i]) =>
             Welcome(h, t, c, d.wire[i], Behind(d, i))
    BY <1>3, <1>8 DEF Awaits
  <2>2. e.out = <<>>
    <3>1. Len(c.out) = 1
      BY <2>1, Zenon DEF Waits
    <3>2. Len(c.out) <= 1
      BY <3>1
    <3> QED BY <1>1, <1>3, <3>2, TailOfOne
  <2>3. Waits(e)
    BY <1>3, <2>1, <2>2 DEF Waits
  <2>4. ASSUME NEW i \in 1..Len(d.wire), Accepts(e, d.wire[i])
        PROVE  Welcome(h, t, e, d.wire[i], Behind(d, i))
    <3>1. Welcome(h, t, c, d.wire[i], Behind(d, i))
      BY <1>3, <2>1, <2>4 DEF Accepts
    <3> QED BY <1>3, <1>7, <2>2, <3>1 DEF Welcome
  <2> QED BY <2>3, <2>4 DEF Awaits
<1> QED BY <1>8, <1>9, <1>10, <1>11, <1>12 DEF Follows

-----------------------------------------------------------------------------
(***************************************************************************)
(* The room answers a connect request of a client that follows it.         *)
(***************************************************************************)
\* No deletion has been pruned from the room's memory.
NothingForgotten == \A id \in Ids : forgotten[id] = 0

\* The session that gets the answer m is left without what waited for its
\* debounce timer.
Accepted(d, e, m) ==
    \/ ~d.open /\ ~e.open /\ e.wire = d.wire
    \/ /\ d.open /\ e.open /\ e.state = Connected /\ e.outstanding = <<>>
       /\ e.wire = Append(d.wire, m)

\* What the session of an accepted client is.
LEMMA JoinedIsAccepted ==
    ASSUME NEW d, NEW x \in Session, x.wire = d.wire, x.open = d.open,
           x.outstanding = <<>>, x.state = Connected, NEW m, m.type = "connect"
    PROVE  Accepted(d, SendMessage(x, m), m)
<1>1. CASE ~x.open
  <2> DEFINE y == [x EXCEPT !.state = AwaitingRemoval,
                            !.debouncing = FALSE, !.outstanding = <<>>,
                            !.view = NoView, !.stale = {}]
  <2>1. y.open = x.open /\ y.wire = x.wire
    BY Zenon DEF Session
  <2>2. SendMessage(x, m) = CloseSocket(y, FALSE)
    BY <1>1 DEF SendMessage, CancelSession, Connected, AwaitingRemoval
  <2> HIDE DEF y
  <2>3. SendMessage(x, m) = y
    BY <1>1, <2>1, <2>2 DEF CloseSocket
  <2> QED BY <1>1, <2>1, <2>3 DEF Accepted
<1>2. CASE x.open
  <2> DEFINE wire == Append(x.wire, m)
             y == [x EXCEPT !.debouncing = FALSE]
             z == [y EXCEPT !.wire = wire]
  <2>1. /\ y.open = x.open /\ y.wire = x.wire
        /\ z.wire = wire /\ z.open = x.open /\ z.state = x.state
        /\ z.outstanding = x.outstanding
    BY Zenon DEF Session
  <2>2. SendMessage(x, m) = SendOnSocket(y, m)
    BY <1>2 DEF SendMessage, FlushDataMessages
  <2> HIDE DEF y
  <2>3. SendOnSocket(y, m) = z
    BY <1>2, <2>1 DEF SendOnSocket
  <2> HIDE DEF z
  <2> QED BY <1>2, <2>1, <2>2, <2>3 DEF Accepted
<1>3. x.open \in BOOLEAN
  BY DEF Session
<1> QED BY <1>1, <1>2, <1>3

\* handleConnectRequest, of a client of the room's own version: the answer
\* hydrates it.
LEMMA ConnectRequestAccepted ==
    ASSUME RecordsInv, NEW s \in SessionIds, NEW k \in Nat, NEW reqId \in Nat,
           HandleConnectRequest(s, k, TLSYNC_PROTOCOL_VERSION, TRUE, reqId)
    PROVE  /\ \A t \in SessionIds \ {s} : sessions'[t] = sessions[t]
           /\ \E m \in ServerMessage :
                /\ m.type = "connect" /\ m.connectRequestId = reqId
                /\ m.serverClock = clock
                /\ NothingForgotten => Hydrates(hist, k, m)
                /\ Accepted(sessions[s], sessions'[s], m)
<1> DEFINE c == [sessions[s] EXCEPT
                   !.requiresLegacyRejection = TLSYNC_PROTOCOL_VERSION \in {5, 6}]
           diff == Hydration(c, k)
           view == ApplyNetworkDiff(BaseView(k), diff)
           joined == [c EXCEPT
                        !.state = Connected,
                        !.debouncing = FALSE, !.outstanding = <<>>,
                        !.view = view, !.stale = ForgottenSince(k)]
           kind == IF WipesAll(k) THEN "wipe_all" ELSE "wipe_presence"
           msg == [type |-> "connect", hydrationType |-> kind,
                   diff |-> diff, serverClock |-> clock,
                   connectRequestId |-> reqId, isReadonly |-> c.isReadonly]
<1>0. TypeOK /\ clock \in Nat
  BY DEF RecordsInv, TypeOK
<1>1. sessions[s] \in Session
  BY <1>0 DEF TypeOK
<1>2. /\ c \in Session /\ c.wire = sessions[s].wire /\ c.open = sessions[s].open
      /\ c.presenceId \in PresenceIds \cup {NoPresence}
  <2>1. (TLSYNC_PROTOCOL_VERSION \in {5, 6}) \in BOOLEAN
    OBVIOUS
  <2> QED BY <1>1, <2>1, Zenon DEF Session
<1>3. diff \in NetworkDiff
  BY <1>0, HydrationType
<1>4. sessions' = [sessions EXCEPT ![s] = SendMessage(joined, msg)]
  <2>1. EffectiveVersion(TLSYNC_PROTOCOL_VERSION) = TLSYNC_PROTOCOL_VERSION
    BY DEF EffectiveVersion, TLSYNC_PROTOCOL_VERSION
  <2> QED BY <2>1 DEF HandleConnectRequest
<1>5. ASSUME NothingForgotten PROVE Hydrates(hist, k, msg)
  <2>1. ForgottenSince(k) = {}
    BY <1>5 DEF ForgottenSince, NothingForgotten
  <2>2. \A id \in Ids : ApplyNetworkDiff(BaseView(k), diff)[id] = documents[id].state
    BY <1>2, <2>1, HydrationBringsUpToDate
  <2>3. /\ hist[clock] \in Docs
        /\ \A id \in Ids : hist[clock][id] = documents[id].state
    BY LatestIsDocuments
  <2> HIDE DEF diff, c
  <2>4. ASSUME NEW base \in Docs, \A id \in Ids : BaseView(k)[id] = base[id]
        PROVE  hist[clock] = ApplyNetworkDiff(base, diff)
    <3> DEFINE there == ApplyNetworkDiff(base, diff)
    <3>1. \A id \in Ids : there[id] = ApplyNetworkDiff(BaseView(k), diff)[id]
      <4>1. DOMAIN base = Ids /\ DOMAIN BaseView(k) = RecordIds
        BY DEF Docs, BaseView
      <4> QED BY <2>4, <4>1 DEF ApplyNetworkDiff, RecordIds
    <3>2. DOMAIN there = Ids /\ there = [id \in Ids |-> there[id]]
      BY DEF ApplyNetworkDiff, Docs
    <3> HIDE DEF there
    <3>3. \A id \in Ids : there[id] = hist[clock][id]
      BY <2>2, <2>3, <3>1
    <3>4. there = hist[clock]
      BY <2>3, <3>2, <3>3 DEF Docs
    <3> QED BY <3>4 DEF there
  <2>5. CASE WipesAll(k)
    <3>1. NoDocs \in Docs
      BY DEF NoDocs, Docs, MaybeRecord
    <3>2. \A id \in Ids : BaseView(k)[id] = NoDocs[id]
      BY <2>5 DEF BaseView, NoDocs, RecordIds
    <3>3. hist[clock] = ApplyNetworkDiff(NoDocs, diff)
      BY <2>4, <3>1, <3>2
    <3> QED BY <2>5, <3>3 DEF Hydrates
  <2>6. CASE ~WipesAll(k)
    <3>1. k \in 0..clock /\ k > 0
      BY <1>0, <2>6 DEF WipesAll, TombstoneHistoryStartsAtClock
    <3>2. hist[k] \in Docs
      BY <1>0, <3>1 DEF TypeOK, Docs
    <3>3. \A id \in Ids : BaseView(k)[id] = hist[k][id]
      BY <2>6 DEF BaseView, RecordIds
    <3>4. hist[clock] = ApplyNetworkDiff(hist[k], diff)
      BY <2>4, <3>2, <3>3
    <3> QED BY <2>6, <3>1, <3>4 DEF Hydrates
  <2> QED BY <2>5, <2>6
<1> HIDE DEF c, diff
<1>6. /\ joined \in Session /\ joined.wire = sessions[s].wire
      /\ joined.open = sessions[s].open /\ joined.state = Connected
      /\ joined.outstanding = <<>>
  <2>1. view \in [RecordIds -> MaybeRecord]
    BY <1>0, <1>3, BaseViewType, ApplyNetworkDiffType
  <2>2. ForgottenSince(k) \in SUBSET Ids
    BY DEF ForgottenSince
  <2>3. <<>> \in Seq(DataMessage)
    OBVIOUS
  <2> HIDE DEF view
  <2> QED BY <1>2, <2>1, <2>2, <2>3, Zenon DEF Session
<1>7. /\ msg \in ServerMessage /\ msg.type = "connect"
      /\ msg.connectRequestId = reqId /\ msg.serverClock = clock
  <2>1. c.isReadonly \in BOOLEAN
    BY <1>2 DEF Session
  <2>2. kind \in {"wipe_all", "wipe_presence"}
    OBVIOUS
  <2> HIDE DEF kind
  <2> QED BY <1>0, <1>3, <2>1, <2>2 DEF ServerMessage
<1> HIDE DEF joined, msg
<1>8. /\ sessions'[s] = SendMessage(joined, msg)
      /\ \A t \in SessionIds \ {s} : sessions'[t] = sessions[t]
  BY <1>0, <1>4 DEF TypeOK
<1>9. Accepted(sessions[s], sessions'[s], msg)
  BY <1>6, <1>7, <1>8, JoinedIsAccepted
<1> QED BY <1>5, <1>7, <1>8, <1>9

\* A session that gets the answer has, of data messages, what it had, when
\* nothing waited for its debounce timer.
LEMMA AcceptedSame ==
    ASSUME NEW d \in Session, NEW e \in Session, NEW m \in ServerMessage,
           m.type = "connect", Accepted(d, e, m), d.open => d.outstanding = <<>>
    PROVE  /\ SessionData(e) = SessionData(d)
           /\ Attended(d) => Attended(e) /\ (Listening(e) <=> Listening(d))
<1>1. d.wire \in Seq(ServerMessage)
  BY OrderlyQueues
<1>2. WireData(Append(d.wire, m)) = WireData(d.wire)
  <2>1. WireData(d.wire) \in Seq(DataMessage)
    BY <1>1, WireDataType
  <2>2. DataOf(m) = <<>>
    BY DEF DataOf
  <2> QED BY <1>1, <2>1, <2>2, WireDataAppend, ConcatEmpty
<1>3. WireData(e.wire) = WireData(d.wire) /\ e.open = d.open
  BY <1>2 DEF Accepted, Session
<1>4. SessionData(d) = WireData(d.wire) /\ SessionData(e) = WireData(e.wire)
  BY SessionDataIs DEF Accepted
<1>5. Attended(d) => Attended(e) /\ (Listening(e) <=> Listening(d))
  BY <1>3 DEF Accepted, Attended, Listening
<1> QED BY <1>3, <1>4, <1>5

\* The rest of a longer sequence.
LEMMA RestOfMore ==
    ASSUME NEW T, NEW w \in Seq(T), NEW m \in T, NEW i \in 0..Len(w)
    PROVE  LET v == Append(w, m)
           IN  /\ Len(v) = Len(w) + 1 /\ v[Len(v)] = m
               /\ \A j \in 1..Len(w) : v[j] = w[j]
               /\ SubSeq(v, i + 1, Len(v)) = Append(SubSeq(w, i + 1, Len(w)), m)
               /\ SubSeq(v, Len(v) + 1, Len(v)) = <<>>
<1> DEFINE v == Append(w, m)
           a == SubSeq(v, i + 1, Len(v))
           b == SubSeq(w, i + 1, Len(w))
           c == Append(b, m)
<1>1. Len(w) \in Nat /\ i \in Nat /\ i <= Len(w)
  OBVIOUS
<1>2. /\ v \in Seq(T) /\ Len(v) = Len(w) + 1 /\ v[Len(w) + 1] = m
      /\ \A j \in 1..Len(w) : v[j] = w[j]
  OBVIOUS
<1>3. /\ i \in 0..Len(v)
      /\ \A j \in 1..Len(w) : j \in 1..Len(v)
  BY <1>1, <1>2
<1>4. /\ b \in Seq(T) /\ Len(b) = Len(w) - i
      /\ \A j \in 1..Len(w) - i : b[j] = w[i + j]
  BY SplitAt
<1> HIDE DEF v
<1>5. /\ a \in Seq(T) /\ Len(a) = Len(v) - i
      /\ \A j \in 1..Len(v) - i : a[j] = v[i + j]
  BY <1>2, <1>3, SplitAt
<1> HIDE DEF a, b
<1>6. /\ c \in Seq(T) /\ Len(c) = Len(b) + 1 /\ c[Len(b) + 1] = m
      /\ \A j \in 1..Len(b) : c[j] = b[j]
  BY <1>4
<1> HIDE DEF c
<1>7. Len(a) = Len(c) /\ Len(c) = (Len(w) - i) + 1
  BY <1>1, <1>2, <1>4, <1>5, <1>6
<1>8. ASSUME NEW j \in 1..Len(a) PROVE a[j] = c[j]
  <2>1. j \in 1..(Len(w) - i) + 1 /\ a[j] = v[i + j]
    BY <1>1, <1>2, <1>5
  <2>2. CASE j \in 1..Len(w) - i
    <3>1. i + j \in 1..Len(w)
      BY <1>1, <2>2
    <3>2. c[j] = b[j] /\ b[j] = w[i + j]
      BY <1>4, <1>6, <2>2
    <3>3. v[i + j] = w[i + j]
      BY <1>2, <3>1
    <3> QED BY <2>1, <3>2, <3>3, Zenon
  <2>3. CASE j = (Len(w) - i) + 1
    <3>1. i + j = Len(w) + 1 /\ j = Len(b) + 1
      BY <1>1, <1>4, <2>3
    <3> QED BY <1>2, <1>6, <2>1, <3>1, Zenon
  <2>4. j \in 1..Len(w) - i \/ j = (Len(w) - i) + 1
    BY <1>1, <2>1
  <2> QED BY <2>2, <2>3, <2>4, Zenon
<1>9. a = c
  BY <1>5, <1>6, <1>7, <1>8, SeqEqual
<1>10. SubSeq(v, Len(v) + 1, Len(v)) = <<>>
  <2>1. Len(v) \in 0..Len(v) /\ Len(v) \in Nat
    BY <1>1, <1>2
  <2>2. /\ SubSeq(v, Len(v) + 1, Len(v)) \in Seq(T)
        /\ Len(SubSeq(v, Len(v) + 1, Len(v))) = Len(v) - Len(v)
    BY <1>2, <2>1, SplitAt
  <2> DEFINE none == SubSeq(v, Len(v) + 1, Len(v))
  <2>3. none \in Seq(T) /\ Len(none) = 0
    BY <2>1, <2>2
  <2> HIDE DEF none
  <2>4. none = <<>>
    BY <2>3
  <2> QED BY <2>4 DEF none
<1>11. v[Len(v)] = m
  BY <1>2
<1> QED BY <1>2, <1>9, <1>10, <1>11 DEF v, a, b, c

\* What is behind a message on the socket of an accepted session.
LEMMA AcceptedBehind ==
    ASSUME NEW d \in Session, NEW e \in Session, NEW m \in ServerMessage,
           Accepted(d, e, m)
    PROVE  /\ ~d.open => e.wire = d.wire
           /\ d.open => Len(e.wire) = Len(d.wire) + 1 /\ e.wire[Len(e.wire)] = m
           /\ \A i \in 1..Len(d.wire) :
                /\ i \in 1..Len(e.wire) /\ e.wire[i] = d.wire[i]
                /\ Accepted(Behind(d, i), Behind(e, i), m)
           /\ d.open =>
                /\ SessionData(Behind(e, Len(e.wire))) = <<>>
                /\ Attended(Behind(e, Len(e.wire)))
<1>1. d.wire \in Seq(ServerMessage) /\ e.wire \in Seq(ServerMessage)
  BY OrderlyQueues
<1>2. d.open \in BOOLEAN
  BY DEF Session
<1>3. CASE ~d.open
  <2>1. ~e.open /\ e.wire = d.wire
    BY <1>3 DEF Accepted
  <2>2. ASSUME NEW i \in 1..Len(d.wire)
        PROVE  Accepted(Behind(d, i), Behind(e, i), m)
    <3>1. i \in 0..Len(d.wire) /\ i \in 0..Len(e.wire)
      BY <2>1
    <3> QED BY <1>3, <2>1, <3>1, BehindIs DEF Accepted
  <2> QED BY <1>3, <2>1, <2>2
<1>4. CASE d.open
  <2> DEFINE v == d.wire
             w == e.wire
  <2>1. e.open /\ e.state = Connected /\ e.outstanding = <<>> /\ w = Append(v, m)
    BY <1>4 DEF Accepted
  <2> HIDE DEF v, w
  <2>2. v \in Seq(ServerMessage) /\ w \in Seq(ServerMessage) /\ Len(v) \in Nat
    BY <1>1 DEF v, w
  <2>3. 0 \in 0..Len(v)
    BY <2>2
  <2>4. /\ Len(w) = Len(v) + 1 /\ w[Len(w)] = m
        /\ \A j \in 1..Len(v) : w[j] = v[j]
        /\ SubSeq(w, Len(w) + 1, Len(w)) = <<>>
    BY <2>1, <2>2, <2>3, RestOfMore
  <2>5. ASSUME NEW i \in 1..Len(v)
        PROVE  i \in 1..Len(w) /\ Accepted(Behind(d, i), Behind(e, i), m)
    <3>1. i \in 0..Len(v) /\ i \in 0..Len(w) /\ i \in 1..Len(w)
      BY <2>2, <2>4
    <3>2. SubSeq(w, i + 1, Len(w)) = Append(SubSeq(v, i + 1, Len(v)), m)
      <4>1. w = Append(v, m)
        BY <2>1
      <4>2. SubSeq(Append(v, m), i + 1, Len(Append(v, m)))
              = Append(SubSeq(v, i + 1, Len(v)), m)
        BY <2>2, <3>1, RestOfMore, Zenon
      <4> QED BY <4>1, <4>2, Zenon
    <3>3. /\ Behind(d, i).wire = SubSeq(v, i + 1, Len(v))
          /\ Behind(d, i).open = d.open
      BY <3>1, BehindIs DEF v
    <3>4. /\ Behind(e, i).wire = SubSeq(w, i + 1, Len(w))
          /\ Behind(e, i).open = e.open /\ Behind(e, i).state = e.state
          /\ Behind(e, i).outstanding = e.outstanding
      BY <3>1, BehindIs DEF w
    <3> DEFINE x == Behind(d, i)
               y == Behind(e, i)
    <3>5. /\ x.open /\ y.open /\ y.state = Connected
          /\ y.outstanding = <<>> /\ y.wire = Append(x.wire, m)
      BY <1>4, <2>1, <3>2, <3>3, <3>4, Zenon
    <3> HIDE DEF x, y
    <3>6. Accepted(x, y, m)
      BY <3>5, Zenon DEF Accepted
    <3> QED BY <3>1, <3>6, <2>4, Zenon DEF x, y
  <2>6. /\ SessionData(Behind(e, Len(w))) = <<>>
        /\ Attended(Behind(e, Len(w)))
    <3>1. Len(w) \in 0..Len(w)
      BY <2>2, <2>4
    <3> DEFINE y == Behind(e, Len(w))
    <3>2. /\ y \in Session /\ y.wire = <<>> /\ y.outstanding = <<>>
          /\ y.open = e.open /\ y.state = Connected
      BY <2>1, <2>4, <3>1, BehindIs DEF w
    <3> HIDE DEF y
    <3>3. SessionData(y) = WireData(<<>>)
      BY <3>2, SessionDataIs
    <3> QED BY <3>2, <3>3, WireDataEmpty DEF Attended, y
  <2> QED BY <1>4, <2>4, <2>5, <2>6 DEF v, w
<1> QED BY <1>2, <1>3, <1>4

\* A client that follows the room goes on following when the room answers a
\* connect request of its tab: nothing is discarded that it needs, and if the
\* answer is for the client, the client can be hydrated with it.
LEMMA FollowingAccepted ==
    ASSUME NEW h, NEW t, NEW c \in Client, NEW d \in Session, NEW e \in Session,
           NEW l, NEW m \in ServerMessage,
           m.type = "connect", m.connectRequestId # NoRequest, Accepted(d, e, m),
           Following(h, t, c, d, l),
           \/ c.astray
           \/ d.outstanding = <<>>
           \/ /\ ~c.isConnectedToRoom
              /\ c.status = SocketOnline =>
                   \A i \in 1..Len(d.wire) : ~Accepts(c, d.wire[i]),
           c.status = SocketOnline /\ ~c.isConnectedToRoom /\ Accepts(c, m) =>
             \/ c.astray
             \/ /\ c.out = <<>> /\ m.serverClock \in 0..t
                /\ Hydrates(h, c.lastServerClock, m) /\ h[m.serverClock] = h[t]
    PROVE  Following(h, t, c, e, l)
<1> SUFFICES ASSUME ~c.astray PROVE Follows(h, t, c, e, l)
  BY DEF Following
<1>1. /\ Copied(h, t, c) /\ Written(c, l) /\ Requested(d)
      /\ HearsAll(h, t, c, d) /\ Awaits(h, t, c, d)
  BY DEF Following, Follows
<1>2. d.wire \in Seq(ServerMessage) /\ e.wire \in Seq(ServerMessage)
  BY OrderlyQueues
<1>3. d.open \in BOOLEAN /\ Len(d.wire) \in Nat /\ Len(e.wire) \in Nat
  BY <1>2 DEF Session
<1>4. ASSUME NEW i \in 1..Len(e.wire)
      PROVE  \/ i \in 1..Len(d.wire) /\ e.wire[i] = d.wire[i]
             \/ d.open /\ i = Len(e.wire) /\ e.wire[i] = m
  <2>1. CASE ~d.open
    <3>1. i \in 1..Len(d.wire)
      BY <2>1, AcceptedBehind
    <3>2. e.wire[i] = d.wire[i]
      BY <3>1, AcceptedBehind
    <3> QED BY <3>1, <3>2
  <2>2. CASE d.open
    <3>1. Len(e.wire) = Len(d.wire) + 1 /\ e.wire[Len(e.wire)] = m
      BY <2>2, AcceptedBehind
    <3>2. i \in 1..Len(d.wire) \/ i = Len(e.wire)
      BY <1>3, <3>1
    <3>3. i \in 1..Len(d.wire) => e.wire[i] = d.wire[i]
      BY AcceptedBehind
    <3> QED BY <2>2, <3>1, <3>2, <3>3, Zenon
  <2> QED BY <1>3, <2>1, <2>2
<1>5. Requested(e)
  BY <1>1, <1>4 DEF Requested
<1>6. HearsAll(h, t, c, e)
  <2> SUFFICES ASSUME c.isConnectedToRoom PROVE HearsAll(h, t, c, e)
    BY DEF HearsAll
  <2>1. d.outstanding = <<>>
    OBVIOUS
  <2>2. SessionData(e) = SessionData(d)
    BY <2>1, AcceptedSame
  <2>3. Attended(d) => Attended(e) /\ (Listening(e) <=> Listening(d))
    BY <2>1, AcceptedSame
  <2> QED BY <1>1, <2>2, <2>3 DEF HearsAll, Story
<1>7. Awaits(h, t, c, e)
  <2> SUFFICES ASSUME c.status = SocketOnline, ~c.isConnectedToRoom
               PROVE  /\ Waits(c)
                      /\ \A i \in 1..Len(e.wire) : Accepts(c, e.wire[i]) =>
                           Welcome(h, t, c, e.wire[i], Behind(e, i))
    BY DEF Awaits
  <2>1. Waits(c) /\ \A i \in 1..Len(d.wire) : Accepts(c, d.wire[i]) =>
                      Welcome(h, t, c, d.wire[i], Behind(d, i))
    BY <1>1 DEF Awaits
  <2>2. ASSUME NEW i \in 1..Len(e.wire), Accepts(c, e.wire[i])
        PROVE  Welcome(h, t, c, e.wire[i], Behind(e, i))
    <3>1. ASSUME i \in 1..Len(d.wire), e.wire[i] = d.wire[i]
          PROVE  Welcome(h, t, c, e.wire[i], Behind(e, i))
      <4> DEFINE x == Behind(d, i)
                 y == Behind(e, i)
      <4>1. Welcome(h, t, c, d.wire[i], x)
        BY <2>1, <2>2, <3>1
      <4>2. d.outstanding = <<>>
        BY <2>2, <3>1
      <4>3. i \in 0..Len(d.wire) /\ i \in 0..Len(e.wire)
        BY <1>3, <3>1
      <4>4. x \in Session /\ y \in Session /\ x.outstanding = <<>>
        BY <4>2, <4>3, BehindIs
      <4>5. Accepted(x, y, m)
        BY <3>1, AcceptedBehind
      <4> HIDE DEF x, y
      <4>6. SessionData(y) = SessionData(x)
        BY <4>4, <4>5, AcceptedSame
      <4>7. Attended(x) => Attended(y) /\ (Listening(y) <=> Listening(x))
        BY <4>4, <4>5, AcceptedSame
      <4>8. Welcome(h, t, c, d.wire[i], y)
        BY <4>1, <4>6, <4>7 DEF Welcome, Story
      <4> QED BY <3>1, <4>8 DEF y
    <3>2. ASSUME d.open, i = Len(e.wire), e.wire[i] = m
          PROVE  Welcome(h, t, c, e.wire[i], Behind(e, i))
      <4> DEFINE y == Behind(e, i)
      <4>1. /\ c.out = <<>> /\ m.serverClock \in 0..t
            /\ Hydrates(h, c.lastServerClock, m) /\ h[m.serverClock] = h[t]
        BY <2>2, <3>2
      <4>2. SessionData(y) = <<>> /\ Attended(y)
        BY <3>2, AcceptedBehind
      <4> HIDE DEF y
      <4>3. /\ Tells(h, t, c, m.serverClock, <<>>)
            /\ EndOf(m.serverClock, <<>>) = m.serverClock
        BY TellsNothing
      <4>4. Story(h, t, c, m.serverClock, SessionData(y), Listening(y))
        BY <4>1, <4>2, <4>3 DEF Story
      <4>5. Welcome(h, t, c, m, y)
        BY <4>1, <4>2, <4>4 DEF Welcome
      <4> QED BY <3>2, <4>5 DEF y
    <3> QED BY <1>4, <3>1, <3>2
  <2> QED BY <2>1, <2>2
<1> QED BY <1>1, <1>5, <1>6, <1>7 DEF Follows

-----------------------------------------------------------------------------
(***************************************************************************)
(* What a client makes of a message of the room.                           *)
(***************************************************************************)
\* What is behind a message is where it was when the first one has gone.
LEMMA RestOfTail ==
    ASSUME NEW T, NEW w \in Seq(T), w # <<>>
    PROVE  /\ Tail(w) \in Seq(T) /\ Len(Tail(w)) = Len(w) - 1
           /\ SubSeq(w, 2, Len(w)) = Tail(w)
           /\ \A i \in 1..Len(w) - 1 :
                /\ Tail(w)[i] = w[i + 1]
                /\ SubSeq(Tail(w), i + 1, Len(Tail(w)))
                     = SubSeq(w, (i + 1) + 1, Len(w))
<1> DEFINE v == Tail(w)
<1>1. /\ v \in Seq(T) /\ Len(v) = Len(w) - 1 /\ Len(w) \in Nat /\ Len(w) >= 1
      /\ \A i \in 1..Len(w) - 1 : v[i] = w[i + 1]
  OBVIOUS
<1> HIDE DEF v
<1>2. SubSeq(w, 2, Len(w)) = v
  <2> DEFINE a == SubSeq(w, 1 + 1, Len(w))
  <2>1. 1 \in 0..Len(w)
    BY <1>1
  <2>2. /\ a \in Seq(T) /\ Len(a) = Len(w) - 1
        /\ \A j \in 1..Len(w) - 1 : a[j] = w[1 + j]
    BY <2>1, SplitAt
  <2> HIDE DEF a
  <2>3. ASSUME NEW j \in 1..Len(a) PROVE a[j] = v[j]
    <3>1. j \in 1..Len(w) - 1 /\ 1 + j = j + 1
      BY <2>2
    <3>2. a[j] = w[1 + j] /\ v[j] = w[j + 1]
      BY <1>1, <2>2, <3>1
    <3> QED BY <3>1, <3>2, Zenon
  <2>4. Len(a) = Len(v)
    BY <1>1, <2>2
  <2>5. a = v
    BY <1>1, <2>2, <2>3, <2>4, SeqEqual
  <2>6. 1 + 1 = 2
    OBVIOUS
  <2> QED BY <2>5, <2>6 DEF a
<1>3. ASSUME NEW i \in 1..Len(w) - 1
      PROVE  SubSeq(v, i + 1, Len(v)) = SubSeq(w, (i + 1) + 1, Len(w))
  <2> DEFINE a == SubSeq(v, i + 1, Len(v))
             b == SubSeq(w, (i + 1) + 1, Len(w))
  <2>1. i \in 0..Len(v) /\ i + 1 \in 0..Len(w)
    BY <1>1
  <2>2. /\ a \in Seq(T) /\ Len(a) = Len(v) - i
        /\ \A j \in 1..Len(v) - i : a[j] = v[i + j]
    BY <1>1, <2>1, SplitAt
  <2>3. /\ b \in Seq(T) /\ Len(b) = Len(w) - (i + 1)
        /\ \A j \in 1..Len(w) - (i + 1) : b[j] = w[(i + 1) + j]
    BY <2>1, SplitAt
  <2> HIDE DEF a, b
  <2>4. ASSUME NEW j \in 1..Len(a) PROVE a[j] = b[j]
    <3>1. /\ j \in 1..Len(v) - i /\ j \in 1..Len(w) - (i + 1)
          /\ i + j \in 1..Len(w) - 1 /\ (i + j) + 1 = (i + 1) + j
      BY <1>1, <2>2
    <3>2. a[j] = v[i + j]
      BY <2>2, <3>1
    <3>3. b[j] = w[(i + 1) + j]
      BY <2>3, <3>1
    <3>4. v[i + j] = w[(i + j) + 1]
      BY <1>1, <3>1
    <3> QED BY <3>1, <3>2, <3>3, <3>4, Zenon
  <2>5. Len(a) = Len(b)
    BY <1>1, <2>2, <2>3
  <2>6. a = b
    BY <2>2, <2>3, <2>4, <2>5, SeqEqual
  <2> QED BY <2>6 DEF a, b
<1> QED BY <1>1, <1>2, <1>3 DEF v

\* The session when its first message has arrived.
LEMMA FirstArrived ==
    ASSUME NEW d \in Session, d.wire # <<>>
    PROVE  LET e == [d EXCEPT !.wire = Tail(@)]
               msg == Head(d.wire)
           IN  /\ e \in Session /\ msg \in ServerMessage
               /\ SessionData(d) = DataOf(msg) \o SessionData(e)
               /\ Listening(e) <=> Listening(d)
               /\ Attended(e) <=> Attended(d)
               /\ 1 \in 1..Len(d.wire) /\ d.wire[1] = msg
               /\ SessionData(Behind(d, 1)) = SessionData(e)
               /\ Listening(Behind(d, 1)) <=> Listening(e)
               /\ Attended(Behind(d, 1)) <=> Attended(e)
               /\ \A i \in 1..Len(e.wire) :
                    /\ i + 1 \in 1..Len(d.wire) /\ e.wire[i] = d.wire[i + 1]
                    /\ SessionData(Behind(e, i)) = SessionData(Behind(d, i + 1))
                    /\ Listening(Behind(e, i)) <=> Listening(Behind(d, i + 1))
                    /\ Attended(Behind(e, i)) <=> Attended(Behind(d, i + 1))
<1> DEFINE w == d.wire
           v == Tail(w)
           e == [d EXCEPT !.wire = v]
           msg == Head(w)
<1>1. w \in Seq(ServerMessage) /\ w # <<>>
  BY OrderlyQueues
<1>2. /\ v \in Seq(ServerMessage) /\ Len(v) = Len(w) - 1
      /\ Len(w) \in Nat /\ Len(w) >= 1 /\ msg = w[1]
  <2> HIDE DEF w
  <2> QED BY <1>1
<1>3. /\ e \in Session /\ msg \in ServerMessage
      /\ SessionData(d) = DataOf(msg) \o SessionData(e)
      /\ Listening(e) <=> Listening(d)
  BY DeliverData
<1>4. e.wire = v /\ e.open = d.open /\ e.state = d.state
      /\ e.outstanding = d.outstanding
  <2> HIDE DEF v
  <2> QED BY <1>2, Zenon DEF Session
<1> HIDE DEF e, v, msg
<1>5. Attended(e) <=> Attended(d)
  BY <1>4 DEF Attended
<1>6. 1 \in 1..Len(w) /\ w[1] = msg /\ 1 \in 0..Len(w)
  BY <1>2
<1>7. /\ SessionData(Behind(d, 1)) = SessionData(e)
      /\ Listening(Behind(d, 1)) <=> Listening(e)
      /\ Attended(Behind(d, 1)) <=> Attended(e)
  <2> DEFINE x == Behind(d, 1)
  <2>1. /\ x.wire = SubSeq(w, 1 + 1, Len(w)) /\ x.open = d.open
        /\ x.outstanding = d.outstanding
        /\ Listening(x) <=> Listening(d)
        /\ Attended(x) <=> Attended(d)
    BY <1>6, BehindIs DEF w
  <2> HIDE DEF x, w
  <2>2. x.wire = v
    <3>1. 1 + 1 = 2 /\ SubSeq(w, 2, Len(w)) = v
      BY <1>1, RestOfTail DEF v
    <3> QED BY <2>1, <3>1
  <2>3. SessionData(x) = SessionData(e)
    BY <1>4, <2>1, <2>2 DEF SessionData
  <2> QED BY <1>3, <1>5, <2>1, <2>3 DEF x
<1>8. ASSUME NEW i \in 1..Len(e.wire)
      PROVE  /\ i + 1 \in 1..Len(w) /\ e.wire[i] = w[i + 1]
             /\ SessionData(Behind(e, i)) = SessionData(Behind(d, i + 1))
             /\ Listening(Behind(e, i)) <=> Listening(Behind(d, i + 1))
             /\ Attended(Behind(e, i)) <=> Attended(Behind(d, i + 1))
  <2> DEFINE x == Behind(d, i + 1)
             y == Behind(e, i)
  <2> HIDE DEF w
  <2>1. /\ i + 1 \in 1..Len(w) /\ i + 1 \in 0..Len(w) /\ i \in 1..Len(w) - 1
        /\ i \in 0..Len(e.wire)
    BY <1>2, <1>4
  <2>2. e.wire[i] = w[i + 1]
    BY <1>1, <1>4, <2>1, RestOfTail DEF v
  <2>3. /\ x.wire = SubSeq(w, (i + 1) + 1, Len(w)) /\ x.open = d.open
        /\ x.outstanding = d.outstanding
        /\ Listening(x) <=> Listening(d)
        /\ Attended(x) <=> Attended(d)
    BY <2>1, BehindIs DEF w
  <2>4. /\ y.wire = SubSeq(v, i + 1, Len(v)) /\ y.open = e.open
        /\ y.outstanding = e.outstanding
        /\ Listening(y) <=> Listening(e)
        /\ Attended(y) <=> Attended(e)
    BY <1>3, <1>4, <2>1, BehindIs
  <2> HIDE DEF x, y
  <2>5. y.wire = x.wire
    <3>1. SubSeq(v, i + 1, Len(v)) = SubSeq(w, (i + 1) + 1, Len(w))
      BY <1>1, <2>1, RestOfTail DEF v
    <3> QED BY <2>3, <2>4, <3>1
  <2>6. SessionData(y) = SessionData(x)
    BY <1>4, <2>3, <2>4, <2>5 DEF SessionData
  <2> QED BY <1>3, <1>5, <2>1, <2>2, <2>3, <2>4, <2>6 DEF x, y
<1> QED BY <1>3, <1>5, <1>6, <1>7, <1>8 DEF e, v, msg, w

\* A message that the client does not need is passed over.
LEMMA FollowingPasses ==
    ASSUME NEW h, NEW t, NEW c \in Client, NEW d \in Session, d.wire # <<>>,
           NEW l, Following(h, t, c, d, l),
           c.isConnectedToRoom => DataOf(Head(d.wire)) = <<>>
    PROVE  Following(h, t, c, [d EXCEPT !.wire = Tail(@)], l)
<1> DEFINE e == [d EXCEPT !.wire = Tail(d.wire)]
           msg == Head(d.wire)
<1> SUFFICES ASSUME Follows(h, t, c, d, l) PROVE Follows(h, t, c, e, l)
  BY DEF Following
<1>1. /\ Copied(h, t, c) /\ Written(c, l) /\ Requested(d)
      /\ HearsAll(h, t, c, d) /\ Awaits(h, t, c, d)
  BY DEF Follows
<1>2. /\ e \in Session /\ SessionData(d) = DataOf(msg) \o SessionData(e)
      /\ Listening(e) <=> Listening(d)
      /\ Attended(e) <=> Attended(d)
      /\ \A i \in 1..Len(e.wire) :
           /\ i + 1 \in 1..Len(d.wire) /\ e.wire[i] = d.wire[i + 1]
           /\ SessionData(Behind(e, i)) = SessionData(Behind(d, i + 1))
           /\ Listening(Behind(e, i)) <=> Listening(Behind(d, i + 1))
           /\ Attended(Behind(e, i)) <=> Attended(Behind(d, i + 1))
  BY FirstArrived
<1> HIDE DEF e, msg
<1>3. Requested(e)
  BY <1>1, <1>2 DEF Requested
<1>4. HearsAll(h, t, c, e)
  <2> SUFFICES ASSUME c.isConnectedToRoom PROVE HearsAll(h, t, c, e)
    BY DEF HearsAll
  <2>1. SessionData(e) \in Seq(DataMessage)
    BY <1>2, SessionDataType
  <2>2. SessionData(d) = SessionData(e)
    BY <1>2, <2>1, ConcatEmpty DEF msg
  <2> QED BY <1>1, <1>2, <2>2 DEF HearsAll, Story
<1>5. Awaits(h, t, c, e)
  <2> SUFFICES ASSUME c.status = SocketOnline, ~c.isConnectedToRoom
               PROVE  Awaits(h, t, c, e)
    BY DEF Awaits
  <2>1. /\ Waits(c)
        /\ \A i \in 1..Len(d.wire) : Accepts(c, d.wire[i]) =>
             Welcome(h, t, c, d.wire[i], Behind(d, i))
    BY <1>1 DEF Awaits
  <2>2. ASSUME NEW i \in 1..Len(e.wire), Accepts(c, e.wire[i])
        PROVE  Welcome(h, t, c, e.wire[i], Behind(e, i))
    <3>1. Welcome(h, t, c, e.wire[i], Behind(d, i + 1))
      BY <1>2, <2>1, <2>2
    <3> DEFINE x == Behind(d, i + 1)
               y == Behind(e, i)
    <3>2. /\ SessionData(y) = SessionData(x)
          /\ Listening(y) <=> Listening(x)
          /\ Attended(y) <=> Attended(x)
      BY <1>2
    <3> HIDE DEF x, y
    <3> QED BY <3>1, <3>2 DEF Welcome, Story, x, y
  <2> QED BY <2>1, <2>2 DEF Awaits
<1> QED BY <1>1, <1>3, <1>4, <1>5 DEF Follows, e

\* A client with the same records and requests.
LEMMA Alike ==
    ASSUME NEW c \in Client, NEW e \in Client, e.clientClock = c.clientClock,
           e.pendingPushRequests = c.pendingPushRequests,
           e.history = c.history, e.store = c.store,
           e.speculativeChanges = c.speculativeChanges,
           e.isConnectedToRoom = c.isConnectedToRoom
    PROVE  /\ Numbered(e) <=> Numbered(c)
           /\ \A n : Sendable(e, n) = Sendable(c, n)
           /\ \A base : Ahead(c, base) => Ahead(e, base)
           /\ \A h : \A t : \A k : \A events : \A on :
                Story(h, t, c, k, events, on) => Story(h, t, e, k, events, on)
<1>1. PendingPushes(e) = PendingPushes(c)
  BY Zenon DEF PendingPushes
<1>2. Numbered(e) <=> Numbered(c)
  BY <1>1 DEF Numbered
<1>3. \A n : Sendable(e, n) = Sendable(c, n)
  BY <1>1 DEF Sendable
<1>4. \A base : Ahead(c, base) => Ahead(e, base)
  BY DEF Ahead, Shown, WithPending
<1>5. \A h : \A t : \A k : \A events : \A on :
        Story(h, t, c, k, events, on) => Story(h, t, e, k, events, on)
  BY <1>1 DEF Story, Tells, Telling
<1> QED BY <1>2, <1>3, <1>4, <1>5

\* Data messages wait in the buffer of a client that is connected.
LEMMA FollowingData ==
    ASSUME NEW h, NEW t, NEW c \in Client, NEW d \in Session, NEW e \in Session,
           NEW data \in Seq(DataMessage), NEW l, c.isConnectedToRoom,
           Following(h, t, c, d, l),
           SessionData(d) = data \o SessionData(e),
           Listening(e) <=> Listening(d), Attended(e) <=> Attended(d),
           Requested(d) => Requested(e)
    PROVE  Following(h, t, [c EXCEPT !.incomingDiffBuffer = @ \o data], e, l)
<1> DEFINE buffer == c.incomingDiffBuffer
           more == buffer \o data
           b == [c EXCEPT !.incomingDiffBuffer = more]
<1>1. buffer \in Seq(DataMessage)
  BY DEF Client
<1>2. more \in Seq(DataMessage) /\ SessionData(e) \in Seq(DataMessage)
  BY <1>1, SessionDataType, ConcatProperties
<1>3. more \o SessionData(e) = buffer \o SessionData(d)
  <2>1. (buffer \o data) \o SessionData(e) = buffer \o (data \o SessionData(e))
    BY <1>1, <1>2, MessagesAssoc
  <2> QED BY <2>1, Zenon
<1> HIDE DEF more
<1>4. /\ b \in Client /\ b.incomingDiffBuffer = more /\ b.out = c.out
      /\ b.status = c.status /\ b.isConnectedToRoom = c.isConnectedToRoom
      /\ b.lastServerClock = c.lastServerClock
      /\ b.latestConnectRequestId = c.latestConnectRequestId
      /\ b.requests = c.requests /\ b.loaded = c.loaded /\ b.astray = c.astray
      /\ b.clientClock = c.clientClock
      /\ b.pendingPushRequests = c.pendingPushRequests
      /\ b.history = c.history /\ b.store = c.store
      /\ b.speculativeChanges = c.speculativeChanges
  BY <1>2 DEF Client
<1> HIDE DEF b
<1>5. /\ Numbered(b) <=> Numbered(c)
      /\ \A n : Sendable(b, n) = Sendable(c, n)
      /\ \A base : Ahead(c, base) => Ahead(b, base)
      /\ \A g : \A u : \A k : \A events : \A on :
           Story(g, u, c, k, events, on) => Story(g, u, b, k, events, on)
  BY <1>4, Alike
<1> SUFFICES ASSUME Follows(h, t, c, d, l) PROVE Follows(h, t, b, e, l)
  BY <1>4 DEF Following, b, more
<1>6. Copied(h, t, c) /\ Written(c, l) /\ Requested(d) /\ HearsAll(h, t, c, d)
  BY DEF Follows
<1>7. Copied(h, t, b)
  BY <1>4, <1>5, <1>6 DEF Copied
<1>8. Written(b, l)
  BY <1>4, <1>5, <1>6 DEF Written, Earlier
<1>9. HearsAll(h, t, b, e)
  <2>1. /\ c.status = SocketOnline /\ c.latestConnectRequestId = NoRequest
        /\ Attended(d)
        /\ Story(h, t, c, c.lastServerClock, buffer \o SessionData(d), Listening(d))
    BY <1>6 DEF HearsAll
  <2>2. Story(h, t, c, c.lastServerClock, more \o SessionData(e), Listening(e))
    BY <1>3, <2>1 DEF Story
  <2>3. Story(h, t, b, c.lastServerClock, more \o SessionData(e), Listening(e))
    BY <1>5, <2>2
  <2> QED BY <1>4, <2>1, <2>3 DEF HearsAll
<1>10. Awaits(h, t, b, e)
  BY <1>4 DEF Awaits
<1> QED BY <1>6, <1>7, <1>8, <1>9, <1>10 DEF Follows

\* didReconnect leaves a client astray, and makes one of a client that connects
\* with changes its listener has not seen.
LEMMA ReconnectAstray ==
    ASSUME NEW c \in Client, NEW event \in ConnectEvent
    PROVE  /\ c.astray => DidReconnect(c, event).astray
           /\ /\ event.connectRequestId = c.latestConnectRequestId
              /\ ~c.isConnectedToRoom /\ c.pendingPushRequests = <<>>
              /\ HasUnflushedChanges(c)
              => DidReconnect(c, event).astray
<1> DEFINE hydrated == Hydrated(c, event)
           reapplied == ApplyChanges(hydrated, c.speculativeChanges)
           there == RemoteChange(c, reapplied)
           rebased == [there EXCEPT !.speculativeChanges = NoChanges,
                                    !.isConnectedToRoom = TRUE]
           answered == [c EXCEPT !.latestConnectRequestId = NoRequest]
           difference == Between(hydrated, reapplied)
           pushed == Push(rebased, difference)
           astray == pushed.astray \/ HasUnflushedChanges(c)
           done == [pushed EXCEPT !.latestConnectRequestId = NoRequest,
                                  !.lastServerClock = event.serverClock,
                                  !.loaded = TRUE,
                                  !.astray = astray]
<1>1. hydrated \in Stores
  BY HydratedType
<1>2. c.speculativeChanges \in DocChanges
  BY DEF Client
<1>3. /\ reapplied \in Stores
      /\ \A p \in RecordIds \ Ids : reapplied[p] = hydrated[p]
  <2> HIDE DEF hydrated
  <2> QED BY <1>1, <1>2, ApplyDocChanges
<1>4. difference \in DocChanges
  <2> HIDE DEF hydrated, reapplied
  <2> QED BY <1>1, <1>3, DocumentsBetween
<1>5. there \in Client /\ there.astray = c.astray
  <2> HIDE DEF reapplied
  <2>1. there \in Client
    BY <1>3, RemoteChangeType
  <2>2. there.astray = c.astray
    BY DEF RemoteChange, Client
  <2> QED BY <2>1, <2>2
<1>6. rebased \in Client /\ rebased.astray = c.astray
  <2> HIDE DEF there
  <2>1. NoChanges \in DocChanges
    BY NoChangesInDiffs DEF DocChanges
  <2> QED BY <1>5, <2>1 DEF Client
<1>7. pushed \in Client /\ pushed.astray = c.astray
  <2> HIDE DEF rebased, difference
  <2>1. pushed \in Client /\ Pushed(rebased, pushed)
    BY <1>4, <1>6, PushType, PushPushed
  <2> HIDE DEF pushed
  <2> QED BY <1>6, <2>1 DEF Pushed, Client
<1>8. answered \in Client /\ answered.astray = c.astray
  BY DEF Client, NoRequest
<1>9. ResetConnection(answered, TRUE).astray = c.astray
  <2> DEFINE next == [id \in RecordIds |-> IF id \in PresenceIds THEN Absent
                                           ELSE answered.store[id]]
             before == RemoteChange(answered, next)
  <2> HIDE DEF answered
  <2>1. next \in Stores
    BY <1>8 DEF Client, Stores, MaybeRecord
  <2>2. before \in Client /\ before.astray = answered.astray
    <3> HIDE DEF next
    <3>1. before \in Client
      BY <1>8, <2>1, RemoteChangeType
    <3>2. before.astray = answered.astray
      BY <1>8 DEF RemoteChange, Client
    <3> QED BY <3>1, <3>2
  <2>3. ResetConnection(answered, TRUE)
          = [before EXCEPT !.lastServerClock = 0,
                           !.lastPushedPresenceState = Absent,
                           !.isConnectedToRoom = FALSE,
                           !.pendingPushRequests = <<>>,
                           !.incomingDiffBuffer = <<>>,
                           !.status = IF @ = SocketOnline THEN SocketOffline ELSE @]
    BY DEF ResetConnection
  <2> HIDE DEF before
  <2>4. ResetConnection(answered, TRUE).astray = before.astray
    BY <2>2, <2>3 DEF Client
  <2> QED BY <1>8, <2>2, <2>4
<1>10. astray \in BOOLEAN
  BY <1>7 DEF Client, HasUnflushedChanges
<1>11. done.astray = (c.astray \/ HasUnflushedChanges(c))
  <2>1. astray = (c.astray \/ HasUnflushedChanges(c))
    BY <1>7
  <2> HIDE DEF pushed, astray
  <2>2. done.astray = astray
    BY <1>7 DEF Client
  <2> HIDE DEF done
  <2> QED BY <2>1, <2>2, Zenon
<1>12. \/ DidReconnect(c, event) = c
       \/ DidReconnect(c, event) = ResetConnection(answered, TRUE)
       \/ DidReconnect(c, event) = done
  BY DEF DidReconnect
<1>13. /\ event.connectRequestId = c.latestConnectRequestId
       /\ ~c.isConnectedToRoom /\ c.pendingPushRequests = <<>>
       => DidReconnect(c, event) = done
  BY DEF DidReconnect
<1> HIDE DEF done, answered
<1> QED BY <1>9, <1>11, <1>12, <1>13

\* A client that accepts the answer to its connect request follows the room.
LEMMA FollowingConnects ==
    ASSUME NEW h, NEW t, Versions(h, t), NEW c \in Client, NEW d \in Session,
           NEW e \in Session, NEW l, NEW event \in ConnectEvent,
           c.status = SocketOnline, ~c.isConnectedToRoom,
           event.connectRequestId = c.latestConnectRequestId,
           Following(h, t, c, d, l), Requested(d) => Requested(e),
           ~c.astray => Welcome(h, t, c, event, e)
    PROVE  Following(h, t, DidReconnect(c, event), e, l)
<1> DEFINE a == DidReconnect(c, event)
           k == c.lastServerClock
           base == h[event.serverClock]
<1>1. a \in Client
  BY DidReconnectType
<1>2. CASE c.astray
  BY <1>2, ReconnectAstray DEF Following
<1>3. CASE ~c.astray /\ c.pendingPushRequests = <<>> /\ HasUnflushedChanges(c)
  BY <1>3, ReconnectAstray DEF Following
<1>4. ASSUME ~c.astray, ~HasUnflushedChanges(c) PROVE Follows(h, t, a, e, l)
  <2>1. Copied(h, t, c) /\ Written(c, l) /\ Requested(e)
    BY <1>4 DEF Following, Follows
  <2>2. /\ c.out = <<>> /\ Attended(e) /\ event.serverClock \in 0..t
        /\ Hydrates(h, k, event)
        /\ Story(h, t, c, event.serverClock, SessionData(e), Listening(e))
    BY <1>4 DEF Welcome
  <2>3. c.pendingPushRequests = <<>> /\ c.incomingDiffBuffer = <<>>
    BY <2>1 DEF Written
  <2>4. base \in Docs /\ k \in 0..t /\ h[k] \in Docs
    BY <2>1, <2>2 DEF Versions, Copied
  <2>5. DocsOf(Hydrated(c, event)) = base
    <3>1. CASE event.hydrationType = "wipe_all"
      <4>1. base = ApplyNetworkDiff(NoDocs, event.diff)
        BY <2>2, <3>1 DEF Hydrates
      <4>2. DocsOf(Hydrated(c, event))
              = ApplyNetworkDiff(IF event.hydrationType = "wipe_all" THEN NoDocs
                                 ELSE base, event.diff)
        BY <2>4, <3>1, HydratedDocs
      <4> QED BY <3>1, <4>1, <4>2
    <3>2. CASE event.hydrationType = "wipe_presence"
      <4>1. k > 0 /\ base = ApplyNetworkDiff(h[k], event.diff)
        BY <2>2, <3>2 DEF Hydrates
      <4>2. Ahead(c, h[k])
        BY <2>1, <4>1 DEF Copied
      <4>3. DocsOf(Hydrated(c, event))
              = ApplyNetworkDiff(IF event.hydrationType = "wipe_all" THEN NoDocs
                                 ELSE h[k], event.diff)
        BY <1>4, <2>4, <4>2, HydratedDocs
      <4> QED BY <3>2, <4>1, <4>3
    <3> QED BY <2>2, <3>1, <3>2 DEF Hydrates
  <2> HIDE DEF base
  <2>6. /\ Ahead(a, base) /\ NumbersOn(c, a)
        /\ a.isConnectedToRoom /\ a.status = c.status /\ a.out = c.out
        /\ a.incomingDiffBuffer = c.incomingDiffBuffer
        /\ a.latestConnectRequestId = 0 /\ a.loaded
        /\ a.lastServerClock = event.serverClock
        /\ a.requests = c.requests
    BY <1>4, <2>3, <2>4, <2>5, ReconnectShows
  <2> HIDE DEF a
  <2>7. Copied(h, t, a)
    <3>1. Numbered(a)
      BY <2>1, <2>6 DEF Copied, NumbersOn
    <3> QED BY <2>2, <2>6, <3>1 DEF Copied, base
  <2>8. Written(a, l)
    <3>1. Earlier(c) \in Nat /\ Earlier(a) = Earlier(c)
      BY <2>6 DEF Earlier, Client
    <3>2. l \in Seq(Sendable(c, Earlier(c)))
      BY <2>1 DEF Written
    <3>3. l \in Seq(Sendable(a, Earlier(c)))
      BY <1>1, <2>6, <3>1, <3>2, StillSendable DEF a
    <3>4. a.out \in Seq(Sendable(a, 0))
      BY <2>2, <2>6
    <3> QED BY <2>6, <3>1, <3>3, <3>4 DEF Written
  <2>9. HearsAll(h, t, a, e)
    <3>1. SessionData(e) \in Seq(DataMessage)
      BY SessionDataType
    <3>2. a.incomingDiffBuffer \o SessionData(e) = SessionData(e)
      BY <2>3, <2>6, <3>1, ConcatEmpty
    <3>3. Tells(h, t, a, event.serverClock, SessionData(e))
      BY <1>1, <2>2, <2>6, <3>1, TellsNumberedOn DEF Story, a
    <3>4. Story(h, t, a, event.serverClock, SessionData(e), Listening(e))
      BY <2>2, <3>3 DEF Story
    <3> QED BY <2>2, <2>6, <3>2, <3>4 DEF HearsAll, NoRequest
  <2>10. Awaits(h, t, a, e)
    BY <2>6 DEF Awaits
  <2> QED BY <2>1, <2>7, <2>8, <2>9, <2>10 DEF Follows
<1>5. ~c.astray => c.pendingPushRequests = <<>>
  BY DEF Following, Follows, Written
<1> QED BY <1>2, <1>3, <1>4, <1>5 DEF Following

\* A client goes on following when it receives a message.
LEMMA FollowingReceives ==
    ASSUME NEW h, NEW t, Versions(h, t), NEW c \in Client, NEW d \in Session,
           NEW l, d.wire # <<>>, c.status = SocketOnline,
           Following(h, t, c, d, l)
    PROVE  LET msg == Head(d.wire)
           IN  Following(h, t,
                         IF msg.type = "close" THEN ConnectionLost(c, msg.fatal)
                         ELSE HandleServerEvent(c, msg),
                         [d EXCEPT !.wire = Tail(@)], l)
<1> DEFINE msg == Head(d.wire)
           e == [d EXCEPT !.wire = Tail(@)]
<1>1. /\ e \in Session /\ msg \in ServerMessage
      /\ SessionData(d) = DataOf(msg) \o SessionData(e)
      /\ Listening(e) <=> Listening(d)
      /\ Attended(e) <=> Attended(d)
      /\ 1 \in 1..Len(d.wire) /\ d.wire[1] = msg
      /\ SessionData(Behind(d, 1)) = SessionData(e)
      /\ Listening(Behind(d, 1)) <=> Listening(e)
      /\ Attended(Behind(d, 1)) <=> Attended(e)
      /\ \A i \in 1..Len(e.wire) :
           i + 1 \in 1..Len(d.wire) /\ e.wire[i] = d.wire[i + 1]
  BY FirstArrived
<1>2. Requested(d) => Requested(e)
  BY <1>1 DEF Requested
<1>3. (c.isConnectedToRoom => DataOf(msg) = <<>>) => Following(h, t, c, e, l)
  BY FollowingPasses
<1> HIDE DEF e, msg
<1>4. CASE msg.type = "close"
  <2>1. msg.fatal \in BOOLEAN
    BY <1>1, <1>4 DEF ServerMessage
  <2>2. LetsGo(c, ConnectionLost(c, msg.fatal)) /\ ConnectionLost(c, msg.fatal) \in Client
    BY <2>1, LostLetsGo, ConnectionLostType
  <2>3. Following(h, t, ConnectionLost(c, msg.fatal), e, l)
    BY <1>2, <2>2, FollowingLetsGo
  <2> QED BY <1>4, <2>3 DEF e, msg
<1>5. CASE msg.type = "connect"
  <2>1. msg \in ConnectEvent
    BY <1>1, <1>5 DEF ServerMessage, ConnectEvent
  <2>2. HandleServerEvent(c, msg) = DidReconnect(c, msg)
    BY <1>5 DEF HandleServerEvent
  <2>3. Following(h, t, DidReconnect(c, msg), e, l)
    <3>1. CASE msg.connectRequestId # c.latestConnectRequestId
      <4>1. DidReconnect(c, msg) = c
        BY <3>1 DEF DidReconnect
      <4> QED BY <1>3, <1>5, <4>1 DEF DataOf
    <3>2. CASE msg.connectRequestId = c.latestConnectRequestId /\ c.astray
      BY <2>1, <3>2, ReconnectAstray DEF Following
    <3>3. CASE msg.connectRequestId = c.latestConnectRequestId /\ ~c.astray
      <4>1. Requested(d) /\ HearsAll(h, t, c, d) /\ Awaits(h, t, c, d)
        BY <3>3 DEF Following, Follows
      <4>2. msg.connectRequestId # NoRequest
        BY <1>1, <1>5, <4>1 DEF Requested
      <4>3. ~c.isConnectedToRoom
        BY <3>3, <4>1, <4>2 DEF HearsAll
      <4>4. Accepts(c, d.wire[1])
        BY <1>1, <1>5, <3>3 DEF Accepts
      <4>5. Welcome(h, t, c, msg, Behind(d, 1))
        BY <1>1, <4>1, <4>3, <4>4 DEF Awaits
      <4>6. Welcome(h, t, c, msg, e)
        BY <1>1, <4>5 DEF Welcome, Story
      <4> QED BY <1>1, <1>2, <2>1, <3>3, <4>3, <4>6, FollowingConnects
    <3> QED BY <3>1, <3>2, <3>3
  <2> QED BY <1>5, <2>2, <2>3 DEF e, msg
<1>6. CASE msg.type = "data" /\ c.isConnectedToRoom
  <2>1. msg.data \in Seq(DataMessage) /\ DataOf(msg) = msg.data
    BY <1>1, <1>6 DEF ServerMessage, DataOf
  <2>2. HandleServerEvent(c, msg)
          = [c EXCEPT !.incomingDiffBuffer = @ \o msg.data]
    BY <1>6 DEF HandleServerEvent
  <2>3. SessionData(d) = msg.data \o SessionData(e)
    BY <1>1, <2>1, Zenon
  <2>4. Following(h, t, [c EXCEPT !.incomingDiffBuffer = @ \o msg.data], e, l)
    BY <1>1, <1>2, <1>6, <2>1, <2>3, FollowingData
  <2> QED BY <1>6, <2>2, <2>4 DEF e, msg
<1>7. CASE /\ msg.type # "close" /\ msg.type # "connect"
           /\ ~(msg.type = "data" /\ c.isConnectedToRoom)
  <2>1. HandleServerEvent(c, msg) = c
    BY <1>7 DEF HandleServerEvent
  <2>2. Following(h, t, c, e, l)
    BY <1>3, <1>7 DEF DataOf
  <2> QED BY <1>7, <2>1, <2>2 DEF e, msg
<1> QED BY <1>4, <1>5, <1>6, <1>7

\* A new connect request, and what a client keeps when it makes one.
LEMMA Dials ==
    ASSUME NEW c \in Client
    PROVE  LET n == c.requests + 1
               request == [type |-> "connect", connectRequestId |-> n,
                           lastServerClock |-> c.lastServerClock]
               e == SendConnectMessage([c EXCEPT !.out = <<>>])
           IN  /\ request \in ClientMessage
               /\ e \in Client /\ e.status = SocketOnline /\ e.requests = n
               /\ e.latestConnectRequestId = n /\ e.out = <<request>>
               /\ e.isConnectedToRoom = c.isConnectedToRoom
               /\ e.pendingPushRequests = c.pendingPushRequests
               /\ e.incomingDiffBuffer = c.incomingDiffBuffer
               /\ e.lastServerClock = c.lastServerClock /\ e.loaded = c.loaded
               /\ e.astray = c.astray /\ e.clientClock = c.clientClock
               /\ e.history = c.history /\ e.store = c.store
               /\ e.speculativeChanges = c.speculativeChanges
<1> DEFINE n == c.requests + 1
           request == [type |-> "connect", connectRequestId |-> n,
                       lastServerClock |-> c.lastServerClock]
           quiet == [c EXCEPT !.out = <<>>]
           e == SendConnectMessage(quiet)
<1>1. /\ c.requests \in Nat /\ c.lastServerClock \in Nat /\ n \in Nat
      /\ c.out \in Seq(ClientMessage)
  BY DEF Client
<1>2. request \in ClientMessage /\ request.type = "connect"
      /\ request.connectRequestId = n
      /\ request.lastServerClock = c.lastServerClock
  BY <1>1 DEF ClientMessage, NoRequest
<1>3. /\ e \in Client /\ e.status = SocketOnline /\ e.requests = n
      /\ e.latestConnectRequestId = n /\ e.out = <<request>>
      /\ e.isConnectedToRoom = c.isConnectedToRoom
      /\ e.pendingPushRequests = c.pendingPushRequests
      /\ e.incomingDiffBuffer = c.incomingDiffBuffer
      /\ e.lastServerClock = c.lastServerClock /\ e.loaded = c.loaded
      /\ e.astray = c.astray /\ e.clientClock = c.clientClock
      /\ e.history = c.history /\ e.store = c.store
      /\ e.speculativeChanges = c.speculativeChanges
  <2>1. <<>> \in Seq(ClientMessage)
    OBVIOUS
  <2>2. /\ quiet \in Client /\ quiet.out = <<>>
        /\ quiet.requests = c.requests
        /\ quiet.lastServerClock = c.lastServerClock
        /\ quiet.isConnectedToRoom = c.isConnectedToRoom
        /\ quiet.pendingPushRequests = c.pendingPushRequests
        /\ quiet.incomingDiffBuffer = c.incomingDiffBuffer
        /\ quiet.loaded = c.loaded /\ quiet.astray = c.astray
        /\ quiet.clientClock = c.clientClock /\ quiet.history = c.history
        /\ quiet.store = c.store
        /\ quiet.speculativeChanges = c.speculativeChanges
    BY <2>1 DEF Client
  <2> DEFINE sent == Append(quiet.out,
                       [type |-> "connect", connectRequestId |-> quiet.requests + 1,
                        lastServerClock |-> quiet.lastServerClock])
             requests == quiet.requests + 1
  <2>3. sent = <<request>> /\ requests = n
    BY <2>2
  <2>4. e = [quiet EXCEPT !.status = SocketOnline, !.requests = requests,
                          !.latestConnectRequestId = requests, !.out = sent]
    BY DEF SendConnectMessage
  <2>5. e \in Client
    BY SendConnectMessageType
  <2> HIDE DEF quiet, sent, requests, e, request, n
  <2>6. /\ e.status = SocketOnline /\ e.requests = requests
        /\ e.latestConnectRequestId = requests /\ e.out = sent
        /\ e.isConnectedToRoom = quiet.isConnectedToRoom
        /\ e.pendingPushRequests = quiet.pendingPushRequests
        /\ e.incomingDiffBuffer = quiet.incomingDiffBuffer
        /\ e.lastServerClock = quiet.lastServerClock /\ e.loaded = quiet.loaded
        /\ e.astray = quiet.astray /\ e.clientClock = quiet.clientClock
        /\ e.history = quiet.history /\ e.store = quiet.store
        /\ e.speculativeChanges = quiet.speculativeChanges
    BY <2>2, <2>4 DEF Client
  <2> QED BY <2>2, <2>3, <2>5, <2>6
<1> QED BY <1>2, <1>3

\* A client that is offline and connects anew follows the room; what its earlier
\* socket has not delivered can come late.
LEMMA FollowingDials ==
    ASSUME NEW h, NEW t, Versions(h, t), NEW c \in Client, NEW d, NEW b,
           NEW l \in Seq(ClientMessage), NEW more,
           c.status # SocketOnline, b.wire = <<>>,
           more = <<>> \/ more = l \o c.out, Following(h, t, c, d, l)
    PROVE  LET e == SendConnectMessage([c EXCEPT !.out = <<>>])
           IN  e \in Client /\ Following(h, t, e, b, more)
<1> DEFINE n == c.requests + 1
           request == [type |-> "connect", connectRequestId |-> n,
                       lastServerClock |-> c.lastServerClock]
           quiet == [c EXCEPT !.out = <<>>]
           e == SendConnectMessage(quiet)
<1>1. /\ c.requests \in Nat /\ c.lastServerClock \in Nat /\ n \in Nat
      /\ c.out \in Seq(ClientMessage)
  BY DEF Client
<1>2. request \in ClientMessage /\ request.type = "connect"
      /\ request.connectRequestId = n
      /\ request.lastServerClock = c.lastServerClock
  BY <1>1 DEF ClientMessage, NoRequest
<1>3. /\ e \in Client /\ e.status = SocketOnline /\ e.requests = n
      /\ e.latestConnectRequestId = n /\ e.out = <<request>>
      /\ e.isConnectedToRoom = c.isConnectedToRoom
      /\ e.pendingPushRequests = c.pendingPushRequests
      /\ e.incomingDiffBuffer = c.incomingDiffBuffer
      /\ e.lastServerClock = c.lastServerClock /\ e.loaded = c.loaded
      /\ e.astray = c.astray /\ e.clientClock = c.clientClock
      /\ e.history = c.history /\ e.store = c.store
      /\ e.speculativeChanges = c.speculativeChanges
  BY Dials
<1> HIDE DEF e, quiet
<1>4. CASE c.astray
  BY <1>3, <1>4 DEF Following, e, quiet
<1>5. ASSUME Follows(h, t, c, d, l), ~c.isConnectedToRoom
      PROVE  Follows(h, t, e, b, more)
  <2>1. Copied(h, t, c) /\ Written(c, l)
    BY <1>5 DEF Follows
  <2>2. Copied(h, t, e)
    <3>1. /\ Numbered(e) <=> Numbered(c)
          /\ \A base : Ahead(c, base) => Ahead(e, base)
      BY <1>3, Alike
    <3> QED BY <1>3, <2>1, <3>1 DEF Copied
  <2>3. Written(e, more)
    <3>1. NumbersOn(c, e)
      BY <1>3, NumbersAlike
    <3>2. /\ c.out \in Seq(Sendable(c, c.requests))
          /\ l \in Seq(Sendable(c, Earlier(c)))
      BY <1>5, <2>1 DEF Written
    <3>3. /\ Earlier(c) \in Nat /\ Earlier(c) <= c.requests
          /\ Earlier(e) = c.requests
      BY <1>1, <1>3 DEF Earlier
    <3>4. c.requests <= c.requests
      BY <1>1
    <3>5. c.out \in Seq(Sendable(e, c.requests))
      BY <1>1, <1>3, <3>1, <3>2, <3>4, StillSendable
    <3>6. l \in Seq(Sendable(e, c.requests))
      BY <1>1, <1>3, <3>1, <3>2, <3>3, StillSendable
    <3>7. more \in Seq(Sendable(e, c.requests))
      <4> DEFINE S == Sendable(e, c.requests)
      <4> HIDE DEF S
      <4>1. c.out \in Seq(S) /\ l \in Seq(S)
        BY <3>5, <3>6 DEF S
      <4>2. l \o c.out \in Seq(S) /\ <<>> \in Seq(S)
        BY <4>1, ConcatProperties
      <4> QED BY <4>2 DEF S
    <3>8. request \in Sendable(e, n)
      BY <1>1, <1>2 DEF Sendable
    <3>9. e.out \in Seq(Sendable(e, e.requests))
      BY <1>3, <3>8
    <3> QED BY <1>3, <1>5, <2>1, <3>3, <3>7, <3>9 DEF Written
  <2>4. Requested(b) /\ HearsAll(h, t, e, b)
    BY <1>3, <1>5 DEF Requested, HearsAll
  <2>5. Awaits(h, t, e, b)
    <3>1. Len(e.out) = 1 /\ Head(e.out) = request
      BY <1>3
    <3>2. Waits(e)
      BY <1>2, <1>3, <3>1 DEF Waits
    <3> QED BY <3>2 DEF Awaits
  <2> QED BY <2>2, <2>3, <2>4, <2>5 DEF Follows
<1>6. ~c.astray => ~c.isConnectedToRoom
  BY DEF Following, Follows, HearsAll
<1> QED BY <1>3, <1>4, <1>5, <1>6 DEF Following, e, quiet

\* A late message that has arrived comes no more.
LEMMA FollowingLess ==
    ASSUME NEW h, NEW t, NEW c, NEW d, NEW l, l # <<>>, Following(h, t, c, d, l)
    PROVE  Following(h, t, c, d, Tail(l))
<1>1. \A S : l \in Seq(S) => Tail(l) \in Seq(S)
  OBVIOUS
<1> QED BY <1>1 DEF Following, Follows, Written

-----------------------------------------------------------------------------
(***************************************************************************)
(* How the room goes on.                                                   *)
(***************************************************************************)
\* A tombstone has the clock of a push.
TombstonesNumbered == \A id \in Ids : tombstones[id] # 0

RoomGoesOn ==
    /\ HistoryGoesOn /\ TombstonesNumbered'
    /\ NothingForgotten' => NothingForgotten
    /\ UNCHANGED forgotten \/ PruneTombstones

\* Where the clocks stay as they are.
LEMMA ClocksStay ==
    ASSUME TypeOK, TombstonesNumbered, ClocksUnchanged \/ RecordsUnchanged
           \/ UNCHANGED vars
    PROVE  RoomGoesOn
<1>1. UNCHANGED <<tombstones, clock, hist, forgotten>>
  BY DEF ClocksUnchanged, RecordsUnchanged, vars
<1> QED BY <1>1 DEF TypeOK, RoomGoesOn, HistoryGoesOn, TombstonesNumbered,
                    NothingForgotten

\* A push has the next clock.
LEMMA PushGoesOn ==
    ASSUME TypeOK, TombstonesNumbered, NEW s, NEW diff, NEW presence,
           NEW clientClock, HandlePushRequest(s, diff, presence, clientClock)
    PROVE  RoomGoesOn
<1>1. PICK ops : /\ IncrementClock /\ ExtendHistory /\ UNCHANGED forgotten
                 /\ ApplyPush(ops) \/ RollbackPush(ops)
  BY DEF HandlePushRequest
<1>2. /\ clock \in Nat /\ clock' = clock + 1
      /\ \A k \in 0..clock : hist'[k] = hist[k]
  BY <1>1, ClockStep
<1>3. clock' # 0 /\ NoClock # 0 /\ clock' \in Nat /\ clock <= clock'
  BY <1>2 DEF NoClock
<1>4. \A id \in Ids : tombstones'[id] \in {clock', NoClock, tombstones[id]}
  BY <1>1 DEF ApplyPush, RollbackPush, TombstonesAfter
<1>5. TombstonesNumbered'
  <2> SUFFICES ASSUME NEW id \in Ids PROVE tombstones'[id] # 0
    BY DEF TombstonesNumbered
  <2> QED BY <1>3, <1>4 DEF TombstonesNumbered
<1> QED BY <1>1, <1>2, <1>3, <1>5 DEF RoomGoesOn, HistoryGoesOn, NothingForgotten

\* Pruning forgets the clocks of tombstones.
LEMMA PruneGoesOn ==
    ASSUME TypeOK, TombstonesNumbered, PruneTombstones
    PROVE  RoomGoesOn
<1>1. PICK keep : /\ tombstones' = [id \in Ids |->
                       IF id \in keep THEN tombstones[id] ELSE NoClock]
                  /\ forgotten' = [id \in Ids |->
                       IF id \in Tombstoned \ keep THEN tombstones[id]
                       ELSE forgotten[id]]
                  /\ UNCHANGED <<clock, hist>>
  BY DEF PruneTombstones
<1>2. HistoryGoesOn
  BY <1>1 DEF TypeOK, HistoryGoesOn
<1>3. TombstonesNumbered'
  BY <1>1 DEF TombstonesNumbered, NoClock
<1>4. NothingForgotten' => NothingForgotten
  BY <1>1 DEF NothingForgotten, TombstonesNumbered
<1> QED BY <1>2, <1>3, <1>4 DEF RoomGoesOn

\* Every step of the composition.
LEMMA SyncGoesOn ==
    ASSUME SyncTyping, TypeOK, TombstonesNumbered, [SyncNext]_syncVars
    PROVE  RoomGoesOn
<1>1. UNCHANGED vars => RoomGoesOn
  BY ClocksStay
<1>2. ASSUME NEW s \in SessionIds, NEW id \in Ids,
             NEW record \in scenario.edits[s][id], Edit(s, id, record)
      PROVE  RoomGoesOn
  BY <1>1, <1>2, EditTyped
<1>3. ASSUME NEW s \in SessionIds, NEW presence \in scenario.moves,
             Move(s, presence)
      PROVE  RoomGoesOn
  BY <1>1, <1>3, MoveTyped
<1>4. ASSUME NEW s \in SessionIds,
             \/ ListenerFlush(s) \/ SendPushes(s) \/ RunRebase(s) \/ LoseConnection(s)
      PROVE  RoomGoesOn
  BY <1>1, <1>4, OwnStepsTyped
<1>5. ASSUME NEW s \in SessionIds, Connect(s) PROVE RoomGoesOn
  <2>1. RecordsUnchanged
    BY <1>5 DEF Connect, HandleNewSession
  <2> QED BY <2>1, ClocksStay
<1>6. ASSUME NEW s \in SessionIds, ClientReceive(s) PROVE RoomGoesOn
  <2>1. RecordsUnchanged
    BY <1>6 DEF ClientReceive, Deliver
  <2> QED BY <2>1, ClocksStay
<1>7. ASSUME NEW s \in SessionIds, NEW msg, RoomHandles(s, msg) PROVE RoomGoesOn
  <2>1. ASSUME NEW k, NEW version, NEW schemaOk, NEW reqId,
               HandleConnectRequest(s, k, version, schemaOk, reqId)
        PROVE  RoomGoesOn
    <3>1. ClocksUnchanged
      BY <2>1 DEF HandleConnectRequest
    <3> QED BY <3>1, ClocksStay
  <2>2. ASSUME NEW diff, NEW presence, NEW clientClock,
               HandlePushRequest(s, diff, presence, clientClock)
        PROVE  RoomGoesOn
    BY <2>2, PushGoesOn
  <2> QED BY <1>1, <1>7, <2>1, <2>2 DEF RoomHandles
<1>8. ASSUME NEW s \in SessionIds, RoomReceive(s) \/ RoomReceiveLate(s)
      PROVE  RoomGoesOn
  BY <1>7, <1>8 DEF RoomReceive, RoomReceiveLate
<1>9. ASSUME RoomStep PROVE RoomGoesOn
  <2>1. ASSUME NEW s \in SessionIds, FlushTimer(s) \/ SocketCloses(s) \/ HandleClose(s)
        PROVE  RoomGoesOn
    <3>1. RecordsUnchanged
      BY <2>1 DEF FlushTimer, SocketCloses, HandleClose
    <3> QED BY <3>1, ClocksStay
  <2>2. ASSUME NEW timedOut, PruneSessions(timedOut) PROVE RoomGoesOn
    <3>1. ClocksUnchanged
      BY <2>2 DEF PruneSessions
    <3> QED BY <3>1, ClocksStay
  <2> QED BY <1>9, <2>1, <2>2, PruneGoesOn DEF RoomStep
<1>10. UNCHANGED syncVars => UNCHANGED vars
  BY DEF syncVars
<1> QED BY <1>1, <1>2, <1>3, <1>4, <1>5, <1>6, <1>8, <1>9, <1>10 DEF SyncNext

-----------------------------------------------------------------------------
(***************************************************************************)
(* Every client follows the room, or is astray, as long as no tombstone    *)
(* has been forgotten.                                                     *)
(***************************************************************************)
Followers ==
    \A s \in SessionIds :
        Following(hist, clock, clients[s], sessions[s], late[s])

InFollowing ==
    /\ SyncTyping /\ RecordsInv /\ MessagesInv /\ Followers /\ NothingForgotten
    /\ SyncTyping' /\ TypeOK' /\ HistoryGoesOn

\* What each session and each client of it have.
LEMMA InFollowingHas ==
    ASSUME InFollowing
    PROVE  /\ TypeOK /\ Versions(hist, clock)
           /\ \A s \in SessionIds :
                /\ clients[s] \in Client /\ sessions[s] \in Session
                /\ clients'[s] \in Client /\ sessions'[s] \in Session
                /\ late[s] \in Seq(ClientMessage)
                /\ Following(hist, clock, clients[s], sessions[s], late[s])
<1>1. TypeOK
  BY DEF InFollowing, MessagesInv
<1>2. Versions(hist, clock)
  BY <1>1 DEF TypeOK, Versions, Docs
<1> QED BY <1>1, <1>2 DEF InFollowing, TypeOK, SyncTyping, Followers

\* A step of one client.
LEMMA OneClientFollows ==
    ASSUME InFollowing, NEW s \in SessionIds, NEW next, ClientStep(s, next),
           Following(hist, clock, next, sessions[s], late[s])
    PROVE  Followers'
<1>1. /\ clients' = [clients EXCEPT ![s] = next]
      /\ UNCHANGED <<hist, clock, sessions, late, scenario>>
  BY DEF ClientStep, vars
<1>2. \A t \in SessionIds : clients'[t] = IF t = s THEN next ELSE clients[t]
  BY <1>1 DEF InFollowing, SyncTyping
<1> QED BY <1>1, <1>2, InFollowingHas DEF Followers

\* A client that only does things of its own.
LEMMA OneContinues ==
    ASSUME InFollowing, NEW s \in SessionIds, NEW next \in Client,
           ClientStep(s, next), Continues(clients[s], next)
    PROVE  Followers'
<1>1. Following(hist, clock, next, sessions[s], late[s])
  BY InFollowingHas, FollowingContinues
<1> QED BY <1>1, OneClientFollows

\* A client's edits count nothing here.
LEMMA EditCountContinues ==
    ASSUME NEW c \in Client, NEW d \in Client, Continues(c, d)
    PROVE  /\ [d EXCEPT !.edits = @ + 1] \in Client
           /\ Continues(c, [d EXCEPT !.edits = @ + 1])
<1> DEFINE n == d.edits + 1
           e == [d EXCEPT !.edits = n]
<1>1. n \in Nat
  <2>1. d.edits \in Nat
    BY DEF Client
  <2> QED BY <2>1
<1> HIDE DEF n
<1>2. /\ e \in Client /\ e.status = d.status
      /\ e.isConnectedToRoom = d.isConnectedToRoom
      /\ e.incomingDiffBuffer = d.incomingDiffBuffer
      /\ e.lastServerClock = d.lastServerClock
      /\ e.latestConnectRequestId = d.latestConnectRequestId
      /\ e.requests = d.requests /\ e.loaded = d.loaded /\ e.astray = d.astray
      /\ e.out = d.out /\ e.clientClock = d.clientClock
      /\ e.pendingPushRequests = d.pendingPushRequests
      /\ e.speculativeChanges = d.speculativeChanges
      /\ e.history = d.history /\ e.store = d.store
  BY <1>1 DEF Client
<1> HIDE DEF e
<1>3. Continues(d, e)
  BY <1>2, ContinuesAlike
<1>4. Continues(c, e)
  BY <1>2, <1>3, ContinuesTransitive
<1> QED BY <1>2, <1>4 DEF e, n

\* A user edits.
LEMMA EditFollows ==
    ASSUME InFollowing, NEW s \in SessionIds, NEW id \in Ids,
           NEW record \in scenario.edits[s][id], Edit(s, id, record)
    PROVE  Followers'
<1> DEFINE c == clients[s]
           changed == UserChange(c, [c.store EXCEPT ![id] = record])
           d == [changed EXCEPT !.edits = @ + 1]
<1>1. c \in Client /\ record \in MaybeRecord
  BY ScenarioType DEF InFollowing, SyncTyping
<1>2. changed \in Client /\ Continues(c, changed)
  <2> HIDE DEF c
  <2> QED BY <1>1, UserChangeType, UserContinues
<1>3. ClientStep(s, d)
  BY DEF Edit
<1> HIDE DEF changed, c
<1>4. d \in Client /\ Continues(c, d)
  BY <1>1, <1>2, EditCountContinues
<1> HIDE DEF d
<1> QED BY <1>3, <1>4, OneContinues DEF c

\* A cursor moves.
LEMMA MoveFollows ==
    ASSUME InFollowing, NEW s \in SessionIds, NEW presence \in scenario.moves,
           Move(s, presence)
    PROVE  Followers'
<1> DEFINE c == clients[s]
           changed == PushPresence(c, presence)
           d == [changed EXCEPT !.edits = @ + 1]
<1>1. c \in Client /\ presence \in MaybeRecord
  BY ScenarioType DEF InFollowing, SyncTyping
<1>2. changed \in Client /\ Continues(c, changed)
  <2> HIDE DEF c
  <2> QED BY <1>1, PushPresenceType, PushPresenceContinues
<1>3. ClientStep(s, d)
  BY DEF Move
<1> HIDE DEF changed, c
<1>4. d \in Client /\ Continues(c, d)
  BY <1>1, <1>2, EditCountContinues
<1> HIDE DEF d
<1> QED BY <1>3, <1>4, OneContinues DEF c

\* A client that hears what everybody hears.
LEMMA FollowingOverheard ==
    ASSUME InFollowing, NEW s \in SessionIds, Overhears(sessions[s], sessions'[s])
    PROVE  Following(hist', clock', clients[s], sessions'[s], late[s])
<1> DEFINE c == clients[s]
           d == sessions[s]
           e == sessions'[s]
<1>1. PICK msgs \in Seq(DataMessage) : News(msgs) /\ Hears(d, e, msgs)
  BY DEF Overhears
<1>2. RecordsInv /\ clock' \in Nat /\ HistoryGoesOn
  BY DEF InFollowing, TypeOK
<1>3. /\ c \in Client /\ d \in Session /\ e \in Session
      /\ Following(hist, clock, c, d, late[s])
  BY InFollowingHas
<1> HIDE DEF c, d, e
<1>4. Informs(c, msgs)
  BY <1>1, <1>2, NewsInforms
<1> QED BY <1>1, <1>2, <1>3, <1>4, FollowingHeard DEF c, d, e

\* A step of one session, and of its client, that the others overhear.
LEMMA OneSessionFollows ==
    ASSUME InFollowing, NEW s \in SessionIds, NEW next, NEW l,
           clients' = [clients EXCEPT ![s] = next], late' = [late EXCEPT ![s] = l],
           \A t \in SessionIds \ {s} : Overhears(sessions[t], sessions'[t]),
           Following(hist', clock', next, sessions'[s], l)
    PROVE  Followers'
<1>1. \A t \in SessionIds :
        /\ clients'[t] = IF t = s THEN next ELSE clients[t]
        /\ late'[t] = IF t = s THEN l ELSE late[t]
  BY DEF InFollowing, SyncTyping
<1>2. ASSUME NEW t \in SessionIds
      PROVE  Following(hist', clock', clients'[t], sessions'[t], late'[t])
  <2>1. CASE t = s
    BY <1>1, <2>1
  <2>2. CASE t # s
    BY <1>1, <2>2, FollowingOverheard
  <2> QED BY <2>1, <2>2
<1> QED BY <1>2 DEF Followers

\* The room's own steps.
LEMMA RoomStepFollows ==
    ASSUME InFollowing, RoomStep
    PROVE  Followers'
<1>1. UNCHANGED <<clients, late, scenario>>
  BY DEF RoomStep
<1>2. AllOverhear
  <2>1. ASSUME NEW s \in SessionIds, \/ FlushTimer(s)
                                     \/ MayLose(s) /\ SocketCloses(s)
                                     \/ ~sessions[s].open /\ HandleClose(s)
        PROVE  AllOverhear
    BY <2>1, InFollowingHas, SessionOpsOverheard
  <2>2. ASSUME NEW timedOut \in scenario.timeOuts, PruneSessions(timedOut)
        PROVE  AllOverhear
    BY <2>2, ScenarioType, PruneSessionsOverheard DEF InFollowing
  <2>3. PruneTombstones => AllOverhear
    BY InFollowingHas, OverhearsItself DEF PruneTombstones, AllOverhear, SameDocs
  <2> QED BY <2>1, <2>2, <2>3 DEF RoomStep
<1> QED BY <1>1, <1>2, FollowingOverheard DEF AllOverhear, Followers

\* A client opens a socket.
LEMMA ConnectFollows ==
    ASSUME InFollowing, NEW s \in SessionIds, Connect(s)
    PROVE  Followers'
<1> DEFINE c == clients[s]
           next == SendConnectMessage([c EXCEPT !.out = <<>>])
           more == IF scenario.late THEN late[s] \o c.out ELSE <<>>
           e == sessions'[s]
<1>1. /\ c \in Client /\ late[s] \in Seq(ClientMessage) /\ TypeOK
      /\ Versions(hist, clock)
      /\ Following(hist, clock, c, sessions[s], late[s])
  BY InFollowingHas
<1>2. /\ clients' = [clients EXCEPT ![s] = next]
      /\ late' = [late EXCEPT ![s] = more]
      /\ UNCHANGED <<hist, clock>>
      /\ c.status # SocketOnline
  BY DEF Connect, HandleNewSession, RecordsUnchanged, SocketOnline, SocketOffline
<1>3. PICK presenceId :
        sessions' = [sessions EXCEPT ![s] =
           [NoSession EXCEPT !.state = AwaitingConnectMessage,
                             !.presenceId = presenceId,
                             !.isReadonly = FALSE, !.open = TRUE]]
  BY DEF Connect, HandleNewSession
<1>4. e.wire = <<>> /\ \A t \in SessionIds \ {s} : sessions'[t] = sessions[t]
  BY <1>1, <1>3 DEF TypeOK, NoSession
<1>5. \A t \in SessionIds \ {s} : Overhears(sessions[t], sessions'[t])
  BY <1>2, <1>4, InFollowingHas, OverhearsItself DEF SameDocs
<1>6. Following(hist, clock, next, e, more)
  <2> HIDE DEF c, e, next
  <2>1. more = <<>> \/ more = late[s] \o c.out
    OBVIOUS
  <2> HIDE DEF more
  <2> QED BY <1>1, <1>2, <1>4, <2>1, FollowingDials DEF next
<1> HIDE DEF next, more
<1> QED BY <1>2, <1>5, <1>6, OneSessionFollows

\* A client hears of its session.
LEMMA ClientReceiveFollows ==
    ASSUME InFollowing, NEW s \in SessionIds, ClientReceive(s)
    PROVE  Followers'
<1> DEFINE c == clients[s]
           d == sessions[s]
           msg == Head(d.wire)
           next == IF msg.type = "close" THEN ConnectionLost(c, msg.fatal)
                   ELSE HandleServerEvent(c, msg)
           left == [d EXCEPT !.wire = Tail(@)]
<1>1. /\ c \in Client /\ d \in Session /\ TypeOK /\ Versions(hist, clock)
      /\ Following(hist, clock, c, d, late[s])
  BY InFollowingHas
<1>2. /\ d.wire # <<>> /\ c.status = SocketOnline
      /\ sessions' = [sessions EXCEPT ![s] = left]
      /\ clients' = [clients EXCEPT ![s] = next] /\ UNCHANGED late
      /\ UNCHANGED <<hist, clock>>
  BY DEF ClientReceive, Deliver, RecordsUnchanged
<1>3. Following(hist, clock, next, left, late[s])
  <2> HIDE DEF c, d
  <2> QED BY <1>1, <1>2, FollowingReceives
<1> HIDE DEF next, left
<1>4. late' = [late EXCEPT ![s] = late[s]]
  BY <1>2 DEF InFollowing, SyncTyping
<1>5. sessions'[s] = left /\ \A t \in SessionIds \ {s} : sessions'[t] = sessions[t]
  BY <1>1, <1>2 DEF TypeOK
<1>6. \A t \in SessionIds \ {s} : Overhears(sessions[t], sessions'[t])
  BY <1>2, <1>5, InFollowingHas, OverhearsItself DEF SameDocs
<1>7. Following(hist', clock', next, sessions'[s], late[s])
  BY <1>2, <1>3, <1>5
<1> QED BY <1>2, <1>4, <1>6, <1>7, OneSessionFollows

\* The room handles a message that a client c may have sent.
Handling(s, c, msg) ==
    \/ c.astray
    \/ /\ \E n \in Nat : msg \in Sendable(c, n)
       /\ msg.type = "connect" =>
            /\ \/ sessions[s].outstanding = <<>>
               \/ /\ ~c.isConnectedToRoom
                  /\ c.status = SocketOnline =>
                       \A i \in 1..Len(sessions[s].wire) :
                         ~Accepts(c, sessions[s].wire[i])
            /\ c.status = SocketOnline /\ ~c.isConnectedToRoom
                 /\ msg.connectRequestId = c.latestConnectRequestId =>
                   c.out = <<>> /\ msg.lastServerClock = c.lastServerClock

\* A connect request.
LEMMA AcceptedFollows ==
    ASSUME InFollowing, NEW s \in SessionIds, NEW c \in Client,
           NEW msg \in ClientMessage, msg.type = "connect",
           HandleConnectRequest(s, msg.lastServerClock, TLSYNC_PROTOCOL_VERSION,
                                TRUE, msg.connectRequestId),
           NEW l, Following(hist, clock, c, sessions[s], l), Handling(s, c, msg)
    PROVE  /\ Following(hist', clock', c, sessions'[s], l)
           /\ \A t \in SessionIds \ {s} : Overhears(sessions[t], sessions'[t])
<1> DEFINE d == sessions[s]
           e == sessions'[s]
           k == msg.lastServerClock
           reqId == msg.connectRequestId
<1>1. k \in Nat /\ reqId \in Nat
  BY DEF ClientMessage
<1>2. UNCHANGED <<clock, hist>>
  BY DEF HandleConnectRequest, ClocksUnchanged
<1>3. /\ d \in Session /\ e \in Session /\ RecordsInv /\ NothingForgotten
      /\ clock \in Nat
  BY InFollowingHas DEF InFollowing, TypeOK
<1>4. /\ \A t \in SessionIds \ {s} : sessions'[t] = sessions[t]
      /\ \E m \in ServerMessage :
           /\ m.type = "connect" /\ m.connectRequestId = reqId
           /\ m.serverClock = clock
           /\ NothingForgotten => Hydrates(hist, k, m)
           /\ Accepted(d, e, m)
  <2> HIDE DEF k, reqId
  <2> QED BY <1>1, <1>3, ConnectRequestAccepted DEF k, reqId
<1>5. PICK m \in ServerMessage :
        /\ m.type = "connect" /\ m.connectRequestId = reqId
        /\ m.serverClock = clock
        /\ Hydrates(hist, k, m)
        /\ Accepted(d, e, m)
  BY <1>3, <1>4
<1>6. \A t \in SessionIds \ {s} : Overhears(sessions[t], sessions'[t])
  BY <1>2, <1>4, InFollowingHas, OverhearsItself DEF SameDocs
<1>7. ASSUME ~c.astray PROVE Following(hist, clock, c, e, l)
  <2>1. PICK n \in Nat : msg \in Sendable(c, n)
    BY <1>7 DEF Handling
  <2>2. reqId # NoRequest
    BY <2>1 DEF Sendable, NoRequest
  <2>3. \/ d.outstanding = <<>>
        \/ /\ ~c.isConnectedToRoom
           /\ c.status = SocketOnline =>
                \A i \in 1..Len(d.wire) : ~Accepts(c, d.wire[i])
    BY <1>7 DEF Handling
  <2>4. ASSUME c.status = SocketOnline, ~c.isConnectedToRoom, Accepts(c, m)
        PROVE  /\ c.out = <<>> /\ m.serverClock \in 0..clock
               /\ Hydrates(hist, c.lastServerClock, m)
               /\ hist[m.serverClock] = hist[clock]
    <3>1. reqId = c.latestConnectRequestId
      BY <1>5, <2>4 DEF Accepts
    <3>2. c.out = <<>> /\ k = c.lastServerClock
      BY <1>7, <2>4, <3>1 DEF Handling
    <3> QED BY <1>3, <1>5, <3>2
  <2>5. m.connectRequestId # NoRequest
    BY <1>5, <2>2
  <2>6. Following(hist, clock, c, d, l)
    OBVIOUS
  <2> HIDE DEF d, e, k, reqId
  <2> QED BY <1>3, <1>5, <2>3, <2>4, <2>5, <2>6, FollowingAccepted
<1>8. c.astray => Following(hist', clock', c, e, l)
  BY DEF Following
<1> QED BY <1>2, <1>6, <1>7, <1>8

\* A push.
LEMMA PushedFollows ==
    ASSUME InFollowing, NEW s \in SessionIds, NEW c \in Client,
           NEW msg \in ClientMessage, msg.type = "push",
           HandlePushRequest(s, msg.diff, msg.presence, msg.clientClock),
           NEW l, Following(hist, clock, c, sessions[s], l), Handling(s, c, msg)
    PROVE  /\ Following(hist', clock', c, sessions'[s], l)
           /\ \A t \in SessionIds \ {s} : Overhears(sessions[t], sessions'[t])
<1> DEFINE d == sessions[s]
           e == sessions'[s]
           k == msg.clientClock
           diff == msg.diff
           presence == msg.presence
<1>1. k \in Nat /\ diff \in DocDiffs /\ presence \in PresencePushes
  BY DEF ClientMessage
<1>2. /\ d \in Session /\ e \in Session /\ RecordsInv /\ MessagesInv
      /\ clock' \in Nat /\ HistoryGoesOn
  BY InFollowingHas DEF InFollowing, TypeOK
<1>3. /\ \A t \in SessionIds \ {s} : Overhears(sessions[t], sessions'[t])
      /\ \/ Overhears(d, e)
         \/ \E answer \in DataMessage :
              /\ Settles(answer, diff) /\ answer.clientClock = k
              /\ Hears(d, e, <<answer>>)
  <2> HIDE DEF k, diff, presence
  <2> QED BY <1>1, <1>2, HandlePushRequestOverheard DEF k, diff, presence
<1>4. ASSUME NEW msgs \in Seq(DataMessage), Hears(d, e, msgs), Informs(c, msgs)
      PROVE  Following(hist', clock', c, e, l)
  <2> HIDE DEF d, e
  <2> QED BY <1>2, <1>4, FollowingHeard DEF d
<1>5. ASSUME Overhears(d, e) PROVE Following(hist', clock', c, e, l)
  <2>1. PICK msgs \in Seq(DataMessage) : News(msgs) /\ Hears(d, e, msgs)
    BY <1>5 DEF Overhears
  <2> HIDE DEF d, e
  <2>2. Informs(c, msgs)
    BY <1>2, <2>1, NewsInforms
  <2> QED BY <1>4, <2>1, <2>2
<1>6. ASSUME NEW answer \in DataMessage, Settles(answer, diff),
             answer.clientClock = k, Hears(d, e, <<answer>>)
      PROVE  Following(hist', clock', c, e, l)
  <2>1. CASE c.astray
    BY <2>1 DEF Following
  <2>2. ASSUME ~c.astray PROVE Following(hist', clock', c, e, l)
    <3>1. PICK n \in Nat : msg \in Sendable(c, n)
      BY <2>2 DEF Handling
    <3>2. /\ k < c.clientClock
          /\ \A p \in PendingPushes(c) : p.clientClock = k => p.diff = diff
      BY <3>1 DEF Sendable
    <3> HIDE DEF k, diff, presence, d, e
    <3>3. Informs(c, <<answer>>)
      BY <1>2, <1>6, <3>2, AnswerInforms
    <3>4. <<answer>> \in Seq(DataMessage)
      OBVIOUS
    <3> QED BY <1>4, <1>6, <3>3, <3>4
  <2> QED BY <2>1, <2>2
<1> QED BY <1>3, <1>5, <1>6

\* Whatever the room makes of it.
LEMMA HandledFollows ==
    ASSUME InFollowing, NEW s \in SessionIds, NEW c \in Client,
           NEW msg \in ClientMessage, RoomHandles(s, msg),
           NEW l, Following(hist, clock, c, sessions[s], l), Handling(s, c, msg)
    PROVE  /\ Following(hist', clock', c, sessions'[s], l)
           /\ \A t \in SessionIds \ {s} : Overhears(sessions[t], sessions'[t])
<1>1. CASE UNCHANGED vars
  <2>1. UNCHANGED <<hist, clock, sessions>>
    BY <1>1 DEF vars
  <2> QED BY <2>1, InFollowingHas, OverhearsItself DEF SameDocs
<1> QED BY <1>1, AcceptedFollows, PushedFollows DEF RoomHandles

\* The first message of a client that follows.
LEMMA FirstWritten ==
    ASSUME NEW s \in SessionIds, NEW c \in Client, c.out # <<>>, NEW l,
           Following(hist, clock, c, sessions[s], l)
    PROVE  Handling(s, [c EXCEPT !.out = Tail(@)], Head(c.out))
<1> DEFINE e == [c EXCEPT !.out = Tail(@)]
           msg == Head(c.out)
           n == IF c.isConnectedToRoom THEN 0 ELSE c.requests
           d == sessions[s]
<1>1. c.out \in Seq(ClientMessage) /\ c.requests \in Nat
  BY DEF Client
<1>2. /\ msg \in ClientMessage /\ Tail(c.out) \in Seq(ClientMessage)
      /\ Len(c.out) <= 1 => Tail(c.out) = <<>>
  BY <1>1, TailOfOne
<1>3. /\ e \in Client /\ e.clientClock = c.clientClock
      /\ e.pendingPushRequests = c.pendingPushRequests
      /\ e.history = c.history /\ e.store = c.store
      /\ e.speculativeChanges = c.speculativeChanges
      /\ e.isConnectedToRoom = c.isConnectedToRoom
      /\ e.out = Tail(c.out) /\ e.status = c.status /\ e.astray = c.astray
      /\ e.latestConnectRequestId = c.latestConnectRequestId
      /\ e.lastServerClock = c.lastServerClock
  BY <1>2 DEF Client
<1> HIDE DEF e
<1>4. CASE c.astray
  BY <1>3, <1>4 DEF Handling, e
<1>5. ASSUME ~c.astray PROVE Handling(s, e, msg)
  <2>1. Written(c, l) /\ Awaits(hist, clock, c, d)
    BY <1>5 DEF Following, Follows
  <2>2. c.out \in Seq(Sendable(c, n))
    BY <2>1 DEF Written
  <2>3. n \in Nat
    BY <1>1
  <2>4. msg \in Sendable(c, n)
    <3> DEFINE S == Sendable(c, n)
    <3>1. c.out \in Seq(S)
      BY <2>2
    <3> HIDE DEF S
    <3> QED BY <3>1 DEF S
  <2>5. Sendable(e, n) = Sendable(c, n)
    BY <1>3, Alike
  <2>6. ASSUME msg.type = "connect"
        PROVE  /\ ~c.isConnectedToRoom
               /\ c.status = SocketOnline =>
                    /\ \A i \in 1..Len(d.wire) : ~Accepts(c, d.wire[i])
                    /\ Tail(c.out) = <<>> /\ msg.lastServerClock = c.lastServerClock
    <3>1. msg.connectRequestId \in 1..n
      BY <2>4, <2>6 DEF Sendable
    <3>2. ~c.isConnectedToRoom
      BY <3>1
    <3>3. ASSUME c.status = SocketOnline
          PROVE  /\ \A i \in 1..Len(d.wire) : ~Accepts(c, d.wire[i])
                 /\ Tail(c.out) = <<>> /\ msg.lastServerClock = c.lastServerClock
      <4>1. /\ Waits(c)
            /\ \A i \in 1..Len(d.wire) : Accepts(c, d.wire[i]) =>
                 Welcome(hist, clock, c, d.wire[i], Behind(d, i))
        BY <2>1, <3>2, <3>3 DEF Awaits
      <4>2. \A i \in 1..Len(d.wire) : ~Accepts(c, d.wire[i])
        BY <4>1, Zenon DEF Welcome
      <4>3. Len(c.out) = 1 /\ msg.lastServerClock = c.lastServerClock
        BY <4>1 DEF Waits
      <4>4. Tail(c.out) = <<>>
        <5>1. Len(c.out) <= 1
          BY <4>3
        <5> QED BY <1>2, <5>1
      <4> QED BY <4>2, <4>3, <4>4
    <3> QED BY <3>2, <3>3
  <2>7. \A m : Accepts(e, m) <=> Accepts(c, m)
    BY <1>3 DEF Accepts
  <2> HIDE DEF n, msg, d
  <2> QED BY <1>3, <2>3, <2>4, <2>5, <2>6, <2>7 DEF Handling, d
<1> QED BY <1>4, <1>5 DEF e

\* The room receives a client's message.
LEMMA RoomReceiveFollows ==
    ASSUME InFollowing, NEW s \in SessionIds, RoomReceive(s)
    PROVE  Followers'
<1> DEFINE c == clients[s]
           d == sessions[s]
           msg == Head(c.out)
           next == [c EXCEPT !.out = Tail(@)]
<1>1. /\ c \in Client /\ Following(hist, clock, c, d, late[s])
  BY InFollowingHas
<1>2. /\ c.out # <<>> /\ RoomHandles(s, msg)
      /\ clients' = [clients EXCEPT ![s] = next] /\ UNCHANGED late
  BY DEF RoomReceive
<1>3. c.out \in Seq(ClientMessage)
  BY <1>1 DEF Client
<1>4. msg \in ClientMessage /\ Tail(c.out) \in Seq(ClientMessage)
  BY <1>2, <1>3, TailOfOne
<1>5. next \in Client
  BY <1>1, <1>4 DEF Client
<1>6. Handling(s, next, msg)
  BY <1>1, <1>2, FirstWritten
<1>7. Following(hist, clock, next, d, late[s])
  <2> HIDE DEF d
  <2>1. d \in Session
    BY InFollowingHas DEF d
  <2> HIDE DEF c
  <2> QED BY <1>1, <1>2, <2>1, FollowingSent
<1> HIDE DEF next, msg
<1>8. /\ Following(hist', clock', next, sessions'[s], late[s])
      /\ \A t \in SessionIds \ {s} : Overhears(sessions[t], sessions'[t])
  BY <1>2, <1>4, <1>5, <1>6, <1>7, HandledFollows
<1>9. late' = [late EXCEPT ![s] = late[s]]
  BY <1>2 DEF InFollowing, SyncTyping
<1> QED BY <1>2, <1>8, <1>9, OneSessionFollows

\* The first message of an earlier socket of a client that follows.
LEMMA FirstLate ==
    ASSUME NEW s \in SessionIds, NEW c \in Client, NEW l \in Seq(ClientMessage),
           l # <<>>, Following(hist, clock, c, sessions[s], l),
           ~Discards(s, Head(l))
    PROVE  Handling(s, c, Head(l))
<1> DEFINE msg == Head(l)
<1>1. CASE c.astray
  BY <1>1 DEF Handling
<1>2. ASSUME ~c.astray PROVE Handling(s, c, msg)
  <2>1. Written(c, l) /\ Awaits(hist, clock, c, sessions[s])
    BY <1>2 DEF Following, Follows
  <2>2. Earlier(c) \in Nat /\ c.requests \notin 1..Earlier(c)
    BY DEF Client, Earlier
  <2>3. msg \in Sendable(c, Earlier(c))
    <3> DEFINE S == Sendable(c, Earlier(c))
    <3>1. l \in Seq(S)
      BY <2>1 DEF Written
    <3> HIDE DEF S
    <3> QED BY <3>1 DEF S
  <2> HIDE DEF msg
  <2>4. ASSUME msg.type = "connect"
        PROVE  /\ sessions[s].outstanding = <<>>
               /\ msg.connectRequestId \in 1..Earlier(c)
    BY <2>3, <2>4 DEF Discards, Sendable, msg
  <2>5. c.status = SocketOnline /\ ~c.isConnectedToRoom =>
          c.latestConnectRequestId = c.requests
    BY <2>1 DEF Awaits, Waits
  <2> QED BY <2>2, <2>3, <2>4, <2>5 DEF Handling
<1> QED BY <1>1, <1>2

\* The room receives what an earlier socket still delivers.
LEMMA RoomReceiveLateFollows ==
    ASSUME InFollowing, NEW s \in SessionIds, RoomReceiveLate(s)
    PROVE  Followers'
<1> DEFINE c == clients[s]
           d == sessions[s]
           l == late[s]
           msg == Head(l)
           lost == c.astray \/ Discards(s, msg)
           next == [c EXCEPT !.astray = lost]
<1>1. /\ c \in Client /\ Following(hist, clock, c, d, l)
      /\ l \in Seq(ClientMessage)
  BY InFollowingHas
<1>2. /\ l # <<>> /\ RoomHandles(s, msg)
      /\ clients' = [clients EXCEPT ![s] = next]
      /\ late' = [late EXCEPT ![s] = Tail(l)]
  <2>1. clients' = [clients EXCEPT ![s].astray = @ \/ Discards(s, msg)]
    BY DEF RoomReceiveLate
  <2>2. clients' = [clients EXCEPT ![s] = next]
    BY <2>1
  <2> QED BY <2>2 DEF RoomReceiveLate
<1>3. msg \in ClientMessage /\ Tail(l) \in Seq(ClientMessage)
  <2> HIDE DEF l
  <2> QED BY <1>1, <1>2, TailOfOne DEF l
<1>4. c.astray \in BOOLEAN /\ lost \in BOOLEAN
  BY <1>1 DEF Client, Discards
<1>5. next \in Client /\ next.astray = lost
  <2> HIDE DEF lost
  <2> QED BY <1>1, <1>4 DEF Client
<1>6. ~Discards(s, msg) => next = c
  <2>1. ~Discards(s, msg) => lost = c.astray
    BY <1>4
  <2> HIDE DEF lost
  <2> QED BY <1>1, <2>1 DEF Client
<1>7. Following(hist, clock, next, d, Tail(l)) /\ Handling(s, next, msg)
  <2>1. CASE Discards(s, msg)
    BY <1>5, <2>1 DEF Following, Handling
  <2>2. ASSUME ~Discards(s, msg)
        PROVE  Following(hist, clock, next, d, Tail(l)) /\ Handling(s, next, msg)
    <3>1. next = c
      BY <1>6, <2>2
    <3>2. Handling(s, c, msg)
      <4> HIDE DEF c, l
      <4> QED BY <1>1, <1>2, <2>2, FirstLate
    <3>3. Following(hist, clock, c, d, Tail(l))
      <4> HIDE DEF c, d, l
      <4> QED BY <1>1, <1>2, FollowingLess
    <3> HIDE DEF next, msg
    <3> QED BY <3>1, <3>2, <3>3
  <2> QED BY <2>1, <2>2
<1> HIDE DEF next, msg
<1>8. /\ Following(hist', clock', next, sessions'[s], Tail(l))
      /\ \A t \in SessionIds \ {s} : Overhears(sessions[t], sessions'[t])
  BY <1>2, <1>3, <1>5, <1>7, HandledFollows
<1> QED BY <1>2, <1>8, OneSessionFollows

-----------------------------------------------------------------------------
(***************************************************************************)
(* rebase: what the room tells leads a client to a later version.          *)
(***************************************************************************)
\* One event leads to the version that it tells of.
LEMMA ReceiveLeads ==
    ASSUME NEW h, NEW t, NEW k, NEW c \in Client, NEW e \in DataMessage,
           Telling(h, t, c, k, e), DocsOf(c.store) = h[k],
           IsAnswer(e) => /\ c.pendingPushRequests # <<>>
                          /\ Head(c.pendingPushRequests).clientClock = e.clientClock
    PROVE  /\ DocsOf(Receive(c, e).store) = h[e.serverClock]
           /\ PendingPushes(Receive(c, e)) \subseteq PendingPushes(c)
<1> DEFINE reqs == c.pendingPushRequests
           first == Head(reqs)
           diff == EventDiff(e, first.diff)
           next == ApplyNetworkDiff(c.store, diff)
           rest == IF IsAnswer(e) THEN Tail(reqs) ELSE reqs
<1>1. Receive(c, e) = [c EXCEPT !.store = next, !.pendingPushRequests = rest]
  BY DEF Receive, EventDiff
<1>2. Receive(c, e).store = next /\ Receive(c, e).pendingPushRequests = rest
  <2> HIDE DEF next, rest
  <2> QED BY <1>1 DEF Client
<1>3. reqs \in Seq(DocRequest) /\ c.store \in Stores
  BY DEF Client
<1>4. DocsOf(next) = ApplyNetworkDiff(h[k], diff)
  BY <1>3, DocsDiff
<1>5. CASE ~IsAnswer(e)
  <2>1. diff = e.diff /\ rest = reqs
    BY <1>5 DEF EventDiff
  <2>2. h[e.serverClock] = ApplyNetworkDiff(h[k], e.diff)
    BY <1>5 DEF Telling
  <2> HIDE DEF diff, next, rest
  <2> QED BY <1>2, <1>4, <2>1, <2>2 DEF PendingPushes
<1>6. CASE IsAnswer(e)
  <2> DEFINE p == [clientClock |-> first.clientClock, diff |-> first.diff]
  <2>1. /\ Len(reqs) \in Nat /\ Len(reqs) >= 1 /\ first = reqs[1]
        /\ Len(Tail(reqs)) = Len(reqs) - 1
        /\ \A i \in 1..Len(reqs) - 1 : Tail(reqs)[i] = reqs[i + 1]
    <3>1. reqs # <<>>
      BY <1>6
    <3> HIDE DEF reqs
    <3> QED BY <1>3, <3>1
  <2>2. p \in PendingPushes(c)
    <3>1. 1 \in 1..Len(reqs)
      BY <2>1
    <3> QED BY <2>1, <3>1 DEF PendingPushes
  <2>3. p.clientClock = e.clientClock /\ p.diff = first.diff
    BY <1>6
  <2>4. h[e.serverClock] = ApplyNetworkDiff(h[k], diff)
    <3> HIDE DEF p
    <3> QED BY <1>6, <2>2, <2>3 DEF Telling
  <2>5. rest = Tail(reqs)
    BY <1>6
  <2> HIDE DEF diff, next, rest, first, p
  <2>6. PendingPushes(Receive(c, e)) \subseteq PendingPushes(c)
    <3> SUFFICES ASSUME NEW q \in PendingPushes(Receive(c, e))
                 PROVE  q \in PendingPushes(c)
      OBVIOUS
    <3>1. PICK i \in 1..Len(rest) : q = [clientClock |-> rest[i].clientClock,
                                         diff |-> rest[i].diff]
      BY <1>2 DEF PendingPushes
    <3>2. i + 1 \in 1..Len(reqs) /\ rest[i] = reqs[i + 1]
      BY <2>1, <2>5
    <3> QED BY <3>1, <3>2 DEF PendingPushes
  <2> QED BY <1>2, <1>4, <2>4, <2>6
<1> QED BY <1>5, <1>6

\* The first of some events, and the others.
LEMMA FirstEvent ==
    ASSUME NEW c \in Client, NEW events \in Seq(DataMessage), events # <<>>,
           Matched(AnsweredBy(events), c.pendingPushRequests)
    PROVE  LET e == Head(events)
           IN  /\ e \in DataMessage /\ Tail(events) \in Seq(DataMessage)
               /\ Len(Tail(events)) = Len(events) - 1
               /\ events = <<e>> \o Tail(events)
               /\ IsAnswer(e) => /\ c.pendingPushRequests # <<>>
                                 /\ Head(c.pendingPushRequests).clientClock = e.clientClock
               /\ Matched(AnsweredBy(Tail(events)),
                          IF IsAnswer(e) THEN Tail(c.pendingPushRequests)
                          ELSE c.pendingPushRequests)
<1> DEFINE e == Head(events)
           rest == Tail(events)
           reqs == c.pendingPushRequests
           later == AnsweredBy(rest)
           clk == e.clientClock
           clocks == IF IsAnswer(e) THEN <<clk>> \o later ELSE later
<1>1. /\ e \in DataMessage /\ rest \in Seq(DataMessage)
      /\ Len(rest) = Len(events) - 1 /\ events = <<e>> \o rest
  BY HeadRest
<1>2. AnsweredBy(events) = clocks
  <2>1. <<e>> \in Seq(DataMessage)
    BY <1>1
  <2>2. AnsweredBy(<<e>> \o rest) = AnsweredBy(<<e>>) \o later
    BY <1>1, <2>1, AnsweredConcat
  <2>3. AnsweredBy(<<e>>) = IF IsAnswer(e) THEN <<clk>> ELSE <<>>
    BY <1>1, AnsweredOne
  <2>4. later \in Seq(Nat)
    BY <1>1, AnsweredByType
  <2>6. <<>> \o later = later
    BY <2>4
  <2> HIDE DEF e, rest, later, clk
  <2> QED BY <1>1, <2>2, <2>3, <2>6
<1>3. reqs \in Seq(DocRequest)
  BY DEF Client
<1>4. later \in Seq(Nat)
  BY <1>1, AnsweredByType
<1>5. Matched(clocks, reqs)
  BY <1>2
<1> HIDE DEF e, rest, reqs, later, clk
<1>6. ASSUME IsAnswer(e)
      PROVE  /\ reqs # <<>> /\ Head(reqs).clientClock = clk
             /\ Matched(later, Tail(reqs))
  <2>1. /\ Len(clocks) = Len(later) + 1 /\ Len(later) \in Nat /\ clocks[1] = clk
        /\ \A i \in 1..Len(later) : clocks[i + 1] = later[i]
    BY <1>4, <1>6
  <2> HIDE DEF clocks
  <2>2. Len(reqs) >= 1 /\ Len(reqs) \in Nat /\ 1 \in 1..Len(clocks)
    BY <1>3, <1>5, <2>1 DEF Matched
  <2>3. reqs # <<>> /\ Head(reqs) = reqs[1]
    BY <1>3, <2>2
  <2>4. /\ Len(Tail(reqs)) = Len(reqs) - 1
        /\ \A i \in 1..Len(reqs) - 1 : Tail(reqs)[i] = reqs[i + 1]
    BY <1>3, <2>3
  <2>5. Head(reqs).clientClock = clk
    BY <1>5, <2>1, <2>2, <2>3 DEF Matched
  <2>6. Len(later) <= Len(Tail(reqs))
    BY <1>5, <2>1, <2>2, <2>4 DEF Matched
  <2>7. ASSUME NEW i \in 1..Len(later) PROVE later[i] = Tail(reqs)[i].clientClock
    <3>1. i + 1 \in 1..Len(clocks) /\ i \in 1..Len(reqs) - 1
      BY <2>1, <2>2, <2>4, <2>6
    <3>2. clocks[i + 1] = reqs[i + 1].clientClock
      BY <1>5, <3>1 DEF Matched
    <3> QED BY <2>1, <2>4, <3>1, <3>2
  <2> QED BY <2>3, <2>5, <2>6, <2>7 DEF Matched
<1>7. ~IsAnswer(e) => Matched(later, reqs)
  BY <1>5
<1> QED BY <1>1, <1>6, <1>7 DEF e, rest, reqs, later, clk

\* All of them lead to the version that the last one tells of.
LEMMA ReceiveAllLeads ==
    ASSUME NEW h, NEW t
    PROVE  \A n \in Nat : \A c \in Client : \A events \in Seq(DataMessage) : \A k :
             /\ Len(events) = n /\ Tells(h, t, c, k, events)
             /\ DocsOf(c.store) = h[k]
             /\ Matched(AnsweredBy(events), c.pendingPushRequests)
             => /\ DocsOf(FoldLeft(Receive, c, events).store) = h[EndOf(k, events)]
                /\ PendingPushes(FoldLeft(Receive, c, events)) \subseteq PendingPushes(c)
<1> DEFINE Fine(c, events, k) ==
             /\ Tells(h, t, c, k, events) /\ DocsOf(c.store) = h[k]
             /\ Matched(AnsweredBy(events), c.pendingPushRequests)
           Leading(c, events, k) ==
             /\ DocsOf(Receiving!Fold(c, events).store) = h[EndOf(k, events)]
             /\ PendingPushes(Receiving!Fold(c, events)) \subseteq PendingPushes(c)
           S == {n \in Nat : \A c \in Client : \A events \in Seq(DataMessage) : \A k :
                   Len(events) = n /\ Fine(c, events, k) => Leading(c, events, k)}
<1>1. 0 \in S
  <2> SUFFICES ASSUME NEW c \in Client, NEW events \in Seq(DataMessage), NEW k,
                      Len(events) = 0, Fine(c, events, k)
               PROVE  Leading(c, events, k)
    OBVIOUS
  <2>1. events = <<>>
    OBVIOUS
  <2>2. Receiving!Fold(c, <<>>) = c
    BY Receiving!FoldEmpty
  <2>3. EndOf(k, <<>>) = k
    BY TellsNothing
  <2> QED BY <2>1, <2>2, <2>3
<1>2. ASSUME NEW n \in Nat, n \in S PROVE n + 1 \in S
  <2> SUFFICES ASSUME NEW c \in Client, NEW events \in Seq(DataMessage), NEW k,
                      Len(events) = n + 1, Fine(c, events, k)
               PROVE  Leading(c, events, k)
    OBVIOUS
  <2> DEFINE e == Head(events)
             rest == Tail(events)
             d == Receive(c, e)
             j == e.serverClock
             reqs == c.pendingPushRequests
  <2>1. events # <<>>
    BY <1>2
  <2>2. /\ e \in DataMessage /\ rest \in Seq(DataMessage)
        /\ Len(rest) = n /\ events = <<e>> \o rest
        /\ IsAnswer(e) => reqs # <<>> /\ Head(reqs).clientClock = e.clientClock
        /\ Matched(AnsweredBy(rest), IF IsAnswer(e) THEN Tail(reqs) ELSE reqs)
    <3>1. Matched(AnsweredBy(events), reqs)
      OBVIOUS
    <3>2. Len(events) - 1 = n
      BY <1>2
    <3> HIDE DEF Fine
    <3> QED BY <2>1, <3>1, <3>2, FirstEvent
  <2>3. <<e>> \in Seq(DataMessage)
    BY <2>2
  <2>4. Telling(h, t, c, k, e)
    <3>1. Tells(h, t, c, k, events) /\ ClockAt(k, events, 0) = k
      BY DEF ClockAt
    <3>2. 1 \in 1..Len(events) /\ events[1] = e /\ 1 - 1 = 0
      BY <1>2, <2>1
    <3> HIDE DEF e, Fine
    <3>3. Telling(h, t, c, ClockAt(k, events, 1 - 1), events[1])
      BY <3>1, <3>2, Zenon DEF Tells
    <3> QED BY <3>1, <3>2, <3>3
  <2>5. /\ EndOf(k, <<e>>) = j /\ EndOf(k, events) = EndOf(j, rest)
        /\ Tells(h, t, c, j, rest)
    <3>1. EndOf(k, <<e>>) = j
      BY <2>4, TellsOne
    <3>2. Tells(h, t, c, k, <<e>> \o rest)
      BY <2>2
    <3> HIDE DEF e, rest, j, Fine
    <3> QED BY <2>2, <2>3, <3>1, <3>2, TellsMore
  <2>6. /\ d \in Client /\ d.clientClock = c.clientClock
        /\ d.pendingPushRequests = IF IsAnswer(e) THEN Tail(reqs) ELSE reqs
    <3>1. /\ d \in Client
          /\ d = [c EXCEPT !.store = d.store,
                           !.pendingPushRequests = IF IsAnswer(e) THEN Tail(@) ELSE @]
      <4> HIDE DEF e
      <4> QED BY <2>2, ReceiveType
    <3> HIDE DEF d
    <3> QED BY <3>1 DEF Client
  <2>7. DocsOf(d.store) = h[j] /\ PendingPushes(d) \subseteq PendingPushes(c)
    <3>1. DocsOf(c.store) = h[k]
      OBVIOUS
    <3> HIDE DEF e, Fine
    <3> QED BY <2>2, <2>4, <3>1, ReceiveLeads
  <2> HIDE DEF e, rest, d, j, reqs
  <2>8. Tells(h, t, d, j, rest)
    <3>1. NumbersOn(c, d)
      BY <2>6, <2>7, NumbersFewer
    <3> QED BY <2>2, <2>5, <2>6, <3>1, TellsNumberedOn
  <2>9. Fine(d, rest, j)
    BY <2>2, <2>6, <2>7, <2>8
  <2>10. Leading(d, rest, j)
    BY <1>2, <2>2, <2>6, <2>9
  <2>11. Receiving!Fold(c, events) = Receiving!Fold(d, rest)
    BY <2>1, Receiving!FoldTail DEF d, e, rest
  <2> QED BY <2>5, <2>7, <2>10, <2>11
<1> HIDE DEF S
<1>3. Nat \subseteq S
  BY <1>1, <1>2, Receiving!SetInduction
<1> QED BY <1>3, ClientFolds DEF S

\* What the loop over the pending requests has come to: x, from base.
Redone(acc, base, x) ==
    \/ acc.failed
    \/ Leads(base, acc.changes, DocsOf(acc.store)) /\ DocsOf(acc.store) = x

\* A request that is applied again.
LEMMA ReapplyLeads ==
    ASSUME NEW acc \in Again, NEW req \in DocRequest, NEW base, NEW x,
           Redone(acc, base, x)
    PROVE  Redone(Reapply(acc, req), base, ApplyRequest(x, req))
<1> DEFINE next == ApplyNetworkDiff(acc.store, req.diff)
           difference == Between(acc.store, next)
           squashed == Squash(acc.changes, difference)
           written == WrittenBeforeFailure(acc.store, req.diff, acc.early)
<1>1. acc.store \in Stores /\ acc.changes \in DocChanges /\ req.diff \in DocDiffs
  BY DEF Again, DocRequest
<1>2. next \in Stores /\ \A p \in RecordIds \ Ids : next[p] = acc.store[p]
  BY <1>1, ApplyDocDiff
<1>3. DocsOf(next) = ApplyNetworkDiff(DocsOf(acc.store), req.diff)
  BY <1>1, DocsDiff
<1>4. Leads(DocsOf(acc.store), difference, DocsOf(next))
  <2> HIDE DEF next
  <2> QED BY <1>1, <1>2, BetweenDocs
<1>5. \/ acc.failed /\ Reapply(acc, req) = acc
      \/ Reapply(acc, req) = [acc EXCEPT !.failed = TRUE, !.store = written]
      \/ /\ ~acc.failed
         /\ Reapply(acc, req) = [acc EXCEPT !.store = next, !.changes = squashed]
  BY DEF Reapply
<1> HIDE DEF next, difference, squashed, written
<1>6. CASE acc.failed /\ Reapply(acc, req) = acc
  BY <1>6 DEF Redone
<1>7. CASE Reapply(acc, req) = [acc EXCEPT !.failed = TRUE, !.store = written]
  <2>1. Reapply(acc, req).failed
    BY <1>7 DEF Again
  <2> QED BY <2>1 DEF Redone
<1>8. CASE /\ ~acc.failed
           /\ Reapply(acc, req) = [acc EXCEPT !.store = next, !.changes = squashed]
  <2>1. Reapply(acc, req).store = next /\ Reapply(acc, req).changes = squashed
    BY <1>8 DEF Again
  <2>2. Leads(base, acc.changes, DocsOf(acc.store)) /\ DocsOf(acc.store) = x
    BY <1>8 DEF Redone
  <2>3. Leads(base, squashed, DocsOf(next))
    BY <1>4, <2>2, SquashLeads DEF squashed
  <2>4. DocsOf(next) = ApplyRequest(x, req)
    BY <1>3, <2>2 DEF ApplyRequest
  <2> QED BY <2>1, <2>3, <2>4 DEF Redone
<1> QED BY <1>5, <1>6, <1>7, <1>8

\* All the pending requests.
LEMMA ReapplyAllLeads ==
    ASSUME NEW first \in Again, NEW reqs \in Seq(DocRequest), NEW base, NEW x,
           Redone(first, base, x)
    PROVE  /\ Reapplying!Fold(first, reqs) \in Again
           /\ Redone(Reapplying!Fold(first, reqs), base, Requesting!Fold(x, reqs))
<1> DEFINE n == Len(reqs)
<1>1. PICK acc : /\ acc[0] = first
                 /\ \A i \in 1..Len(reqs) : acc[i] = Reapply(acc[i - 1], reqs[i])
                 /\ Reapplying!Fold(first, reqs) = acc[Len(reqs)]
  BY Reapplying!FoldTrace
<1>2. PICK steps : /\ steps[0] = x
                   /\ \A i \in 1..Len(reqs) :
                        steps[i] = ApplyRequest(steps[i - 1], reqs[i])
                   /\ Requesting!Fold(x, reqs) = steps[Len(reqs)]
  BY Requesting!FoldTrace
<1>3. n \in Nat /\ \A i \in 1..n : reqs[i] \in DocRequest
  OBVIOUS
<1> DEFINE S == {i \in Nat : i <= n => acc[i] \in Again /\ Redone(acc[i], base, steps[i])}
<1> HIDE DEF n
<1>4. 0 \in S
  BY <1>1, <1>2
<1>5. ASSUME NEW i \in Nat, i \in S PROVE i + 1 \in S
  <2> SUFFICES ASSUME i + 1 <= n
               PROVE  acc[i + 1] \in Again /\ Redone(acc[i + 1], base, steps[i + 1])
    OBVIOUS
  <2>1. i + 1 \in 1..n /\ i <= n /\ (i + 1) - 1 = i
    BY <1>3
  <2>2. acc[i] \in Again /\ Redone(acc[i], base, steps[i])
    BY <1>5, <2>1
  <2>3. /\ acc[i + 1] = Reapply(acc[i], reqs[i + 1]) /\ reqs[i + 1] \in DocRequest
        /\ steps[i + 1] = ApplyRequest(steps[i], reqs[i + 1])
    BY <1>1, <1>2, <1>3, <2>1 DEF n
  <2> QED BY <2>2, <2>3, ReapplyType, ReapplyLeads
<1> HIDE DEF S
<1>6. Nat \subseteq S
  BY <1>4, <1>5, Reapplying!SetInduction
<1>7. acc[n] \in Again /\ Redone(acc[n], base, steps[n])
  BY <1>3, <1>6 DEF S
<1> QED BY <1>1, <1>2, <1>7 DEF n

\* A client that has got to the end of its buffer goes on from there.
LEMMA FollowingGetsOn ==
    ASSUME NEW h, NEW t, Versions(h, t), NEW c \in Client, NEW e \in Client,
           NEW d \in Session, NEW l, c.isConnectedToRoom, Follows(h, t, c, d, l),
           e.history = <<>>, e.incomingDiffBuffer = <<>>,
           e.lastServerClock = EndOf(c.lastServerClock, c.incomingDiffBuffer),
           e.isConnectedToRoom, e.status = c.status, e.out = c.out,
           e.requests = c.requests, e.loaded = c.loaded,
           e.latestConnectRequestId = c.latestConnectRequestId,
           e.clientClock = c.clientClock,
           PendingPushes(e) \subseteq PendingPushes(c),
           Shown(e, h[e.lastServerClock], DocsOf(e.store))
    PROVE  Follows(h, t, e, d, l)
<1> DEFINE k == c.lastServerClock
           j == e.lastServerClock
           buffer == c.incomingDiffBuffer
           data == SessionData(d)
<1>1. /\ Copied(h, t, c) /\ Written(c, l) /\ Requested(d) /\ HearsAll(h, t, c, d)
  BY DEF Follows
<1>2. /\ c.status = SocketOnline /\ c.latestConnectRequestId = NoRequest
      /\ Attended(d) /\ Tells(h, t, c, k, buffer \o data)
      /\ Listening(d) => h[EndOf(k, buffer \o data)] = h[t]
  BY <1>1 DEF HearsAll, Story
<1>3. buffer \in Seq(DataMessage) /\ data \in Seq(DataMessage)
  BY SessionDataType DEF Client
<1>4. k \in 0..t /\ t \in Nat /\ Numbered(c) /\ c.loaded
  BY <1>1 DEF Copied, Versions
<1>5. NumbersOn(c, e)
  BY NumbersFewer
<1>6. j = EndOf(k, buffer)
  OBVIOUS
<1> HIDE DEF k, j, buffer, data
<1>7. /\ Tells(h, t, c, k, buffer) /\ Tells(h, t, c, j, data)
      /\ EndOf(k, buffer \o data) = EndOf(j, data)
  BY <1>2, <1>3, <1>6, TellsMore
<1>8. j \in 0..t
  BY <1>3, <1>4, <1>6, <1>7, TellsWhen
<1>9. Copied(h, t, e)
  <2>1. DocsOf(e.store) \in Docs
    BY DocsAre DEF Client
  <2>2. Path(e.history, DocsOf(e.store), DocsOf(e.store))
    BY <2>1, PathEmpty
  <2>3. Ahead(e, h[j])
    BY <2>1, <2>2 DEF Ahead, j
  <2>4. Numbered(e)
    BY <1>4, <1>5 DEF NumbersOn
  <2> QED BY <1>4, <1>8, <2>3, <2>4 DEF Copied, j
<1>10. Written(e, l)
  <2>1. Earlier(c) \in Nat /\ Earlier(e) = Earlier(c)
    BY DEF Earlier, Client
  <2>2. c.out \in Seq(Sendable(c, 0)) /\ l \in Seq(Sendable(c, Earlier(c)))
    BY <1>1 DEF Written
  <2>3. c.out \in Seq(Sendable(e, 0)) /\ l \in Seq(Sendable(e, Earlier(c)))
    BY <1>5, <2>1, <2>2, StillSendable
  <2> QED BY <2>1, <2>3 DEF Written
<1>11. HearsAll(h, t, e, d)
  <2>1. Tells(h, t, e, j, data)
    BY <1>3, <1>5, <1>7, TellsNumberedOn
  <2>2. <<>> \o data = data
    BY <1>3
  <2>3. Story(h, t, e, j, <<>> \o data, Listening(d))
    BY <1>2, <1>7, <2>1, <2>2 DEF Story
  <2> QED BY <1>2, <2>3 DEF HearsAll, j, data
<1>12. Awaits(h, t, e, d)
  BY DEF Awaits
<1> QED BY <1>1, <1>9, <1>10, <1>11, <1>12 DEF Follows

\* resetConnection lets the pending requests go, whatever they are.
LEMMA ResetForgets ==
    ASSUME NEW c \in Client
    PROVE  LET z == [c EXCEPT !.pendingPushRequests = <<>>]
           IN  z \in Client /\ ResetConnection(z, FALSE) = ResetConnection(c, FALSE)
<1> DEFINE z == [c EXCEPT !.pendingPushRequests = <<>>]
           next == [id \in RecordIds |-> IF id \in PresenceIds THEN Absent
                                         ELSE c.store[id]]
           history == IF c.store = next \/ c.history = <<>> THEN c.history
                      ELSE Append(c.history, NoChanges)
           status == IF c.status = SocketOnline THEN SocketOffline ELSE c.status
           there == [c EXCEPT !.store = next, !.history = history]
           thereToo == [z EXCEPT !.store = next, !.history = history]
           reset == [there EXCEPT !.lastServerClock = c.lastServerClock,
                                  !.lastPushedPresenceState = Absent,
                                  !.isConnectedToRoom = FALSE,
                                  !.pendingPushRequests = <<>>,
                                  !.incomingDiffBuffer = <<>>,
                                  !.status = status]
           resetToo == [thereToo EXCEPT !.lastServerClock = c.lastServerClock,
                                  !.lastPushedPresenceState = Absent,
                                  !.isConnectedToRoom = FALSE,
                                  !.pendingPushRequests = <<>>,
                                  !.incomingDiffBuffer = <<>>,
                                  !.status = status]
<1>1. /\ z \in Client /\ z.store = c.store /\ z.history = c.history
      /\ z.lastServerClock = c.lastServerClock /\ z.status = c.status
  <2>1. <<>> \in Seq(DocRequest)
    OBVIOUS
  <2> QED BY <2>1 DEF Client
<1>2. RemoteChange(c, next) = there /\ RemoteChange(z, next) = thereToo
  <2> HIDE DEF next, z
  <2> QED BY <1>1 DEF RemoteChange
<1>3. /\ there.lastServerClock = c.lastServerClock /\ there.status = c.status
      /\ thereToo.lastServerClock = c.lastServerClock /\ thereToo.status = c.status
  <2> HIDE DEF next, history, z
  <2> QED BY <1>1 DEF Client
<1>4. next = [id \in RecordIds |-> IF id \in PresenceIds THEN Absent ELSE z.store[id]]
  BY <1>1
<1>5. ResetConnection(c, FALSE) = reset /\ ResetConnection(z, FALSE) = resetToo
  <2>1. ResetConnection(c, FALSE)
          = [RemoteChange(c, next)
               EXCEPT !.lastServerClock = IF FALSE THEN 0 ELSE @,
                      !.lastPushedPresenceState = Absent,
                      !.isConnectedToRoom = FALSE,
                      !.pendingPushRequests = <<>>,
                      !.incomingDiffBuffer = <<>>,
                      !.status = IF @ = SocketOnline THEN SocketOffline ELSE @]
    BY DEF ResetConnection
  <2>2. ResetConnection(z, FALSE)
          = [RemoteChange(z, next)
               EXCEPT !.lastServerClock = IF FALSE THEN 0 ELSE @,
                      !.lastPushedPresenceState = Absent,
                      !.isConnectedToRoom = FALSE,
                      !.pendingPushRequests = <<>>,
                      !.incomingDiffBuffer = <<>>,
                      !.status = IF @ = SocketOnline THEN SocketOffline ELSE @]
    BY <1>4 DEF ResetConnection
  <2> HIDE DEF next, there, thereToo, z
  <2> QED BY <1>2, <1>3, <2>1, <2>2
<1>6. reset = resetToo
  <2> HIDE DEF next, history, status
  <2> QED BY DEF Client
<1> HIDE DEF z, reset, resetToo
<1> QED BY <1>1, <1>5, <1>6 DEF z

\* rebase, where the answers are for the requests at the front.
LEMMA RebaseOntoFollows ==
    ASSUME NEW h, NEW t, Versions(h, t), NEW c \in Client, NEW d \in Session,
           NEW l, NEW early \in SUBSET Ids, AnswersMatch(c), c.history = <<>>,
           c.incomingDiffBuffer # <<>>, Following(h, t, c, d, l)
    PROVE  Following(h, t, RebaseOnto(c, early), d, l)
<1> DEFINE events == c.incomingDiffBuffer
           undoneStore == ApplyChanges(c.store, ReverseRecordsDiff(c.speculativeChanges))
           undone == [c EXCEPT !.store = undoneStore]
           received == FoldLeft(Receive, undone, events)
           left == received.pendingPushRequests
           first == [store |-> received.store, changes |-> NoChanges,
                     failed |-> FALSE, early |-> early]
           again == FoldLeft(Reapply, first, left)
           there == RemoteChange(c, again.store)
           changes == IF again.failed THEN NoChanges ELSE again.changes
           atClock == Last(events).serverClock
           lost == again.failed /\ again.store # received.store
           astray == there.astray \/ lost
           rebased == [there EXCEPT
                         !.pendingPushRequests = left,
                         !.speculativeChanges = changes,
                         !.incomingDiffBuffer = <<>>,
                         !.lastServerClock = atClock,
                         !.astray = astray]
           reset == ResetConnection(rebased, FALSE)
           k == c.lastServerClock
           j == EndOf(k, events)
<1>1. /\ c.store \in Stores /\ c.speculativeChanges \in DocChanges
      /\ events \in Seq(DataMessage) /\ events # <<>>
  BY DEF Client
<1>2. undoneStore \in Stores
  BY <1>1, ReverseDocChanges, ApplyDocChanges
<1>3. /\ undone \in Client /\ undone.pendingPushRequests = c.pendingPushRequests
      /\ undone.clientClock = c.clientClock /\ undone.store = undoneStore
  <2> HIDE DEF undoneStore
  <2> QED BY <1>2 DEF Client
<1>4. Matched(AnsweredBy(events), undone.pendingPushRequests)
  <2>1. AnsweredBy(events) \in Seq(Nat)
    BY <1>1, AnsweredByType
  <2>2. DOMAIN AnsweredBy(events) = 1..Len(AnsweredBy(events))
    BY <2>1
  <2> QED BY <1>3, <2>2 DEF AnswersMatch, Matched
<1>5. /\ received \in Client
  <2> HIDE DEF undone
  <2> QED BY <1>1, <1>3, <1>4, ReceiveAll DEF Matched
<1>6. NoChanges \in DocChanges
  BY NoChangesInDiffs DEF DocChanges
<1> HIDE DEF received
<1>7. received.store \in Stores /\ left \in Seq(DocRequest) /\ first \in Again
  BY <1>5, <1>6 DEF Again, Client
<1>8. /\ first.store = received.store /\ first.changes = NoChanges
      /\ again = Reapplying!Fold(first, left)
  BY ClientFolds
<1> HIDE DEF again, first
<1>9. again \in Again
  <2> HIDE DEF left
  <2> QED BY <1>7, <1>8, ReapplyType, Reapplying!FoldKeeps
<1>10. /\ there \in Client /\ there.history = <<>> /\ there.store = again.store
       /\ there.astray = c.astray /\ there.status = c.status /\ there.out = c.out
       /\ there.isConnectedToRoom = c.isConnectedToRoom
       /\ there.requests = c.requests /\ there.loaded = c.loaded
       /\ there.latestConnectRequestId = c.latestConnectRequestId
       /\ there.clientClock = c.clientClock
  <2>1. there \in Client
    BY <1>9, RemoteChangeType DEF Again
  <2>2. there = [c EXCEPT !.store = again.store, !.history = c.history]
    BY DEF RemoteChange
  <2> HIDE DEF there
  <2> QED BY <2>1, <2>2 DEF Client
<1>11. /\ changes \in DocChanges /\ atClock \in Nat /\ astray \in BOOLEAN
       /\ <<>> \in Seq(DataMessage)
  <2>1. Last(events) \in DataMessage
    BY <1>1 DEF Last
  <2>2. atClock \in Nat
    BY <2>1 DEF DataMessage
  <2>3. astray \in BOOLEAN
    BY <1>9, <1>10 DEF Again, Client
  <2> QED BY <1>6, <1>9, <2>2, <2>3 DEF Again, Client
<1>12. RebaseOnto(c, early) = IF again.failed THEN reset ELSE rebased
  BY DEF RebaseOnto, received, again, first
<1> HIDE DEF changes, atClock, astray, there, left, undone, undoneStore
<1>13. /\ rebased \in Client /\ rebased.store = again.store /\ rebased.history = <<>>
       /\ rebased.pendingPushRequests = left /\ rebased.speculativeChanges = changes
       /\ rebased.incomingDiffBuffer = <<>> /\ rebased.lastServerClock = atClock
       /\ rebased.astray = astray /\ rebased.status = c.status
       /\ rebased.out = c.out /\ rebased.isConnectedToRoom = c.isConnectedToRoom
       /\ rebased.requests = c.requests /\ rebased.loaded = c.loaded
       /\ rebased.latestConnectRequestId = c.latestConnectRequestId
       /\ rebased.clientClock = c.clientClock
  BY <1>7, <1>10, <1>11 DEF Client
<1> HIDE DEF rebased, reset
<1>14. LetsGo(rebased, reset) /\ reset.astray = rebased.astray
  BY <1>13, ResetLetsGo DEF reset, LetsGo
<1>15. c.astray \/ lost => rebased.astray /\ reset.astray
  BY <1>10, <1>13, <1>14 DEF astray
<1>16. CASE c.astray \/ lost
  BY <1>12, <1>15, <1>16 DEF Following, lost
<1>17. ASSUME ~c.astray, ~lost PROVE Following(h, t, RebaseOnto(c, early), d, l)
  <2>1. Follows(h, t, c, d, l)
    BY <1>17 DEF Following
  <2>2. /\ c.isConnectedToRoom /\ Copied(h, t, c)
        /\ Tells(h, t, c, k, events \o SessionData(d))
    <3>1. Copied(h, t, c) /\ Written(c, l) /\ HearsAll(h, t, c, d)
      BY <2>1 DEF Follows
    <3>2. c.isConnectedToRoom
      BY <3>1 DEF Written
    <3> QED BY <3>1, <3>2 DEF HearsAll, Story
  <2>3. k \in 0..t /\ Ahead(c, h[k]) /\ h[k] \in Docs /\ t \in Nat
    BY <2>2 DEF Copied, Versions
  <2>4. DocsOf(undoneStore) = h[k]
    <3>1. PICK x \in Docs : /\ Leads(h[k], c.speculativeChanges, x)
                            /\ Path(<<>>, x, DocsOf(c.store))
      BY <2>3 DEF Ahead, Shown
    <3>2. DocsOf(c.store) = x
      BY <3>1, PathEmpty
    <3> HIDE DEF k
    <3> QED BY <1>1, <2>3, <3>1, <3>2, DocsChange DEF undoneStore
  <2>5. Tells(h, t, c, k, events) /\ j \in 0..t
    <3>1. SessionData(d) \in Seq(DataMessage)
      BY SessionDataType
    <3> DEFINE data == SessionData(d)
    <3> HIDE DEF k, events, data
    <3>2. Tells(h, t, c, k, events)
      BY <1>1, <2>2, <3>1, TellsMore DEF data
    <3> QED BY <1>1, <2>3, <3>2, TellsWhen
  <2>6. /\ DocsOf(received.store) = h[j]
        /\ PendingPushes(received) \subseteq PendingPushes(c)
    <3>1. PendingPushes(undone) = PendingPushes(c)
      BY <1>3 DEF PendingPushes
    <3>2. NumbersOn(c, undone)
      BY <1>3, <3>1, NumbersFewer
    <3>3. Len(events) \in Nat
      BY <1>1
    <3> HIDE DEF k, events
    <3>4. Tells(h, t, undone, k, events)
      BY <1>1, <1>3, <2>5, <3>2, TellsNumberedOn
    <3> QED BY <1>1, <1>3, <1>4, <2>4, <3>1, <3>3, <3>4, ReceiveAllLeads DEF received
  <2>7. h[j] \in Docs /\ atClock = j
    <3>1. h[j] \in Docs
      BY <2>5 DEF Versions
    <3>2. Len(events) # 0
      BY <1>1
    <3>3. atClock = j
      BY <3>2 DEF EndOf, ClockAt, Last, atClock
    <3> QED BY <3>1, <3>3
  <2>8. Redone(again, h[j], Requesting!Fold(h[j], left))
    <3> DEFINE base == h[j]
    <3>1. Redone(first, base, base)
      BY <1>8, <2>6, <2>7, NoChangesLead DEF Redone
    <3> HIDE DEF base, left
    <3> QED BY <1>7, <1>8, <3>1, ReapplyAllLeads DEF base
  <2>9. PendingPushes(rebased) \subseteq PendingPushes(c)
    BY <1>13, <2>6 DEF PendingPushes, left
  <2> HIDE DEF k, j, events
  <2>10. CASE ~again.failed
    <3>1. /\ Leads(h[j], changes, DocsOf(again.store))
          /\ DocsOf(again.store) = Requesting!Fold(h[j], left)
      BY <2>8, <2>10 DEF Redone, changes
    <3>2. Shown(rebased, h[j], DocsOf(rebased.store))
      BY <1>13, <3>1, WithPendingIs DEF Shown
    <3>3. Follows(h, t, rebased, d, l)
      BY <1>13, <2>1, <2>2, <2>7, <2>9, <3>2, FollowingGetsOn DEF k, j, events
    <3> QED BY <1>12, <2>10, <3>3 DEF Following
  <2>11. CASE again.failed
    <3> DEFINE z == [rebased EXCEPT !.pendingPushRequests = <<>>]
    <3>1. z \in Client /\ ResetConnection(z, FALSE) = reset
      BY <1>13, ResetForgets DEF reset
    <3>2. /\ z.store = received.store /\ z.history = <<>>
          /\ z.pendingPushRequests = <<>> /\ z.speculativeChanges = NoChanges
          /\ z.incomingDiffBuffer = <<>> /\ z.lastServerClock = j
          /\ z.status = c.status
          /\ z.out = c.out /\ z.isConnectedToRoom = c.isConnectedToRoom
          /\ z.requests = c.requests /\ z.loaded = c.loaded
          /\ z.latestConnectRequestId = c.latestConnectRequestId
          /\ z.clientClock = c.clientClock
      <4>1. again.store = received.store /\ changes = NoChanges
        BY <1>17, <2>11 DEF lost, changes
      <4> QED BY <1>13, <2>7, <4>1 DEF Client
    <3> HIDE DEF z
    <3>3. Shown(z, h[j], DocsOf(z.store))
      BY <2>6, <2>7, <3>1, <3>2, NoChangesLead, WithPendingMore DEF Shown
    <3>4. PendingPushes(z) \subseteq PendingPushes(c)
      BY <3>2 DEF PendingPushes
    <3>5. Follows(h, t, z, d, l)
      BY <2>1, <2>2, <3>1, <3>2, <3>3, <3>4, FollowingGetsOn DEF k, j, events
    <3>6. LetsGo(z, reset)
      BY <3>1, ResetLetsGo
    <3>7. reset \in Client
      BY <1>13, ResetConnectionType DEF reset
    <3>8. Following(h, t, reset, d, l)
      <4>1. Following(h, t, z, d, l)
        BY <3>5 DEF Following
      <4> QED BY <3>1, <3>6, <3>7, <4>1, FollowingLetsGo
    <3> QED BY <1>12, <2>11, <3>8
  <2> QED BY <2>10, <2>11
<1> QED BY <1>16, <1>17

\* The throttled function: rebase, or the reset when the answers do not match.
LEMMA RebaseFollows ==
    ASSUME NEW h, NEW t, Versions(h, t), NEW c \in Client, NEW d \in Session,
           NEW l, NEW early \in SUBSET Ids, c.incomingDiffBuffer # <<>>,
           Following(h, t, c, d, l)
    PROVE  Following(h, t, Rebase(c, early), d, l)
<1> DEFINE f == FlushHistory(c)
           reset == ResetConnection(f, FALSE)
<1>1. f \in Client /\ Continues(c, f) /\ f.history = <<>>
  BY FlushHistoryPushed, FlushContinues, FlushShows
<1> HIDE DEF f
<1>2. f.incomingDiffBuffer # <<>>
  BY <1>1 DEF Continues
<1>3. Following(h, t, f, d, l)
  BY <1>1, FollowingContinues
<1>4. AnswersMatch(f) => Following(h, t, RebaseOnto(f, early), d, l)
  BY <1>1, <1>2, <1>3, RebaseOntoFollows
<1>5. reset \in Client /\ LetsGo(f, reset)
  BY <1>1, ResetConnectionType, ResetLetsGo
<1>6. Following(h, t, reset, d, l)
  <2> HIDE DEF reset
  <2> QED BY <1>1, <1>3, <1>5, FollowingLetsGo
<1> QED BY <1>4, <1>6 DEF Rebase, f

-----------------------------------------------------------------------------
\* What a client does in its own time.
LEMMA OwnStepsFollow ==
    ASSUME InFollowing, NEW s \in SessionIds,
           \/ ListenerFlush(s) \/ SendPushes(s) \/ RunRebase(s) \/ LoseConnection(s)
    PROVE  Followers'
<1> DEFINE c == clients[s]
           d == sessions[s]
<1>1. /\ c \in Client /\ d \in Session /\ Versions(hist, clock)
      /\ Following(hist, clock, c, d, late[s])
  BY InFollowingHas
<1>2. CASE ListenerFlush(s)
  <2> DEFINE next == FlushHistory(c)
  <2>1. next \in Client /\ Continues(c, next)
    BY <1>1, FlushHistoryPushed, FlushContinues
  <2>2. ClientStep(s, next)
    BY <1>2 DEF ListenerFlush
  <2> HIDE DEF next
  <2> QED BY <2>1, <2>2, OneContinues
<1>3. CASE SendPushes(s)
  <2> DEFINE next == FlushPendingPushRequests(c)
  <2>1. next \in Client /\ Continues(c, next)
    BY <1>1, FlushPendingType, SendContinues
  <2>2. ClientStep(s, next)
    BY <1>3 DEF SendPushes
  <2> HIDE DEF next
  <2> QED BY <2>1, <2>2, OneContinues
<1>4. CASE RunRebase(s)
  <2>1. PICK early \in SUBSET Ids : ClientStep(s, Rebase(c, early))
    BY <1>4 DEF RunRebase
  <2>2. c.incomingDiffBuffer # <<>>
    BY <1>4 DEF RunRebase
  <2>3. Following(hist, clock, Rebase(c, early), d, late[s])
    <3> HIDE DEF c, d
    <3> QED BY <1>1, <2>2, RebaseFollows
  <2> QED BY <2>1, <2>3, OneClientFollows
<1>5. CASE LoseConnection(s)
  <2> DEFINE next == ConnectionLost(c, FALSE)
  <2>1. ClientStep(s, next)
    BY <1>5 DEF LoseConnection
  <2>2. next \in Client /\ LetsGo(c, next)
    BY <1>1, ConnectionLostType, LostLetsGo
  <2>3. Following(hist, clock, next, d, late[s])
    <3> HIDE DEF c, d, next
    <3> QED BY <1>1, <2>2, FollowingLetsGo
  <2> HIDE DEF next
  <2> QED BY <2>1, <2>3, OneClientFollows
<1> QED BY <1>2, <1>3, <1>4, <1>5

\* Every step keeps every client following, or astray.
LEMMA NextFollows ==
    ASSUME InFollowing, [SyncNext]_syncVars
    PROVE  Followers'
<1>1. ASSUME NEW s \in SessionIds, NEW id \in Ids,
             NEW record \in scenario.edits[s][id], Edit(s, id, record)
      PROVE  Followers'
  BY <1>1, EditFollows
<1>2. ASSUME NEW s \in SessionIds, NEW presence \in scenario.moves,
             Move(s, presence)
      PROVE  Followers'
  BY <1>2, MoveFollows
<1>3. ASSUME NEW s \in SessionIds,
             \/ ListenerFlush(s) \/ SendPushes(s) \/ RunRebase(s) \/ LoseConnection(s)
      PROVE  Followers'
  BY <1>3, OwnStepsFollow
<1>4. ASSUME NEW s \in SessionIds, Connect(s) PROVE Followers'
  BY <1>4, ConnectFollows
<1>5. ASSUME NEW s \in SessionIds, ClientReceive(s) PROVE Followers'
  BY <1>5, ClientReceiveFollows
<1>6. ASSUME NEW s \in SessionIds, RoomReceive(s) PROVE Followers'
  BY <1>6, RoomReceiveFollows
<1>7. ASSUME NEW s \in SessionIds, RoomReceiveLate(s) PROVE Followers'
  BY <1>7, RoomReceiveLateFollows
<1>8. RoomStep => Followers'
  BY RoomStepFollows
<1>9. UNCHANGED syncVars => Followers'
  BY DEF syncVars, vars, Followers, InFollowing
<1> QED BY <1>1, <1>2, <1>3, <1>4, <1>5, <1>6, <1>7, <1>8, <1>9 DEF SyncNext

\* At first no client has been accepted.
LEMMA InitFollows ==
    ASSUME SyncInit, TypeOK
    PROVE  Followers /\ TombstonesNumbered
<1> DEFINE c == NewClient
<1>1. /\ ~c.loaded /\ ~c.isConnectedToRoom /\ c.lastServerClock = 0
      /\ c.pendingPushRequests = <<>> /\ c.incomingDiffBuffer = <<>>
      /\ c.out = <<>> /\ c.status # SocketOnline
  BY DEF NewClient, SocketOnline, SocketOffline
<1> HIDE DEF c
<1>2. \A s \in SessionIds :
        clients[s] = c /\ late[s] = <<>> /\ sessions[s].wire = <<>>
  BY DEF SyncInit, Init, NoSession, c
<1>3. clock \in Nat
  BY DEF TypeOK
<1>4. Numbered(c)
  BY <1>1 DEF Numbered, PendingPushes
<1>5. Copied(hist, clock, c)
  BY <1>1, <1>3, <1>4 DEF Copied
<1>6. \A S : <<>> \in Seq(S)
  OBVIOUS
<1>7. Written(c, <<>>)
  BY <1>1, <1>6 DEF Written
<1>8. ASSUME NEW s \in SessionIds
      PROVE  Following(hist, clock, clients[s], sessions[s], late[s])
  <2>1. Requested(sessions[s])
    BY <1>2 DEF Requested
  <2>2. HearsAll(hist, clock, c, sessions[s]) /\ Awaits(hist, clock, c, sessions[s])
    BY <1>1 DEF HearsAll, Awaits
  <2> QED BY <1>2, <1>5, <1>7, <2>1, <2>2 DEF Following, Follows
<1>9. TombstonesNumbered
  BY DEF SyncInit, Init, TombstonesNumbered, NoClock
<1> QED BY <1>8, <1>9 DEF Followers

\* Until the room forgets a deletion every client that is not astray follows it.
LEMMA FollowersCorrect ==
    SyncSpec => [](TombstonesNumbered /\ (NothingForgotten => Followers))
<1> DEFINE J == TombstonesNumbered /\ (NothingForgotten => Followers)
<1>1. SyncInit /\ (SyncTyping /\ TypeOK) => J
  BY InitFollows
<1>2. /\ J /\ (SyncTyping /\ TypeOK) /\ (SyncTyping /\ TypeOK)'
      /\ (RoomInv /\ MessagesInv) /\ [SyncNext]_syncVars
      => J'
  <2> SUFFICES ASSUME J, SyncTyping, TypeOK, SyncTyping', TypeOK', RoomInv,
                      MessagesInv, [SyncNext]_syncVars
               PROVE  J'
    OBVIOUS
  <2>1. RoomGoesOn
    BY SyncGoesOn
  <2>2. ASSUME NothingForgotten' PROVE Followers'
    <3>1. InFollowing
      BY <2>1, <2>2 DEF RoomGoesOn, InFollowing, RoomInv
    <3> QED BY <3>1, NextFollows
  <2> QED BY <2>1, <2>2 DEF RoomGoesOn
<1> QED BY <1>1, <1>2, SyncTypingCorrect, SyncRoomCorrect, PTL DEF SyncSpec

\* What the comment on speculativeChanges says of a client that is not astray:
\* undoing its changes gives the room's documents as they were at its
\* lastServerClock, whatever was pushed, answered, rebased, lost, retried or
\* hydrated meanwhile, until the room has forgotten a deletion.
THEOREM ConfirmedIsRoomCorrect ==
    SyncSpec => [](NothingForgotten => ConfirmedIsRoomUnlessAstray)
<1>1. SyncTyping /\ TypeOK /\ Followers => ConfirmedIsRoomUnlessAstray
  <2> SUFFICES ASSUME SyncTyping, TypeOK, Followers, NEW s \in SessionIds,
                      ~clients[s].astray, clients[s].loaded
               PROVE  Confirmed(clients[s]) = hist[clients[s].lastServerClock]
    BY DEF ConfirmedIsRoomUnlessAstray, ConfirmedIsRoom
  <2> DEFINE c == clients[s]
  <2>1. c \in Client /\ Copied(hist, clock, c)
    BY DEF SyncTyping, Followers, Following, Follows
  <2>2. hist[c.lastServerClock] \in Docs
    BY <2>1 DEF Copied, TypeOK, Docs
  <2> HIDE DEF c
  <2> QED BY <2>1, <2>2, AheadConfirms DEF Copied, c
<1> QED BY <1>1, FollowersCorrect, SyncTypingCorrect, PTL

\* Everything that a connected client shows beyond the room's documents, but for
\* what its listener has not seen, is what its pending requests make of them.
THEOREM NothingUnpushedCorrect == SyncSpec => [](NothingForgotten => NothingUnpushed)
<1>1. SyncTyping /\ TypeOK /\ Followers => NothingUnpushed
  <2> SUFFICES ASSUME SyncTyping, TypeOK, Followers, NEW s \in SessionIds,
                      clients[s].isConnectedToRoom, ~clients[s].astray
               PROVE  Flushed(clients[s])
                        = WithPending(clients[s], Confirmed(clients[s]))
    BY DEF NothingUnpushed
  <2> DEFINE c == clients[s]
  <2>1. c \in Client /\ Copied(hist, clock, c)
    BY DEF SyncTyping, Followers, Following, Follows
  <2>2. c.loaded /\ hist[c.lastServerClock] \in Docs
    BY <2>1 DEF Copied, TypeOK, Docs
  <2> HIDE DEF c
  <2> QED BY <2>1, <2>2, AheadConfirms DEF Copied, c
<1> QED BY <1>1, FollowersCorrect, SyncTypingCorrect, PTL

\* The room may keep a tombstone of every record.
FewRecords == IsFiniteSet(Ids) /\ Cardinality(Ids) <= MAX_TOMBSTONES

\* A pruning forgets nothing then.
LEMMA KeepsAll ==
    ASSUME FewRecords, NothingForgotten, RoomGoesOn
    PROVE  NothingForgotten'
<1>1. CASE UNCHANGED forgotten
  BY <1>1 DEF NothingForgotten
<1>2. CASE PruneTombstones
  <2>1. PICK keep \in KeptTombstones :
          forgotten' = [id \in Ids |->
            IF id \in Tombstoned \ keep THEN tombstones[id] ELSE forgotten[id]]
    BY <1>2 DEF PruneTombstones
  <2>2. Tombstoned \in SUBSET Ids
    BY DEF Tombstoned
  <2>3. /\ Cardinality(Tombstoned) \in Nat /\ Cardinality(Ids) \in Nat
        /\ Cardinality(Tombstoned) <= Cardinality(Ids)
    BY <2>2, FS_Subset, FS_CardinalityType DEF FewRecords
  <2>4. Cardinality(Tombstoned) <= MAX_TOMBSTONES
    BY <2>3, RoomAssumption DEF FewRecords
  <2>5. keep = Tombstoned
    BY <2>1, <2>4 DEF KeptTombstones
  <2> QED BY <2>1, <2>5 DEF NothingForgotten
<1> QED BY <1>1, <1>2 DEF RoomGoesOn

\* Nor does the room ever.
LEMMA NothingForgottenHere ==
    ASSUME FewRecords
    PROVE  SyncSpec => []NothingForgotten
<1> DEFINE J == TombstonesNumbered /\ NothingForgotten
<1>1. SyncInit => J
  BY DEF SyncInit, Init, NothingForgotten, TombstonesNumbered, NoClock
<1>2. J /\ (SyncTyping /\ TypeOK) /\ [SyncNext]_syncVars => J'
  <2> SUFFICES ASSUME J, SyncTyping, TypeOK, [SyncNext]_syncVars PROVE J'
    OBVIOUS
  <2>1. RoomGoesOn
    BY SyncGoesOn
  <2> QED BY <2>1, KeepsAll DEF RoomGoesOn
<1> QED BY <1>1, <1>2, SyncTypingCorrect, PTL DEF SyncSpec

\* In a room that has at most MAX_TOMBSTONES records no deletion is forgotten,
\* and undoing the changes of a client that is not astray always gives the
\* documents that the room had at its lastServerClock.
THEOREM ConfirmedIsRoomForFewRecords ==
    ASSUME FewRecords
    PROVE  SyncSpec => []ConfirmedIsRoomUnlessAstray
BY ConfirmedIsRoomCorrect, NothingForgottenHere, PTL

\* In such a room nothing that a connected client shows is left unpushed.
THEOREM NothingUnpushedForFewRecords ==
    ASSUME FewRecords
    PROVE  SyncSpec => []NothingUnpushed
BY NothingUnpushedCorrect, NothingForgottenHere, PTL

\* When all is quiet, every client that is not astray has the room's documents,
\* until the room has forgotten a deletion: the half of Converged that does not
\* speak of presence.
DocumentsConverge ==
    Quiet => \A s \in SessionIds :
        clients[s].astray \/ HasRoomDocuments(clients[s])

\* A client with nothing on its way shows a version of the documents.
LEMMA QuietShows ==
    ASSUME NEW c \in Client, NEW base \in Docs, Ahead(c, base),
           c.isConnectedToRoom, <<>> = c.history, <<>> = c.pendingPushRequests
    PROVE  DocsOf(c.store) = base
<1>1. Flushed(c) = WithPending(c, base)
  BY AheadConfirms
<1>2. WithPending(c, base) = base
  BY WithPendingIs, Requesting!FoldEmpty
<1>3. Undone(c.store, <<>>) = DocsOf(c.store)
  BY DEF Undone, DocsOf
<1> QED BY <1>1, <1>2, <1>3 DEF Flushed

\* A session with nothing on its way leaves nothing to tell.
LEMMA QuietHeard ==
    ASSUME NEW h, NEW t, NEW c \in Client, NEW d \in Session, HearsAll(h, t, c, d),
           c.isConnectedToRoom, Listening(d), <<>> = c.incomingDiffBuffer,
           <<>> = d.wire, <<>> = d.outstanding
    PROVE  h[c.lastServerClock] = h[t]
<1>1. WireData(<<>>) = <<>>
  BY WireDataIs, Collecting!FoldEmpty
<1>2. SessionData(d) = <<>>
  BY <1>1 DEF SessionData
<1>3. c.incomingDiffBuffer \o SessionData(d) = <<>>
  BY <1>2
<1>4. Story(h, t, c, c.lastServerClock, <<>>, TRUE)
  BY <1>3 DEF HearsAll
<1>5. EndOf(c.lastServerClock, <<>>) = c.lastServerClock
  BY DEF EndOf, ClockAt
<1> QED BY <1>4, <1>5 DEF Story

\* Whatever was lost, answered late, rebased or hydrated on the way.
THEOREM DocumentsConvergeCorrect ==
    SyncSpec => [](NothingForgotten => DocumentsConverge)
<1>1. SyncTyping /\ RoomInv /\ Followers => DocumentsConverge
  <2> SUFFICES ASSUME SyncTyping, RoomInv, Followers, Quiet, NEW s \in SessionIds,
                      ~clients[s].astray, NEW id \in Ids
               PROVE  clients[s].store[id] = documents[id].state
    BY DEF DocumentsConverge, HasRoomDocuments
  <2> DEFINE c == clients[s]
             d == sessions[s]
  <2>1. c \in Client /\ d \in Session
    BY DEF SyncTyping, RoomInv, RecordsInv, TypeOK
  <2>2. /\ c.isConnectedToRoom /\ Listening(d) /\ <<>> = c.history
        /\ <<>> = c.pendingPushRequests /\ <<>> = c.incomingDiffBuffer
        /\ <<>> = d.wire /\ <<>> = d.outstanding
    BY DEF Quiet, Listening
  <2>3. Copied(hist, clock, c) /\ HearsAll(hist, clock, c, d)
    BY DEF Followers, Following, Follows
  <2> HIDE DEF c, d
  <2>4. hist[c.lastServerClock] = hist[clock]
    BY <2>1, <2>2, <2>3, QuietHeard
  <2>5. hist[clock] \in Docs /\ hist[clock][id] = documents[id].state
    BY LatestIsDocuments DEF RoomInv
  <2>6. c.loaded /\ Ahead(c, hist[clock])
    BY <2>2, <2>3, <2>4 DEF Copied
  <2>7. DocsOf(c.store) = hist[clock]
    BY <2>1, <2>2, <2>5, <2>6, QuietShows
  <2>8. c.store[id] = hist[clock][id]
    BY <2>7 DEF DocsOf
  <2> QED BY <2>5, <2>8 DEF c
<1> QED BY <1>1, FollowersCorrect, SyncTypingCorrect, SyncRoomCorrect, PTL

-----------------------------------------------------------------------------
(***************************************************************************)
(* The clocks of events only go up: from k, which a client knows, to t at  *)
(* most.                                                                   *)
(***************************************************************************)
Rising(k, t, events) ==
    /\ \A i \in 1..Len(events) : events[i].serverClock \in k..t
    /\ \A i, j \in 1..Len(events) : i <= j =>
         events[i].serverClock <= events[j].serverClock

\* What an event says of its clock.
LEMMA EventClock ==
    ASSUME NEW events \in Seq(DataMessage), NEW i \in 1..Len(events)
    PROVE  events[i].serverClock \in Nat
<1>1. events[i] \in DataMessage
  OBVIOUS
<1> QED BY <1>1 DEF DataMessage

\* A beginning of rising clocks, and what comes after it.
LEMMA RisingParts ==
    ASSUME NEW t \in Nat, NEW k \in 0..t, NEW a \in Seq(DataMessage),
           NEW b \in Seq(DataMessage), Rising(k, t, a \o b)
    PROVE  /\ Rising(k, t, a) /\ Rising(EndOf(k, a), t, b)
           /\ EndOf(k, a) \in k..t
<1> DEFINE all == a \o b
           n == Len(a)
           m == Len(b)
<1>1. n \in Nat /\ m \in Nat /\ Len(all) = n + m
      /\ (\A i \in 1..n : all[i] = a[i]) /\ (\A i \in 1..m : all[n + i] = b[i])
  OBVIOUS
<1>2. /\ \A i \in 1..Len(all) : all[i].serverClock \in k..t
      /\ \A i, j \in 1..Len(all) : i <= j => all[i].serverClock <= all[j].serverClock
  BY DEF Rising
<1> HIDE DEF all
<1>3. Rising(k, t, a)
  <2>1. ASSUME NEW i \in 1..n PROVE i \in 1..Len(all) /\ all[i] = a[i]
    BY <1>1
  <2>2. \A i \in 1..n : a[i].serverClock \in k..t
    BY <1>2, <2>1
  <2>3. \A i, j \in 1..n : i <= j => a[i].serverClock <= a[j].serverClock
    BY <1>2, <2>1
  <2> QED BY <2>2, <2>3 DEF Rising
<1>4. EndOf(k, a) \in k..t /\ (n # 0 => EndOf(k, a) = all[n].serverClock)
  <2>1. CASE n = 0
    BY <2>1 DEF EndOf, ClockAt
  <2>2. CASE n # 0
    <3>1. n \in 1..n /\ n \in 1..Len(all)
      BY <1>1, <2>2
    <3>2. EndOf(k, a) = all[n].serverClock
      BY <1>1, <2>2, <3>1 DEF EndOf, ClockAt
    <3> QED BY <1>2, <3>1, <3>2
  <2> QED BY <2>1, <2>2
<1>5. ASSUME NEW i \in 1..m PROVE n + i \in 1..Len(all) /\ all[n + i] = b[i]
  BY <1>1
<1>6. ASSUME NEW i \in 1..m PROVE b[i].serverClock \in EndOf(k, a)..t
  <2>1. b[i].serverClock \in k..t
    BY <1>2, <1>5
  <2>2. CASE n = 0
    BY <2>1, <2>2 DEF EndOf, ClockAt
  <2>3. CASE n # 0
    <3>1. n \in 1..Len(all) /\ n <= n + i
      BY <1>1, <2>3
    <3>2. all[n].serverClock <= all[n + i].serverClock
      BY <1>2, <1>5, <3>1
    <3>3. EndOf(k, a) <= b[i].serverClock
      BY <1>4, <1>5, <2>3, <3>2
    <3> QED BY <1>4, <2>1, <3>3
  <2> QED BY <2>2, <2>3
<1>7. ASSUME NEW i \in 1..m, NEW j \in 1..m, i <= j
      PROVE  b[i].serverClock <= b[j].serverClock
  <2>1. n + i <= n + j
    BY <1>1, <1>7
  <2> QED BY <1>2, <1>5, <2>1
<1> QED BY <1>3, <1>4, <1>6, <1>7 DEF Rising

\* Events of the latest clock.
LEMMA RisingMore ==
    ASSUME NEW t \in Nat, NEW u \in Nat, t <= u, NEW k \in 0..t,
           NEW a \in Seq(DataMessage), NEW b \in Seq(DataMessage),
           Rising(k, t, a), \A i \in 1..Len(b) : b[i].serverClock = u
    PROVE  Rising(k, u, a \o b)
<1> DEFINE all == a \o b
           n == Len(a)
           m == Len(b)
<1>1. n \in Nat /\ m \in Nat /\ Len(all) = n + m
      /\ (\A i \in 1..n : all[i] = a[i])
      /\ (\A i \in 1..m : all[n + i] = b[i])
  OBVIOUS
<1> HIDE DEF all
<1>2. ASSUME NEW i \in 1..Len(all)
      PROVE  \/ i \in 1..n /\ all[i] = a[i]
             \/ i > n /\ all[i].serverClock = u
  <2>1. CASE i <= n
    BY <1>1, <2>1
  <2>2. CASE i > n
    <3>1. i - n \in 1..m /\ n + (i - n) = i
      BY <1>1, <2>2
    <3>2. all[n + (i - n)] = b[i - n]
      BY <1>1, <3>1
    <3> QED BY <2>2, <3>1, <3>2
  <2>3. i \in Nat
    OBVIOUS
  <2> QED BY <1>1, <2>1, <2>2, <2>3
<1>3. ASSUME NEW i \in 1..n PROVE a[i].serverClock \in k..t
  BY DEF Rising
<1>4. ASSUME NEW i \in 1..Len(all) PROVE all[i].serverClock \in k..u
  <2>1. ASSUME i \in 1..n, all[i] = a[i] PROVE all[i].serverClock \in k..u
    BY <1>3, <2>1
  <2> QED BY <1>2, <2>1
<1>5. ASSUME NEW i \in 1..Len(all), NEW j \in 1..Len(all), i <= j
      PROVE  all[i].serverClock <= all[j].serverClock
  <2>1. ASSUME j \in 1..n, all[j] = a[j] PROVE all[i].serverClock <= all[j].serverClock
    <3>1. i \in 1..n
      BY <1>5, <2>1
    <3>2. i <= n /\ all[i] = a[i]
      BY <1>1, <3>1
    <3>3. a[i].serverClock <= a[j].serverClock
      BY <1>5, <2>1, <3>1 DEF Rising
    <3> QED BY <2>1, <3>2, <3>3
  <2>2. ASSUME all[j].serverClock = u PROVE all[i].serverClock <= all[j].serverClock
    BY <1>4, <2>2
  <2> QED BY <1>2, <2>1, <2>2
<1> QED BY <1>4, <1>5 DEF Rising, all

\* What a session hears in a step goes on rising.
LEMMA RisingHeard ==
    ASSUME HistoryGoesOn, NEW d \in Session, NEW e \in Session,
           NEW msgs \in Seq(DataMessage), Hears(d, e, msgs),
           \A i \in 1..Len(msgs) : msgs[i].serverClock = clock',
           NEW before \in Seq(DataMessage), NEW k \in 0..clock,
           Rising(k, clock, before \o SessionData(d))
    PROVE  Rising(k, clock', before \o SessionData(e))
<1> DEFINE old == SessionData(d)
           new == SessionData(e)
           all == before \o old
<1>1. old \in Seq(DataMessage) /\ new \in Seq(DataMessage)
  BY SessionDataType
<1>2. /\ Listening(d) => Prefix(new, old \o msgs)
      /\ ~Listening(d) => Prefix(new, old)
  BY DEF Hears
<1>3. /\ clock \in Nat /\ clock' \in Nat /\ clock <= clock' /\ k \in 0..clock'
      /\ Rising(k, clock, all)
  BY DEF HistoryGoesOn
<1> HIDE DEF old, new
<1>4. all \in Seq(DataMessage)
  BY <1>1
<1>5. all \o msgs = before \o (old \o msgs)
  BY <1>1, MessagesAssoc DEF all
<1> HIDE DEF all
<1>6. Rising(k, clock', all \o msgs)
  BY <1>3, <1>4, RisingMore
<1>7. PICK rest \in Seq(DataMessage) : all \o msgs = (before \o new) \o rest
  <2>1. CASE Listening(d)
    <3>1. PICK rest \in Seq(DataMessage) : old \o msgs = new \o rest
      BY <1>2, <2>1 DEF Prefix
    <3>2. (before \o new) \o rest = before \o (new \o rest)
      BY <1>1, <3>1, MessagesAssoc
    <3> QED BY <1>5, <3>1, <3>2
  <2>2. CASE ~Listening(d)
    <3>1. PICK rest \in Seq(DataMessage) : old = new \o rest
      BY <1>2, <2>2 DEF Prefix
    <3>2. /\ rest \o msgs \in Seq(DataMessage)
          /\ old \o msgs = new \o (rest \o msgs)
      BY <1>1, <3>1, MessagesAssoc
    <3>3. before \o (new \o (rest \o msgs)) = (before \o new) \o (rest \o msgs)
      BY <1>1, <3>2, MessagesAssoc
    <3> QED BY <1>5, <3>2, <3>3
  <2> QED BY <2>1, <2>2
<1>8. before \o new \in Seq(DataMessage)
  BY <1>1
<1> DEFINE told == before \o new
<1>9. told \in Seq(DataMessage) /\ Rising(k, clock', told \o rest)
  BY <1>6, <1>7, <1>8
<1> HIDE DEF told
<1>10. Rising(k, clock', told)
  BY <1>3, <1>7, <1>9, RisingParts
<1> QED BY <1>10 DEF told, new

(***************************************************************************)
(* A client, astray or not, that only moves on: the clocks of what it has  *)
(* not handled yet only go up from its own, to t at most.                  *)
(***************************************************************************)
Forward(t, c, d) ==
    /\ c.lastServerClock \in 0..t /\ Requested(d)
    /\ c.isConnectedToRoom =>
         /\ c.status = SocketOnline /\ c.latestConnectRequestId = NoRequest
         /\ Rising(c.lastServerClock, t, c.incomingDiffBuffer \o SessionData(d))
    /\ ~c.isConnectedToRoom =>
         /\ c.pendingPushRequests = <<>> /\ c.incomingDiffBuffer = <<>>
         /\ \A i \in 1..Len(d.wire) : Accepts(c, d.wire[i]) =>
              /\ d.wire[i].serverClock \in c.lastServerClock..t
              /\ Rising(d.wire[i].serverClock, t, SessionData(Behind(d, i)))

\* What never comes back in a step of a client.
Onward(c, e) ==
    /\ c.lastServerClock <= e.lastServerClock
    /\ (c.loaded => e.loaded) /\ (c.astray => e.astray)

\* A client that only does things of its own.
LEMMA ForwardContinues ==
    ASSUME NEW t \in Nat, NEW c \in Client, NEW e \in Client, NEW d,
           Continues(c, e), Forward(t, c, d)
    PROVE  Forward(t, e, d) /\ Onward(c, e)
<1>1. /\ e.status = c.status /\ e.isConnectedToRoom = c.isConnectedToRoom
      /\ e.incomingDiffBuffer = c.incomingDiffBuffer
      /\ e.lastServerClock = c.lastServerClock
      /\ e.latestConnectRequestId = c.latestConnectRequestId
      /\ e.loaded = c.loaded /\ e.astray = c.astray
      /\ ~c.isConnectedToRoom => e.pendingPushRequests = c.pendingPushRequests
  BY DEF Continues
<1>2. Forward(t, e, d)
  BY <1>1 DEF Forward, Accepts
<1>3. c.lastServerClock \in Nat
  BY DEF Client
<1> QED BY <1>1, <1>2, <1>3 DEF Onward

\* A client whose session has nothing for it that it would accept.
LEMMA ForwardLetsGo ==
    ASSUME NEW t \in Nat, NEW c \in Client, NEW e \in Client, NEW d \in Session,
           LetsGo(c, e), Forward(t, c, d)
    PROVE  Forward(t, e, d) /\ Onward(c, e)
<1>1. /\ ~e.isConnectedToRoom /\ e.pendingPushRequests = <<>>
      /\ e.incomingDiffBuffer = <<>> /\ e.lastServerClock = c.lastServerClock
      /\ e.latestConnectRequestId = c.latestConnectRequestId
      /\ e.loaded = c.loaded /\ e.astray = c.astray
  BY DEF LetsGo
<1>2. c.lastServerClock \in 0..t /\ Requested(d)
  BY DEF Forward
<1>3. ASSUME NEW i \in 1..Len(d.wire), Accepts(e, d.wire[i])
      PROVE  /\ d.wire[i].serverClock \in c.lastServerClock..t
             /\ Rising(d.wire[i].serverClock, t, SessionData(Behind(d, i)))
  <2>1. /\ d.wire[i].type = "connect" /\ Accepts(c, d.wire[i])
        /\ d.wire[i].connectRequestId = c.latestConnectRequestId
    BY <1>1, <1>3 DEF Accepts
  <2>2. c.latestConnectRequestId # NoRequest
    BY <1>2, <2>1 DEF Requested
  <2>3. ~c.isConnectedToRoom
    BY <2>2 DEF Forward
  <2> QED BY <2>1, <2>3 DEF Forward
<1>4. Forward(t, e, d)
  BY <1>1, <1>2, <1>3 DEF Forward
<1> QED BY <1>1, <1>2, <1>4 DEF Onward

\* What a session hears, its client will hear.
LEMMA ForwardHeard ==
    ASSUME HistoryGoesOn, NEW c \in Client, NEW d \in Session, NEW e \in Session,
           NEW msgs \in Seq(DataMessage), Hears(d, e, msgs),
           \A i \in 1..Len(msgs) : msgs[i].serverClock = clock',
           Forward(clock, c, d)
    PROVE  Forward(clock', c, e)
<1> DEFINE k == c.lastServerClock
<1>1. k \in 0..clock /\ Requested(d)
  BY DEF Forward
<1>2. clock \in Nat /\ clock' \in Nat /\ clock <= clock'
  BY DEF HistoryGoesOn
<1>3. ASSUME NEW i \in 1..Len(e.wire), e.wire[i].type = "connect"
      PROVE  /\ i \in 1..Len(d.wire) /\ e.wire[i] = d.wire[i]
             /\ Hears(Behind(d, i), Behind(e, i), msgs)
  BY <1>3, BehindHears
<1>4. Requested(e)
  BY <1>1, <1>3 DEF Requested
<1>5. ASSUME c.isConnectedToRoom
      PROVE  Rising(k, clock', c.incomingDiffBuffer \o SessionData(e))
  <2>1. Rising(k, clock, c.incomingDiffBuffer \o SessionData(d))
    BY <1>5 DEF Forward
  <2>2. c.incomingDiffBuffer \in Seq(DataMessage)
    BY DEF Client
  <2> HIDE DEF k
  <2> QED BY <1>1, <2>1, <2>2, RisingHeard
<1>6. ASSUME ~c.isConnectedToRoom, NEW i \in 1..Len(e.wire), Accepts(c, e.wire[i])
      PROVE  /\ e.wire[i].serverClock \in k..clock'
             /\ Rising(e.wire[i].serverClock, clock', SessionData(Behind(e, i)))
  <2> DEFINE m == e.wire[i]
             x == Behind(d, i)
             y == Behind(e, i)
             none == <<>>
  <2>1. i \in 1..Len(d.wire) /\ m = d.wire[i] /\ Hears(x, y, msgs)
    BY <1>3, <1>6 DEF Accepts
  <2>2. m.serverClock \in k..clock /\ Rising(m.serverClock, clock, SessionData(x))
    BY <1>6, <2>1 DEF Forward
  <2>3. i \in 0..Len(d.wire) /\ i \in 0..Len(e.wire)
    BY <2>1
  <2>4. x \in Session /\ y \in Session
    BY <2>3, BehindIs
  <2> HIDE DEF m, x, y
  <2>5. none \in Seq(DataMessage) /\ none \o SessionData(x) = SessionData(x)
        /\ none \o SessionData(y) = SessionData(y)
    <3>1. none \in Seq(DataMessage)
      OBVIOUS
    <3>2. SessionData(x) \in Seq(DataMessage) /\ SessionData(y) \in Seq(DataMessage)
      BY <2>4, SessionDataType
    <3> QED BY <3>1, <3>2, ConcatEmpty
  <2> HIDE DEF none
  <2>6. Rising(m.serverClock, clock, none \o SessionData(x))
    BY <2>2, <2>5
  <2>7. m.serverClock \in 0..clock /\ m.serverClock \in k..clock'
    <3> HIDE DEF k
    <3> QED BY <1>1, <1>2, <2>2
  <2>8. Rising(m.serverClock, clock', none \o SessionData(y))
    BY <2>1, <2>4, <2>5, <2>6, <2>7, RisingHeard
  <2> QED BY <2>5, <2>7, <2>8 DEF m, y
<1>7. k \in 0..clock'
  BY <1>1, <1>2
<1>8. c.isConnectedToRoom =>
        c.status = SocketOnline /\ c.latestConnectRequestId = NoRequest
  BY DEF Forward
<1>9. ~c.isConnectedToRoom =>
        c.pendingPushRequests = <<>> /\ c.incomingDiffBuffer = <<>>
  BY DEF Forward
<1> QED BY <1>4, <1>5, <1>6, <1>7, <1>8, <1>9 DEF Forward

\* Less to hear rises as well.
LEMMA RisingLess ==
    ASSUME NEW t \in Nat, NEW k \in 0..t, NEW before \in Seq(DataMessage),
           NEW a \in Seq(DataMessage), NEW b \in Seq(DataMessage), Prefix(a, b),
           Rising(k, t, before \o b)
    PROVE  Rising(k, t, before \o a)
<1>1. PICK rest \in Seq(DataMessage) : b = a \o rest
  BY DEF Prefix
<1> DEFINE told == before \o a
<1>2. told \in Seq(DataMessage) /\ before \o b = told \o rest
  BY <1>1, MessagesAssoc
<1> HIDE DEF told
<1>3. Rising(k, t, told)
  BY <1>2, RisingParts
<1> QED BY <1>3 DEF told

\* A session that is accepted once more hears what was on its way, but for what
\* waits for the debounce timer.
LEMMA AcceptedHearsLess ==
    ASSUME NEW d \in Session, NEW e \in Session, NEW m \in ServerMessage,
           m.type = "connect", Accepted(d, e, m)
    PROVE  Prefix(SessionData(e), SessionData(d))
<1> DEFINE data == WireData(d.wire)
<1>1. d.wire \in Seq(ServerMessage) /\ d.outstanding \in Seq(DataMessage)
  BY OrderlyQueues
<1>2. data \in Seq(DataMessage)
  BY <1>1, WireDataType
<1>3. SessionData(d) = data \o IF d.open THEN d.outstanding ELSE <<>>
  BY DEF SessionData
<1>4. CASE d.open
  <2>1. e.outstanding = <<>> /\ e.wire = Append(d.wire, m)
    BY <1>4 DEF Accepted
  <2>2. WireData(e.wire) = data
    <3>1. DataOf(m) = <<>>
      BY DEF DataOf
    <3> QED BY <1>1, <1>2, <2>1, <3>1, WireDataAppend, ConcatEmpty
  <2>3. SessionData(e) = data
    BY <1>2, <2>1, <2>2, ConcatEmpty DEF SessionData
  <2> QED BY <1>1, <1>2, <1>3, <1>4, <2>3 DEF Prefix
<1>5. CASE ~d.open
  <2>1. SessionData(e) = SessionData(d)
    BY <1>5 DEF Accepted, SessionData
  <2>2. SessionData(d) \in Seq(DataMessage)
    BY SessionDataType
  <2> QED BY <2>1, <2>2, PrefixOfMore
<1> QED BY <1>4, <1>5

\* An answer to a connect request has the room's clock.
LEMMA ForwardAccepted ==
    ASSUME NEW t \in Nat, NEW c \in Client, NEW d \in Session, NEW e \in Session,
           NEW m \in ServerMessage, m.type = "connect",
           m.connectRequestId # NoRequest, m.serverClock = t,
           Accepted(d, e, m), Forward(t, c, d)
    PROVE  Forward(t, c, e)
<1> DEFINE k == c.lastServerClock
<1>1. k \in 0..t /\ Requested(d)
  BY DEF Forward
<1>2. /\ ~d.open => e.wire = d.wire
      /\ d.open => Len(e.wire) = Len(d.wire) + 1 /\ e.wire[Len(e.wire)] = m
      /\ \A i \in 1..Len(d.wire) :
           /\ i \in 1..Len(e.wire) /\ e.wire[i] = d.wire[i]
           /\ Accepted(Behind(d, i), Behind(e, i), m)
      /\ d.open => SessionData(Behind(e, Len(e.wire))) = <<>>
  BY AcceptedBehind
<1>3. ASSUME NEW i \in 1..Len(e.wire)
      PROVE  i \in 1..Len(d.wire) \/ (d.open /\ i = Len(e.wire))
  <2>1. d.wire \in Seq(ServerMessage)
    BY OrderlyQueues
  <2>2. Len(d.wire) \in Nat
    BY <2>1
  <2> QED BY <1>2, <2>2
<1>4. Requested(e)
  BY <1>1, <1>2, <1>3 DEF Requested
<1>5. ASSUME c.isConnectedToRoom
      PROVE  Rising(k, t, c.incomingDiffBuffer \o SessionData(e))
  <2>1. Rising(k, t, c.incomingDiffBuffer \o SessionData(d))
    BY <1>5 DEF Forward
  <2>2. c.incomingDiffBuffer \in Seq(DataMessage)
    BY DEF Client
  <2>3. Prefix(SessionData(e), SessionData(d))
    BY AcceptedHearsLess
  <2>4. SessionData(e) \in Seq(DataMessage) /\ SessionData(d) \in Seq(DataMessage)
    BY SessionDataType
  <2> HIDE DEF k
  <2> QED BY <1>1, <2>1, <2>2, <2>3, <2>4, RisingLess
<1>6. ASSUME ~c.isConnectedToRoom, NEW i \in 1..Len(e.wire), Accepts(c, e.wire[i])
      PROVE  /\ e.wire[i].serverClock \in k..t
             /\ Rising(e.wire[i].serverClock, t, SessionData(Behind(e, i)))
  <2> DEFINE n == e.wire[i]
             x == Behind(d, i)
             y == Behind(e, i)
             none == <<>>
  <2>1. CASE i \in 1..Len(d.wire)
    <3>1. n = d.wire[i] /\ Accepted(x, y, m)
      BY <1>2, <2>1
    <3>2. n.serverClock \in k..t /\ Rising(n.serverClock, t, SessionData(x))
      BY <1>6, <2>1, <3>1 DEF Forward
    <3>3. i \in 0..Len(d.wire) /\ i \in 0..Len(e.wire)
      BY <2>1
    <3>4. x \in Session /\ y \in Session
      BY <3>3, BehindIs
    <3> HIDE DEF n, x, y
    <3>5. SessionData(x) \in Seq(DataMessage) /\ SessionData(y) \in Seq(DataMessage)
          /\ Prefix(SessionData(y), SessionData(x))
      BY <3>1, <3>4, SessionDataType, AcceptedHearsLess
    <3>6. none \in Seq(DataMessage) /\ none \o SessionData(x) = SessionData(x)
          /\ none \o SessionData(y) = SessionData(y)
      <4>1. none \in Seq(DataMessage)
        OBVIOUS
      <4> QED BY <3>5, <4>1, ConcatEmpty
    <3> HIDE DEF none
    <3>7. n.serverClock \in 0..t
      <4> HIDE DEF k
      <4> QED BY <1>1, <3>2
    <3>8. Rising(n.serverClock, t, none \o SessionData(x))
      BY <3>2, <3>6
    <3>9. Rising(n.serverClock, t, none \o SessionData(y))
      BY <3>5, <3>6, <3>7, <3>8, RisingLess
    <3> QED BY <3>2, <3>6, <3>9 DEF n, y
  <2>2. CASE d.open /\ i = Len(e.wire)
    <3>1. n = m /\ SessionData(y) = <<>>
      BY <1>2, <2>2
    <3>2. n.serverClock \in k..t
      <4> HIDE DEF k, n
      <4> QED BY <1>1, <3>1
    <3>3. Rising(n.serverClock, t, <<>>)
      <4>1. \A j : j \notin 1..Len(<<>>)
        OBVIOUS
      <4> QED BY <4>1 DEF Rising
    <3> QED BY <3>1, <3>2, <3>3
  <2> QED BY <1>3, <2>1, <2>2
<1>7. c.isConnectedToRoom =>
        c.status = SocketOnline /\ c.latestConnectRequestId = NoRequest
  BY DEF Forward
<1>8. ~c.isConnectedToRoom =>
        c.pendingPushRequests = <<>> /\ c.incomingDiffBuffer = <<>>
  BY DEF Forward
<1> QED BY <1>1, <1>4, <1>5, <1>6, <1>7, <1>8 DEF Forward


-----------------------------------------------------------------------------
\* didReconnect, where the client waits for it.
LEMMA ReconnectOpens ==
    ASSUME NEW c \in Client, NEW event \in ConnectEvent,
           ~c.isConnectedToRoom, c.pendingPushRequests = <<>>,
           event.connectRequestId = c.latestConnectRequestId
    PROVE  LET e == DidReconnect(c, event)
           IN  /\ e.isConnectedToRoom /\ e.status = c.status /\ e.loaded
               /\ e.incomingDiffBuffer = c.incomingDiffBuffer
               /\ e.latestConnectRequestId = NoRequest
               /\ e.lastServerClock = event.serverClock
               /\ c.astray => e.astray
<1> DEFINE hydrated == Hydrated(c, event)
           reapplied == ApplyChanges(hydrated, c.speculativeChanges)
           there == RemoteChange(c, reapplied)
           rebased == [there EXCEPT !.speculativeChanges = NoChanges,
                                    !.isConnectedToRoom = TRUE]
           difference == Between(hydrated, reapplied)
           pushed == Push(rebased, difference)
           astray == pushed.astray \/ HasUnflushedChanges(c)
           done == [pushed EXCEPT !.latestConnectRequestId = NoRequest,
                                  !.lastServerClock = event.serverClock,
                                  !.loaded = TRUE,
                                  !.astray = astray]
<1>1. hydrated \in Stores
  BY HydratedType
<1>2. c.speculativeChanges \in DocChanges /\ NoChanges \in DocChanges
  BY NoChangesInDiffs DEF Client, DocChanges
<1>3. /\ reapplied \in Stores
      /\ \A p \in RecordIds \ Ids : reapplied[p] = hydrated[p]
  <2> HIDE DEF hydrated
  <2> QED BY <1>1, <1>2, ApplyDocChanges
<1>4. difference \in DocChanges
  <2> HIDE DEF hydrated, reapplied
  <2> QED BY <1>1, <1>3, DocumentsBetween
<1>5. /\ there \in Client /\ there.status = c.status
      /\ there.incomingDiffBuffer = c.incomingDiffBuffer
  <2> HIDE DEF reapplied
  <2>1. there \in Client
    BY <1>3, RemoteChangeType
  <2>2. /\ there.status = c.status
        /\ there.incomingDiffBuffer = c.incomingDiffBuffer
    BY DEF RemoteChange, Client
  <2> QED BY <2>1, <2>2
<1> HIDE DEF there
<1>6. /\ rebased \in Client /\ rebased.isConnectedToRoom
      /\ rebased.status = c.status
      /\ rebased.incomingDiffBuffer = c.incomingDiffBuffer
  BY <1>2, <1>5 DEF Client
<1> HIDE DEF rebased
<1>7. pushed \in Client /\ Pushed(rebased, pushed)
  <2> HIDE DEF difference
  <2> QED BY <1>4, <1>6, PushType, PushPushed
<1> HIDE DEF pushed, astray
<1>8. /\ pushed.isConnectedToRoom /\ pushed.status = c.status
      /\ pushed.incomingDiffBuffer = c.incomingDiffBuffer
  BY <1>6, <1>7 DEF Pushed, Client
<1>9. /\ done.isConnectedToRoom /\ done.status = c.status /\ done.loaded
      /\ done.incomingDiffBuffer = c.incomingDiffBuffer
      /\ done.latestConnectRequestId = NoRequest
      /\ done.lastServerClock = event.serverClock
  BY <1>7, <1>8 DEF Client
<1> HIDE DEF done
<1>10. DidReconnect(c, event) = done
  BY DEF DidReconnect, done, astray, pushed, rebased, there
<1>11. c.astray => DidReconnect(c, event).astray
  BY ReconnectAstray
<1> QED BY <1>9, <1>10, <1>11

\* A message without events, or one that is not for the client, passes.
LEMMA ForwardPasses ==
    ASSUME NEW t \in Nat, NEW c \in Client, NEW d \in Session, d.wire # <<>>,
           Forward(t, c, d),
           c.isConnectedToRoom => DataOf(Head(d.wire)) = <<>>
    PROVE  Forward(t, c, [d EXCEPT !.wire = Tail(@)])
<1> DEFINE e == [d EXCEPT !.wire = Tail(d.wire)]
           msg == Head(d.wire)
           k == c.lastServerClock
<1>1. k \in 0..t /\ Requested(d)
  BY DEF Forward
<1>2. /\ e \in Session /\ SessionData(d) = DataOf(msg) \o SessionData(e)
      /\ \A i \in 1..Len(e.wire) :
           /\ i + 1 \in 1..Len(d.wire) /\ e.wire[i] = d.wire[i + 1]
           /\ SessionData(Behind(e, i)) = SessionData(Behind(d, i + 1))
  BY FirstArrived
<1> HIDE DEF e
<1>3. Requested(e)
  BY <1>1, <1>2 DEF Requested
<1>4. ASSUME c.isConnectedToRoom
      PROVE  Rising(k, t, c.incomingDiffBuffer \o SessionData(e))
  <2>1. SessionData(e) \in Seq(DataMessage)
    BY <1>2, SessionDataType
  <2>2. SessionData(d) = SessionData(e)
    BY <1>2, <1>4, <2>1, ConcatEmpty
  <2> QED BY <1>4, <2>2 DEF Forward
<1>5. ASSUME ~c.isConnectedToRoom, NEW i \in 1..Len(e.wire), Accepts(c, e.wire[i])
      PROVE  /\ e.wire[i].serverClock \in k..t
             /\ Rising(e.wire[i].serverClock, t, SessionData(Behind(e, i)))
  <2> DEFINE j == i + 1
  <2>1. /\ j \in 1..Len(d.wire) /\ e.wire[i] = d.wire[j]
        /\ SessionData(Behind(e, i)) = SessionData(Behind(d, j))
    BY <1>2
  <2> HIDE DEF j
  <2>2. /\ d.wire[j].serverClock \in k..t
        /\ Rising(d.wire[j].serverClock, t, SessionData(Behind(d, j)))
    BY <1>5, <2>1 DEF Forward
  <2> QED BY <2>1, <2>2
<1>6. c.isConnectedToRoom =>
        c.status = SocketOnline /\ c.latestConnectRequestId = NoRequest
  BY DEF Forward
<1>7. ~c.isConnectedToRoom =>
        c.pendingPushRequests = <<>> /\ c.incomingDiffBuffer = <<>>
  BY DEF Forward
<1> QED BY <1>1, <1>3, <1>4, <1>5, <1>6, <1>7 DEF Forward, e

\* A client moves on when it receives a message.
LEMMA ForwardReceives ==
    ASSUME NEW t \in Nat, NEW c \in Client, NEW d \in Session, d.wire # <<>>,
           c.status = SocketOnline, Forward(t, c, d)
    PROVE  LET msg == Head(d.wire)
               next == IF msg.type = "close" THEN ConnectionLost(c, msg.fatal)
                       ELSE HandleServerEvent(c, msg)
           IN  Forward(t, next, [d EXCEPT !.wire = Tail(@)]) /\ Onward(c, next)
<1> DEFINE msg == Head(d.wire)
           e == [d EXCEPT !.wire = Tail(@)]
           k == c.lastServerClock
<1>1. /\ e \in Session /\ msg \in ServerMessage
      /\ SessionData(d) = DataOf(msg) \o SessionData(e)
      /\ 1 \in 1..Len(d.wire) /\ d.wire[1] = msg
      /\ SessionData(Behind(d, 1)) = SessionData(e)
      /\ \A i \in 1..Len(e.wire) :
           i + 1 \in 1..Len(d.wire) /\ e.wire[i] = d.wire[i + 1]
  BY FirstArrived
<1>2. k \in 0..t /\ Requested(d) /\ k \in Nat
  BY DEF Forward
<1>3. Requested(e)
  BY <1>1, <1>2 DEF Requested
<1>4. (c.isConnectedToRoom => DataOf(msg) = <<>>) => Forward(t, c, e)
  BY ForwardPasses
<1>5. Onward(c, c)
  BY <1>2 DEF Onward
<1> HIDE DEF e, msg
<1>6. CASE msg.type = "close"
  <2> DEFINE next == ConnectionLost(c, msg.fatal)
  <2>1. msg.fatal \in BOOLEAN
    BY <1>1, <1>6 DEF ServerMessage
  <2>2. LetsGo(c, next) /\ next \in Client
    BY <2>1, LostLetsGo, ConnectionLostType
  <2> HIDE DEF next
  <2>3. Onward(c, next)
    BY <2>2, ForwardLetsGo
  <2>4. Forward(t, next, e)
    <3>1. /\ ~next.isConnectedToRoom /\ next.pendingPushRequests = <<>>
          /\ next.incomingDiffBuffer = <<>> /\ next.lastServerClock = k
      BY <2>2 DEF LetsGo
    <3>2. Forward(t, next, d)
      BY <2>2, ForwardLetsGo
    <3> QED BY <2>2, <3>1, <3>2, ForwardPasses DEF e
  <2> QED BY <1>6, <2>3, <2>4 DEF e, msg, next
<1>7. CASE msg.type = "connect"
  <2> DEFINE next == DidReconnect(c, msg)
  <2>1. msg \in ConnectEvent
    BY <1>1, <1>7 DEF ServerMessage, ConnectEvent
  <2>2. HandleServerEvent(c, msg) = next
    BY <1>7 DEF HandleServerEvent
  <2>3. Forward(t, next, e) /\ Onward(c, next)
    <3>1. CASE msg.connectRequestId # c.latestConnectRequestId
      <4>1. next = c
        BY <3>1 DEF DidReconnect
      <4>2. Forward(t, c, e)
        BY <1>4, <1>7 DEF DataOf
      <4> QED BY <1>5, <4>1, <4>2
    <3>2. CASE msg.connectRequestId = c.latestConnectRequestId
      <4>1. msg.connectRequestId # NoRequest
        BY <1>1, <1>2, <1>7 DEF Requested
      <4>2. ~c.isConnectedToRoom
        BY <3>2, <4>1 DEF Forward
      <4>3. c.pendingPushRequests = <<>> /\ c.incomingDiffBuffer = <<>>
        BY <4>2 DEF Forward
      <4>4. Accepts(c, d.wire[1])
        BY <1>1, <1>7, <3>2 DEF Accepts
      <4>5. /\ d.wire[1].serverClock \in k..t
            /\ Rising(d.wire[1].serverClock, t, SessionData(Behind(d, 1)))
        BY <1>1, <4>2, <4>4 DEF Forward
      <4>6. msg.serverClock \in k..t /\ Rising(msg.serverClock, t, SessionData(e))
        BY <1>1, <4>5
      <4>7. /\ next.isConnectedToRoom /\ next.status = c.status /\ next.loaded
            /\ next.incomingDiffBuffer = c.incomingDiffBuffer
            /\ next.latestConnectRequestId = NoRequest
            /\ next.lastServerClock = msg.serverClock
            /\ c.astray => next.astray
        BY <2>1, <3>2, <4>2, <4>3, ReconnectOpens
      <4> HIDE DEF next
      <4>8. SessionData(e) \in Seq(DataMessage)
        BY <1>1, SessionDataType
      <4>9. next.incomingDiffBuffer \o SessionData(e) = SessionData(e)
        BY <4>3, <4>7, <4>8, ConcatEmpty
      <4> HIDE DEF k
      <4>10. msg.serverClock \in 0..t /\ k <= msg.serverClock
        BY <1>2, <4>6
      <4>11. Forward(t, next, e)
        BY <1>3, <4>6, <4>7, <4>9, <4>10 DEF Forward
      <4>12. Onward(c, next)
        BY <4>7, <4>10 DEF Onward, k
      <4> QED BY <4>11, <4>12
    <3> QED BY <3>1, <3>2
  <2> HIDE DEF next
  <2> QED BY <1>7, <2>2, <2>3 DEF e, msg
<1>8. CASE msg.type = "data" /\ c.isConnectedToRoom
  <2> DEFINE more == c.incomingDiffBuffer \o msg.data
             next == [c EXCEPT !.incomingDiffBuffer = more]
  <2>1. msg.data \in Seq(DataMessage) /\ DataOf(msg) = msg.data
    BY <1>1, <1>8 DEF ServerMessage, DataOf
  <2>2. HandleServerEvent(c, msg) = next
    BY <1>8 DEF HandleServerEvent
  <2>3. c.incomingDiffBuffer \in Seq(DataMessage)
        /\ SessionData(e) \in Seq(DataMessage)
    BY <1>1, SessionDataType DEF Client
  <2>4. more \o SessionData(e) = c.incomingDiffBuffer \o SessionData(d)
    <3>1. SessionData(d) = msg.data \o SessionData(e)
      BY <1>1, <2>1, Zenon
    <3>2. more \o SessionData(e)
            = c.incomingDiffBuffer \o (msg.data \o SessionData(e))
      BY <2>1, <2>3, MessagesAssoc, Zenon
    <3> QED BY <3>1, <3>2, Zenon
  <2>5. Rising(k, t, more \o SessionData(e))
    BY <1>8, <2>4 DEF Forward
  <2> HIDE DEF more
  <2>6. /\ next.incomingDiffBuffer = more /\ next.lastServerClock = k
        /\ next.isConnectedToRoom /\ next.status = c.status
        /\ next.latestConnectRequestId = c.latestConnectRequestId
        /\ next.loaded = c.loaded /\ next.astray = c.astray
    BY <1>8 DEF Client
  <2> HIDE DEF next
  <2>7. c.latestConnectRequestId = NoRequest
    BY <1>8 DEF Forward
  <2>8. Forward(t, next, e)
    BY <1>2, <1>3, <2>5, <2>6, <2>7 DEF Forward
  <2>9. Onward(c, next)
    BY <1>2, <2>6 DEF Onward
  <2> QED BY <1>8, <2>2, <2>8, <2>9 DEF e, msg
<1>9. CASE /\ msg.type # "close" /\ msg.type # "connect"
           /\ ~(msg.type = "data" /\ c.isConnectedToRoom)
  <2>1. HandleServerEvent(c, msg) = c
    BY <1>9 DEF HandleServerEvent
  <2>2. Forward(t, c, e)
    BY <1>4, <1>9 DEF DataOf
  <2> QED BY <1>5, <1>9, <2>1, <2>2 DEF e, msg
<1> QED BY <1>6, <1>7, <1>8, <1>9


\* A client that connects anew knows what it knew, and has heard nothing yet.
LEMMA ForwardDials ==
    ASSUME NEW t \in Nat, NEW c \in Client, NEW d, NEW b,
           c.status # SocketOnline, b.wire = <<>>, Forward(t, c, d)
    PROVE  LET e == SendConnectMessage([c EXCEPT !.out = <<>>])
           IN  Forward(t, e, b) /\ Onward(c, e)
<1> DEFINE e == SendConnectMessage([c EXCEPT !.out = <<>>])
<1>1. /\ e.isConnectedToRoom = c.isConnectedToRoom
      /\ e.pendingPushRequests = c.pendingPushRequests
      /\ e.incomingDiffBuffer = c.incomingDiffBuffer
      /\ e.lastServerClock = c.lastServerClock /\ e.loaded = c.loaded
      /\ e.astray = c.astray
  BY Dials
<1> HIDE DEF e
<1>2. /\ ~c.isConnectedToRoom /\ c.lastServerClock \in 0..t
      /\ c.pendingPushRequests = <<>> /\ c.incomingDiffBuffer = <<>>
  BY DEF Forward
<1>3. Requested(b) /\ \A i : i \notin 1..Len(b.wire)
  BY DEF Requested
<1>4. Forward(t, e, b)
  BY <1>1, <1>2, <1>3 DEF Forward
<1>5. Onward(c, e)
  BY <1>1, <1>2 DEF Onward
<1> QED BY <1>4, <1>5 DEF e

\* rebase, where the answers are for the requests at the front, empties the
\* buffer and takes the clock of its last event.
LEMMA RebaseOntoMoves ==
    ASSUME NEW c \in Client, NEW early \in SUBSET Ids, AnswersMatch(c),
           c.incomingDiffBuffer # <<>>
    PROVE  \E r \in Client :
             /\ r.incomingDiffBuffer = <<>>
             /\ r.lastServerClock = Last(c.incomingDiffBuffer).serverClock
             /\ r.status = c.status /\ r.isConnectedToRoom = c.isConnectedToRoom
             /\ r.latestConnectRequestId = c.latestConnectRequestId
             /\ r.loaded = c.loaded /\ (c.astray => r.astray)
             /\ RebaseOnto(c, early) \in {r, ResetConnection(r, FALSE)}
<1> DEFINE events == c.incomingDiffBuffer
           undoneStore == ApplyChanges(c.store, ReverseRecordsDiff(c.speculativeChanges))
           undone == [c EXCEPT !.store = undoneStore]
           received == FoldLeft(Receive, undone, events)
           left == received.pendingPushRequests
           first == [store |-> received.store, changes |-> NoChanges,
                     failed |-> FALSE, early |-> early]
           again == FoldLeft(Reapply, first, left)
           there == RemoteChange(c, again.store)
           changes == IF again.failed THEN NoChanges ELSE again.changes
           atClock == Last(events).serverClock
           astray == there.astray \/ (again.failed /\ again.store # received.store)
           rebased == [there EXCEPT
                         !.pendingPushRequests = left,
                         !.speculativeChanges = changes,
                         !.incomingDiffBuffer = <<>>,
                         !.lastServerClock = atClock,
                         !.astray = astray]
<1>1. /\ c.store \in Stores /\ c.speculativeChanges \in DocChanges
      /\ events \in Seq(DataMessage) /\ events # <<>>
  BY DEF Client
<1>2. undoneStore \in Stores
  BY <1>1, ReverseDocChanges, ApplyDocChanges
<1>3. undone \in Client /\ undone.pendingPushRequests = c.pendingPushRequests
  <2> HIDE DEF undoneStore
  <2> QED BY <1>2 DEF Client
<1>4. Matched(AnsweredBy(events), undone.pendingPushRequests)
  <2>1. AnsweredBy(events) \in Seq(Nat)
    BY <1>1, AnsweredByType
  <2>2. DOMAIN AnsweredBy(events) = 1..Len(AnsweredBy(events))
    BY <2>1
  <2> QED BY <1>3, <2>2 DEF AnswersMatch, Matched
<1>5. received \in Client
  <2> HIDE DEF undone
  <2> QED BY <1>1, <1>3, <1>4, ReceiveAll DEF Matched
<1>6. NoChanges \in DocChanges
  BY NoChangesInDiffs DEF DocChanges
<1> HIDE DEF received
<1>7. left \in Seq(DocRequest) /\ first \in Again
  BY <1>5, <1>6 DEF Again, Client
<1>8. again = Reapplying!Fold(first, left)
  BY ClientFolds
<1> HIDE DEF again, first
<1>9. again \in Again
  <2> HIDE DEF left
  <2> QED BY <1>7, <1>8, ReapplyType, Reapplying!FoldKeeps
<1>10. /\ there \in Client
       /\ there.astray = c.astray /\ there.status = c.status
       /\ there.isConnectedToRoom = c.isConnectedToRoom
       /\ there.loaded = c.loaded
       /\ there.latestConnectRequestId = c.latestConnectRequestId
  <2>1. there \in Client
    BY <1>9, RemoteChangeType DEF Again
  <2>2. /\ there.astray = c.astray /\ there.status = c.status
        /\ there.isConnectedToRoom = c.isConnectedToRoom
        /\ there.loaded = c.loaded
        /\ there.latestConnectRequestId = c.latestConnectRequestId
    BY DEF RemoteChange, Client
  <2> QED BY <2>1, <2>2
<1>11. /\ changes \in DocChanges /\ atClock \in Nat /\ astray \in BOOLEAN
       /\ <<>> \in Seq(DataMessage)
  <2>1. Last(events) \in DataMessage
    BY <1>1 DEF Last
  <2>2. atClock \in Nat
    BY <2>1 DEF DataMessage
  <2>3. astray \in BOOLEAN
    BY <1>9, <1>10 DEF Again, Client
  <2> QED BY <1>6, <1>9, <2>2, <2>3 DEF Again, Client
<1>12. c.astray => astray
  BY <1>10
<1>13. RebaseOnto(c, early) \in {rebased, ResetConnection(rebased, FALSE)}
  BY DEF RebaseOnto, received, again, first
<1> HIDE DEF changes, atClock, astray, there, left
<1>14. /\ rebased \in Client /\ rebased.incomingDiffBuffer = <<>>
       /\ rebased.lastServerClock = atClock
       /\ rebased.astray = astray /\ rebased.status = c.status
       /\ rebased.isConnectedToRoom = c.isConnectedToRoom
       /\ rebased.loaded = c.loaded
       /\ rebased.latestConnectRequestId = c.latestConnectRequestId
  BY <1>7, <1>10, <1>11 DEF Client
<1> HIDE DEF rebased
<1> QED BY <1>12, <1>13, <1>14 DEF atClock

\* What never comes back does not come back in two steps either.
LEMMA OnwardTransitive ==
    ASSUME NEW a \in Client, NEW b \in Client, NEW c \in Client,
           Onward(a, b), Onward(b, c)
    PROVE  Onward(a, c)
<1>1. /\ a.lastServerClock \in Nat /\ b.lastServerClock \in Nat
      /\ c.lastServerClock \in Nat
  BY DEF Client
<1>2. a.lastServerClock <= c.lastServerClock
  BY <1>1 DEF Onward
<1>3. (a.loaded => c.loaded) /\ (a.astray => c.astray)
  BY Zenon DEF Onward
<1> QED BY <1>2, <1>3 DEF Onward

\* A client moves on when it rebases.
LEMMA ForwardRebases ==
    ASSUME NEW t \in Nat, NEW c \in Client, NEW d \in Session,
           NEW early \in SUBSET Ids, c.incomingDiffBuffer # <<>>, Forward(t, c, d)
    PROVE  Forward(t, Rebase(c, early), d) /\ Onward(c, Rebase(c, early))
<1> DEFINE f == FlushHistory(c)
           data == SessionData(d)
<1>1. f \in Client /\ Continues(c, f)
  BY FlushHistoryPushed, FlushContinues
<1> HIDE DEF f
<1>2. Forward(t, f, d) /\ Onward(c, f)
  BY <1>1, ForwardContinues
<1>3. f.incomingDiffBuffer # <<>>
  BY <1>1 DEF Continues
<1>4. ASSUME NEW r \in Client, LetsGo(r, ResetConnection(r, FALSE)),
             Forward(t, r, d), Onward(f, r)
      PROVE  /\ Forward(t, ResetConnection(r, FALSE), d)
             /\ Onward(f, ResetConnection(r, FALSE))
  <2> DEFINE e == ResetConnection(r, FALSE)
  <2>1. e \in Client
    BY ResetConnectionType
  <2> HIDE DEF e
  <2>2. Forward(t, e, d) /\ Onward(r, e)
    BY <1>4, <2>1, ForwardLetsGo DEF e
  <2>3. Onward(f, e)
    BY <1>1, <1>4, <2>1, <2>2, OnwardTransitive
  <2> QED BY <2>2, <2>3 DEF e
<1>5. CASE ~AnswersMatch(f)
  <2>1. Rebase(c, early) = ResetConnection(f, FALSE)
    BY <1>5 DEF Rebase, f
  <2>2. Onward(f, f)
    BY <1>1 DEF Onward, Client
  <2>3. LetsGo(f, ResetConnection(f, FALSE))
    BY <1>1, ResetLetsGo
  <2>4. /\ Forward(t, ResetConnection(f, FALSE), d)
        /\ Onward(f, ResetConnection(f, FALSE))
    BY <1>1, <1>2, <1>4, <2>2, <2>3
  <2> DEFINE e == ResetConnection(f, FALSE)
  <2>5. e \in Client
    BY <1>1, ResetConnectionType
  <2> HIDE DEF e
  <2>6. Onward(c, e)
    BY <1>1, <1>2, <2>4, <2>5, OnwardTransitive DEF e
  <2> QED BY <2>1, <2>4, <2>6 DEF e
<1>6. ASSUME AnswersMatch(f)
      PROVE  Forward(t, Rebase(c, early), d) /\ Onward(c, Rebase(c, early))
  <2> DEFINE events == f.incomingDiffBuffer
             k == f.lastServerClock
  <2>1. PICK r \in Client :
          /\ r.incomingDiffBuffer = <<>>
          /\ r.lastServerClock = Last(events).serverClock
          /\ r.status = f.status /\ r.isConnectedToRoom = f.isConnectedToRoom
          /\ r.latestConnectRequestId = f.latestConnectRequestId
          /\ r.loaded = f.loaded /\ (f.astray => r.astray)
          /\ RebaseOnto(f, early) \in {r, ResetConnection(r, FALSE)}
    BY <1>1, <1>3, <1>6, RebaseOntoMoves
  <2>2. Rebase(c, early) = RebaseOnto(f, early)
    BY <1>6 DEF Rebase, f
  <2>3. events \in Seq(DataMessage) /\ events # <<>> /\ k \in 0..t
        /\ data \in Seq(DataMessage)
    BY <1>1, <1>2, <1>3, SessionDataType DEF Client, Forward
  <2>4. f.isConnectedToRoom /\ Rising(k, t, events \o data)
    BY <1>2, <1>3 DEF Forward
  <2> DEFINE j == EndOf(k, events)
  <2>5. Rising(j, t, data) /\ j \in k..t
    <3> HIDE DEF events, k, data
    <3> QED BY <2>3, <2>4, RisingParts
  <2>6. r.lastServerClock = j
    <3>1. Len(events) # 0
      BY <2>3
    <3> QED BY <2>1, <3>1 DEF EndOf, ClockAt, Last
  <2>7. r.incomingDiffBuffer \o data = data
    BY <2>1, <2>3, ConcatEmpty
  <2>8. /\ f.status = SocketOnline /\ f.latestConnectRequestId = NoRequest
        /\ Requested(d)
    BY <1>2, <2>4 DEF Forward
  <2> HIDE DEF j, events
  <2>9. j \in 0..t /\ k <= j
    BY <2>3, <2>5
  <2> HIDE DEF k
  <2>10. Forward(t, r, d)
    BY <2>1, <2>4, <2>5, <2>6, <2>7, <2>8, <2>9 DEF Forward, data
  <2>11. Onward(f, r)
    BY <2>1, <2>6, <2>9 DEF Onward, k
  <2>12. ASSUME NEW e \in Client, Forward(t, e, d), Onward(f, e)
         PROVE  Forward(t, e, d) /\ Onward(c, e)
    BY <1>1, <1>2, <2>12, OnwardTransitive
  <2>13. LetsGo(r, ResetConnection(r, FALSE)) /\ ResetConnection(r, FALSE) \in Client
    BY ResetLetsGo, ResetConnectionType
  <2>14. /\ Forward(t, ResetConnection(r, FALSE), d)
         /\ Onward(f, ResetConnection(r, FALSE))
    BY <1>4, <2>10, <2>11, <2>13
  <2> QED BY <2>1, <2>2, <2>10, <2>11, <2>12, <2>13, <2>14
<1> QED BY <1>5, <1>6


-----------------------------------------------------------------------------
(***************************************************************************)
(* Every client, astray or not, only moves on; one step moves one client,  *)
(* or gives the documents their next version.                              *)
(***************************************************************************)
Forwards == \A s \in SessionIds : Forward(clock, clients[s], sessions[s])

InForward ==
    /\ SyncTyping /\ RecordsInv /\ MessagesInv /\ Forwards
    /\ SyncTyping' /\ TypeOK' /\ HistoryGoesOn

OneMoves ==
    /\ UNCHANGED <<hist, clock>>
    /\ \E s \in SessionIds : \E next \in Client :
         clients' = [clients EXCEPT ![s] = next] /\ Onward(clients[s], next)

\* The same version, loaded or not, astray or not.
SameCopy(c, e) ==
    /\ e.lastServerClock = c.lastServerClock
    /\ e.loaded = c.loaded /\ e.astray = c.astray
    /\ Confirmed(e) = Confirmed(c)

RoomMoves ==
    /\ \A s \in SessionIds : SameCopy(clients[s], clients'[s])
    /\ UNCHANGED <<hist, clock>> \/ clock' = clock + 1

\* What each session and each client of it have.
LEMMA InForwardHas ==
    ASSUME InForward
    PROVE  /\ TypeOK /\ clock \in Nat
           /\ \A s \in SessionIds :
                /\ clients[s] \in Client /\ sessions[s] \in Session
                /\ clients'[s] \in Client /\ sessions'[s] \in Session
                /\ late[s] \in Seq(ClientMessage)
                /\ Forward(clock, clients[s], sessions[s])
<1>1. TypeOK
  BY DEF InForward, MessagesInv
<1> QED BY <1>1 DEF InForward, TypeOK, SyncTyping, Forwards

\* A step of one client.
LEMMA OneClientForward ==
    ASSUME InForward, NEW s \in SessionIds, NEW next \in Client,
           ClientStep(s, next),
           Forward(clock, next, sessions[s]), Onward(clients[s], next)
    PROVE  Forwards' /\ OneMoves
<1>1. /\ clients' = [clients EXCEPT ![s] = next]
      /\ UNCHANGED <<hist, clock, sessions>>
  BY DEF ClientStep, vars
<1>2. \A t \in SessionIds : clients'[t] = IF t = s THEN next ELSE clients[t]
  BY <1>1 DEF InForward, SyncTyping
<1> QED BY <1>1, <1>2, InForwardHas DEF Forwards, OneMoves

\* A client that only does things of its own.
LEMMA OneContinuesForward ==
    ASSUME InForward, NEW s \in SessionIds, NEW next \in Client,
           ClientStep(s, next), Continues(clients[s], next)
    PROVE  Forwards' /\ OneMoves
<1>1. Forward(clock, next, sessions[s]) /\ Onward(clients[s], next)
  BY InForwardHas, ForwardContinues
<1> QED BY <1>1, OneClientForward

\* A user edits.
LEMMA EditForward ==
    ASSUME InForward, NEW s \in SessionIds, NEW id \in Ids,
           NEW record \in scenario.edits[s][id], Edit(s, id, record)
    PROVE  Forwards' /\ OneMoves
<1> DEFINE c == clients[s]
           changed == UserChange(c, [c.store EXCEPT ![id] = record])
           d == [changed EXCEPT !.edits = @ + 1]
<1>1. c \in Client /\ record \in MaybeRecord
  BY ScenarioType DEF InForward, SyncTyping
<1>2. changed \in Client /\ Continues(c, changed)
  <2> HIDE DEF c
  <2> QED BY <1>1, UserChangeType, UserContinues
<1>3. ClientStep(s, d)
  BY DEF Edit
<1> HIDE DEF changed, c
<1>4. d \in Client /\ Continues(c, d)
  BY <1>1, <1>2, EditCountContinues
<1> HIDE DEF d
<1> QED BY <1>3, <1>4, OneContinuesForward DEF c

\* A cursor moves.
LEMMA MoveForward ==
    ASSUME InForward, NEW s \in SessionIds, NEW presence \in scenario.moves,
           Move(s, presence)
    PROVE  Forwards' /\ OneMoves
<1> DEFINE c == clients[s]
           changed == PushPresence(c, presence)
           d == [changed EXCEPT !.edits = @ + 1]
<1>1. c \in Client /\ presence \in MaybeRecord
  BY ScenarioType DEF InForward, SyncTyping
<1>2. changed \in Client /\ Continues(c, changed)
  <2> HIDE DEF c
  <2> QED BY <1>1, PushPresenceType, PushPresenceContinues
<1>3. ClientStep(s, d)
  BY DEF Move
<1> HIDE DEF changed, c
<1>4. d \in Client /\ Continues(c, d)
  BY <1>1, <1>2, EditCountContinues
<1> HIDE DEF d
<1> QED BY <1>3, <1>4, OneContinuesForward DEF c

\* What a client does in its own time.
LEMMA OwnStepsForward ==
    ASSUME InForward, NEW s \in SessionIds,
           \/ ListenerFlush(s) \/ SendPushes(s) \/ RunRebase(s) \/ LoseConnection(s)
    PROVE  Forwards' /\ OneMoves
<1> DEFINE c == clients[s]
           d == sessions[s]
<1>1. c \in Client /\ d \in Session /\ clock \in Nat /\ Forward(clock, c, d)
  BY InForwardHas
<1>2. CASE ListenerFlush(s)
  <2> DEFINE next == FlushHistory(c)
  <2>1. next \in Client /\ Continues(c, next)
    BY <1>1, FlushHistoryPushed, FlushContinues
  <2>2. ClientStep(s, next)
    BY <1>2 DEF ListenerFlush
  <2> HIDE DEF next
  <2> QED BY <2>1, <2>2, OneContinuesForward
<1>3. CASE SendPushes(s)
  <2> DEFINE next == FlushPendingPushRequests(c)
  <2>1. next \in Client /\ Continues(c, next)
    BY <1>1, FlushPendingType, SendContinues
  <2>2. ClientStep(s, next)
    BY <1>3 DEF SendPushes
  <2> HIDE DEF next
  <2> QED BY <2>1, <2>2, OneContinuesForward
<1>4. CASE RunRebase(s)
  <2>1. PICK early \in SUBSET Ids : ClientStep(s, Rebase(c, early))
    BY <1>4 DEF RunRebase
  <2> DEFINE next == Rebase(c, early)
  <2>2. c.incomingDiffBuffer # <<>>
    BY <1>4 DEF RunRebase
  <2>3. Forward(clock, next, d) /\ Onward(c, next)
    <3> HIDE DEF c, d
    <3> QED BY <1>1, <2>2, ForwardRebases
  <2>4. next \in Client
    <3> HIDE DEF c
    <3> QED BY <1>1, <2>2, RebaseType
  <2> HIDE DEF next
  <2> QED BY <2>1, <2>3, <2>4, OneClientForward DEF next
<1>5. CASE LoseConnection(s)
  <2> DEFINE next == ConnectionLost(c, FALSE)
  <2>1. ClientStep(s, next)
    BY <1>5 DEF LoseConnection
  <2>2. next \in Client /\ LetsGo(c, next)
    BY <1>1, ConnectionLostType, LostLetsGo
  <2>3. Forward(clock, next, d) /\ Onward(c, next)
    <3> HIDE DEF c, d, next
    <3> QED BY <1>1, <2>2, ForwardLetsGo
  <2> HIDE DEF next
  <2> QED BY <2>1, <2>2, <2>3, OneClientForward
<1> QED BY <1>2, <1>3, <1>4, <1>5

\* A client that hears what everybody hears.
LEMMA ForwardOverheard ==
    ASSUME InForward, NEW s \in SessionIds, Overhears(sessions[s], sessions'[s])
    PROVE  Forward(clock', clients[s], sessions'[s])
<1> DEFINE c == clients[s]
           d == sessions[s]
           e == sessions'[s]
<1>1. PICK msgs \in Seq(DataMessage) : News(msgs) /\ Hears(d, e, msgs)
  BY DEF Overhears
<1>2. HistoryGoesOn /\ \A i \in 1..Len(msgs) : msgs[i].serverClock = clock'
  BY <1>1 DEF InForward, News
<1>3. c \in Client /\ d \in Session /\ e \in Session /\ Forward(clock, c, d)
  BY InForwardHas
<1> HIDE DEF c, d, e
<1> QED BY <1>1, <1>2, <1>3, ForwardHeard DEF c, d, e

\* A step of one session, and of its client, that the others overhear.
LEMMA OneSessionForward ==
    ASSUME InForward, NEW s \in SessionIds, NEW next,
           clients' = [clients EXCEPT ![s] = next],
           \A t \in SessionIds \ {s} : Overhears(sessions[t], sessions'[t]),
           Forward(clock', next, sessions'[s])
    PROVE  Forwards'
<1>1. \A t \in SessionIds : clients'[t] = IF t = s THEN next ELSE clients[t]
  BY DEF InForward, SyncTyping
<1>2. ASSUME NEW t \in SessionIds
      PROVE  Forward(clock', clients'[t], sessions'[t])
  <2>1. CASE t = s
    BY <1>1, <2>1
  <2>2. CASE t # s
    BY <1>1, <2>2, ForwardOverheard
  <2> QED BY <2>1, <2>2
<1> QED BY <1>2 DEF Forwards


\* The room's own steps.
LEMMA RoomStepForward ==
    ASSUME InForward, RoomStep
    PROVE  Forwards' /\ RoomMoves
<1>1. UNCHANGED <<clients, late, scenario>>
  BY DEF RoomStep
<1>2. /\ TypeOK /\ MessagesInv /\ SyncTyping
      /\ \A s \in SessionIds : sessions[s] \in Session
  BY InForwardHas DEF InForward
<1>3. AllOverhear /\ UNCHANGED <<hist, clock>>
  <2>1. ASSUME NEW s \in SessionIds, \/ FlushTimer(s)
                                     \/ MayLose(s) /\ SocketCloses(s)
                                     \/ ~sessions[s].open /\ HandleClose(s)
        PROVE  AllOverhear /\ UNCHANGED <<hist, clock>>
    <3>1. FlushTimer(s) \/ SocketCloses(s) \/ HandleClose(s)
      BY <2>1
    <3>2. UNCHANGED <<hist, clock>>
      BY <3>1 DEF FlushTimer, SocketCloses, HandleClose, RecordsUnchanged
    <3> QED BY <1>2, <3>1, <3>2, SessionOpsOverheard
  <2>2. ASSUME NEW timedOut \in scenario.timeOuts, PruneSessions(timedOut)
        PROVE  AllOverhear /\ UNCHANGED <<hist, clock>>
    <3>1. UNCHANGED <<hist, clock>>
      BY <2>2 DEF PruneSessions, ClocksUnchanged
    <3> QED BY <1>2, <2>2, <3>1, ScenarioType, PruneSessionsOverheard
  <2>3. ASSUME PruneTombstones PROVE AllOverhear /\ UNCHANGED <<hist, clock>>
    <3>1. UNCHANGED <<hist, clock, sessions>>
      BY <2>3 DEF PruneTombstones
    <3> QED BY <1>2, <3>1, OverhearsItself DEF AllOverhear, SameDocs
  <2> QED BY <2>1, <2>2, <2>3 DEF RoomStep
<1>4. RoomMoves
  BY <1>1, <1>3 DEF RoomMoves, SameCopy
<1> QED BY <1>1, <1>3, <1>4, ForwardOverheard DEF AllOverhear, Forwards

\* A client opens a socket.
LEMMA ConnectForward ==
    ASSUME InForward, NEW s \in SessionIds, Connect(s)
    PROVE  Forwards' /\ OneMoves
<1> DEFINE c == clients[s]
           next == SendConnectMessage([c EXCEPT !.out = <<>>])
           e == sessions'[s]
<1>1. c \in Client /\ TypeOK /\ clock \in Nat /\ Forward(clock, c, sessions[s])
  BY InForwardHas
<1>2. /\ clients' = [clients EXCEPT ![s] = next] /\ UNCHANGED <<hist, clock>>
      /\ c.status # SocketOnline
  BY DEF Connect, HandleNewSession, RecordsUnchanged, SocketOnline, SocketOffline
<1>3. PICK presenceId :
        sessions' = [sessions EXCEPT ![s] =
           [NoSession EXCEPT !.state = AwaitingConnectMessage,
                             !.presenceId = presenceId,
                             !.isReadonly = FALSE, !.open = TRUE]]
  BY DEF Connect, HandleNewSession
<1>4. e.wire = <<>> /\ \A t \in SessionIds \ {s} : sessions'[t] = sessions[t]
  BY <1>1, <1>3 DEF TypeOK, NoSession
<1>5. \A t \in SessionIds \ {s} : Overhears(sessions[t], sessions'[t])
  BY <1>2, <1>4, InForwardHas, OverhearsItself DEF SameDocs
<1>6. Forward(clock, next, e) /\ Onward(c, next) /\ next \in Client
  <2> HIDE DEF c, e, next
  <2> QED BY <1>1, <1>2, <1>4, ForwardDials, Dials DEF next
<1> HIDE DEF next
<1>7. Forward(clock', next, sessions'[s])
  BY <1>2, <1>6
<1>8. Forwards'
  BY <1>2, <1>5, <1>7, OneSessionForward
<1> QED BY <1>2, <1>6, <1>8 DEF OneMoves

\* A client hears of its session.
LEMMA ClientReceiveForward ==
    ASSUME InForward, NEW s \in SessionIds, ClientReceive(s)
    PROVE  Forwards' /\ OneMoves
<1> DEFINE c == clients[s]
           d == sessions[s]
           msg == Head(d.wire)
           next == IF msg.type = "close" THEN ConnectionLost(c, msg.fatal)
                   ELSE HandleServerEvent(c, msg)
           left == [d EXCEPT !.wire = Tail(@)]
<1>1. c \in Client /\ d \in Session /\ TypeOK /\ clock \in Nat
      /\ Forward(clock, c, d)
  BY InForwardHas
<1>2. /\ d.wire # <<>> /\ c.status = SocketOnline
      /\ sessions' = [sessions EXCEPT ![s] = left]
      /\ clients' = [clients EXCEPT ![s] = next]
      /\ UNCHANGED <<hist, clock>>
  BY DEF ClientReceive, Deliver, RecordsUnchanged
<1>3. Forward(clock, next, left) /\ Onward(c, next)
  <2> HIDE DEF c, d
  <2> QED BY <1>1, <1>2, ForwardReceives
<1> HIDE DEF next, left
<1>4. sessions'[s] = left /\ \A t \in SessionIds \ {s} : sessions'[t] = sessions[t]
  BY <1>1, <1>2 DEF TypeOK
<1>5. \A t \in SessionIds \ {s} : Overhears(sessions[t], sessions'[t])
  BY <1>2, <1>4, InForwardHas, OverhearsItself DEF SameDocs
<1>6. Forward(clock', next, sessions'[s])
  BY <1>2, <1>3, <1>4
<1>7. Forwards'
  BY <1>2, <1>5, <1>6, OneSessionForward
<1>8. next \in Client
  <2>1. clients'[s] \in Client /\ clients'[s] = next
    BY <1>2, InForwardHas DEF InForward, SyncTyping
  <2> QED BY <2>1
<1> QED BY <1>2, <1>3, <1>7, <1>8 DEF OneMoves

\* The room handles a message.
LEMMA HandledForward ==
    ASSUME InForward, NEW s \in SessionIds, NEW c \in Client,
           NEW msg \in ClientMessage, RoomHandles(s, msg),
           Forward(clock, c, sessions[s])
    PROVE  /\ Forward(clock', c, sessions'[s])
           /\ \A t \in SessionIds \ {s} : Overhears(sessions[t], sessions'[t])
           /\ \/ UNCHANGED <<hist, clock>>
              \/ msg.type = "push" /\ clock' = clock + 1
<1> DEFINE d == sessions[s]
           e == sessions'[s]
<1>1. /\ d \in Session /\ e \in Session /\ RecordsInv /\ MessagesInv
      /\ clock \in Nat /\ HistoryGoesOn /\ TypeOK
  BY InForwardHas DEF InForward
<1>2. CASE UNCHANGED vars
  <2>1. UNCHANGED <<hist, clock, sessions>>
    BY <1>2 DEF vars
  <2> QED BY <2>1, InForwardHas, OverhearsItself DEF SameDocs
<1>3. ASSUME msg.type = "connect",
             HandleConnectRequest(s, msg.lastServerClock, TLSYNC_PROTOCOL_VERSION,
                                  TRUE, msg.connectRequestId)
      PROVE  /\ Forward(clock', c, e) /\ UNCHANGED <<hist, clock>>
             /\ \A t \in SessionIds \ {s} : Overhears(sessions[t], sessions'[t])
  <2> DEFINE k == msg.lastServerClock
             reqId == msg.connectRequestId
  <2>1. k \in Nat /\ reqId \in Nat /\ reqId # NoRequest
    BY <1>3 DEF ClientMessage
  <2>2. UNCHANGED <<clock, hist>>
    BY <1>3 DEF HandleConnectRequest, ClocksUnchanged
  <2>3. /\ \A t \in SessionIds \ {s} : sessions'[t] = sessions[t]
        /\ \E m \in ServerMessage :
             /\ m.type = "connect" /\ m.connectRequestId = reqId
             /\ m.serverClock = clock /\ Accepted(d, e, m)
    <3> HIDE DEF k, reqId
    <3> QED BY <1>1, <1>3, <2>1, ConnectRequestAccepted DEF k, reqId
  <2>4. \A t \in SessionIds \ {s} : Overhears(sessions[t], sessions'[t])
    BY <2>2, <2>3, InForwardHas, OverhearsItself DEF SameDocs
  <2>5. Forward(clock, c, e)
    <3>1. Forward(clock, c, d)
      OBVIOUS
    <3> HIDE DEF d, e, reqId
    <3> QED BY <1>1, <2>1, <2>3, <3>1, ForwardAccepted
  <2> QED BY <2>2, <2>4, <2>5
<1>4. ASSUME msg.type = "push",
             HandlePushRequest(s, msg.diff, msg.presence, msg.clientClock)
      PROVE  /\ Forward(clock', c, e) /\ clock' = clock + 1
             /\ \A t \in SessionIds \ {s} : Overhears(sessions[t], sessions'[t])
  <2> DEFINE k == msg.clientClock
             diff == msg.diff
             presence == msg.presence
  <2>1. k \in Nat /\ diff \in DocDiffs /\ presence \in PresencePushes
    BY <1>4 DEF ClientMessage
  <2>2. /\ \A t \in SessionIds \ {s} : Overhears(sessions[t], sessions'[t])
        /\ \/ Overhears(d, e)
           \/ \E answer \in DataMessage :
                Settles(answer, diff) /\ Hears(d, e, <<answer>>)
    <3> HIDE DEF k, diff, presence
    <3> QED BY <1>1, <1>4, <2>1, HandlePushRequestOverheard DEF k, diff, presence
  <2>3. clock' = clock + 1
    <3>1. IncrementClock
      BY <1>4 DEF HandlePushRequest
    <3> QED BY <3>1 DEF IncrementClock
  <2>4. ASSUME NEW msgs \in Seq(DataMessage), Hears(d, e, msgs),
               \A i \in 1..Len(msgs) : msgs[i].serverClock = clock'
        PROVE  Forward(clock', c, e)
    <3>1. Forward(clock, c, d)
      OBVIOUS
    <3> HIDE DEF d, e
    <3> QED BY <1>1, <2>4, <3>1, ForwardHeard
  <2>5. Overhears(d, e) => Forward(clock', c, e)
    BY <2>4 DEF Overhears, News
  <2>6. ASSUME NEW answer \in DataMessage, Settles(answer, diff),
               Hears(d, e, <<answer>>)
        PROVE  Forward(clock', c, e)
    <3>1. /\ <<answer>> \in Seq(DataMessage)
          /\ \A i \in 1..Len(<<answer>>) : <<answer>>[i] = answer
      OBVIOUS
    <3>2. answer.serverClock = clock'
      BY <2>6 DEF Settles
    <3> HIDE DEF d, e
    <3> QED BY <2>4, <2>6, <3>1, <3>2
  <2> QED BY <2>2, <2>3, <2>5, <2>6
<1> QED BY <1>2, <1>3, <1>4 DEF RoomHandles

\* The room receives a client's message.
LEMMA RoomReceiveForward ==
    ASSUME InForward, NEW s \in SessionIds, RoomReceive(s)
    PROVE  Forwards' /\ RoomMoves
<1> DEFINE c == clients[s]
           d == sessions[s]
           msg == Head(c.out)
           next == [c EXCEPT !.out = Tail(@)]
<1>1. c \in Client /\ Forward(clock, c, d)
  BY InForwardHas
<1>2. /\ c.out # <<>> /\ RoomHandles(s, msg)
      /\ clients' = [clients EXCEPT ![s] = next]
  BY DEF RoomReceive
<1>3. c.out \in Seq(ClientMessage)
  BY <1>1 DEF Client
<1>4. msg \in ClientMessage /\ Tail(c.out) \in Seq(ClientMessage)
  BY <1>2, <1>3, TailOfOne
<1>5. /\ next \in Client /\ next.status = c.status
      /\ next.isConnectedToRoom = c.isConnectedToRoom
      /\ next.latestConnectRequestId = c.latestConnectRequestId
      /\ next.pendingPushRequests = c.pendingPushRequests
      /\ next.incomingDiffBuffer = c.incomingDiffBuffer
      /\ next.lastServerClock = c.lastServerClock
      /\ next.loaded = c.loaded /\ next.astray = c.astray
      /\ next.store = c.store /\ next.history = c.history
      /\ next.speculativeChanges = c.speculativeChanges
  BY <1>1, <1>4 DEF Client
<1> HIDE DEF next, msg
<1>6. Forward(clock, next, d)
  BY <1>1, <1>5 DEF Forward, Accepts
<1>7. /\ Forward(clock', next, sessions'[s])
      /\ \A t \in SessionIds \ {s} : Overhears(sessions[t], sessions'[t])
      /\ UNCHANGED <<hist, clock>> \/ clock' = clock + 1
  BY <1>2, <1>4, <1>5, <1>6, HandledForward
<1>8. Forwards'
  BY <1>2, <1>7, OneSessionForward
<1>9. SameCopy(c, next)
  BY <1>5 DEF SameCopy, Confirmed
<1>10. \A t \in SessionIds : clients'[t] = IF t = s THEN next ELSE clients[t]
  BY <1>2 DEF InForward, SyncTyping
<1>11. \A t \in SessionIds : SameCopy(clients[t], clients[t])
  BY DEF SameCopy
<1> QED BY <1>7, <1>8, <1>9, <1>10, <1>11 DEF RoomMoves

\* The room receives what an earlier socket still delivers.
LEMMA RoomReceiveLateForward ==
    ASSUME InForward, NEW s \in SessionIds, RoomReceiveLate(s)
    PROVE  Forwards' /\ (OneMoves \/ RoomMoves)
<1> DEFINE c == clients[s]
           d == sessions[s]
           l == late[s]
           msg == Head(l)
           lost == c.astray \/ Discards(s, msg)
           next == [c EXCEPT !.astray = lost]
<1>1. c \in Client /\ Forward(clock, c, d) /\ l \in Seq(ClientMessage)
  BY InForwardHas
<1>2. /\ l # <<>> /\ RoomHandles(s, msg)
      /\ clients' = [clients EXCEPT ![s] = next]
  <2>1. clients' = [clients EXCEPT ![s].astray = @ \/ Discards(s, msg)]
    BY DEF RoomReceiveLate
  <2>2. clients' = [clients EXCEPT ![s] = next]
    BY <2>1
  <2> QED BY <2>2 DEF RoomReceiveLate
<1>3. msg \in ClientMessage
  <2> HIDE DEF l
  <2> QED BY <1>1, <1>2, TailOfOne DEF l
<1>4. lost \in BOOLEAN /\ (c.astray => lost)
      /\ (msg.type # "connect" => lost = c.astray)
  BY <1>1 DEF Client, Discards
<1> HIDE DEF lost
<1>5. /\ next \in Client /\ next.status = c.status
      /\ next.isConnectedToRoom = c.isConnectedToRoom
      /\ next.latestConnectRequestId = c.latestConnectRequestId
      /\ next.pendingPushRequests = c.pendingPushRequests
      /\ next.incomingDiffBuffer = c.incomingDiffBuffer
      /\ next.lastServerClock = c.lastServerClock
      /\ next.loaded = c.loaded /\ next.astray = lost
      /\ next.store = c.store /\ next.history = c.history
      /\ next.speculativeChanges = c.speculativeChanges
  BY <1>1, <1>4 DEF Client
<1> HIDE DEF next, msg
<1>6. Forward(clock, next, d)
  BY <1>1, <1>5 DEF Forward, Accepts
<1>7. /\ Forward(clock', next, sessions'[s])
      /\ \A t \in SessionIds \ {s} : Overhears(sessions[t], sessions'[t])
      /\ UNCHANGED <<hist, clock>> \/ (msg.type = "push" /\ clock' = clock + 1)
  BY <1>2, <1>3, <1>5, <1>6, HandledForward
<1>8. Forwards'
  BY <1>2, <1>7, OneSessionForward
<1>9. CASE UNCHANGED <<hist, clock>>
  <2>1. c.lastServerClock \in Nat
    BY <1>1 DEF Client
  <2>2. Onward(c, next)
    BY <1>4, <1>5, <2>1 DEF Onward
  <2> QED BY <1>2, <1>5, <1>8, <1>9, <2>2 DEF OneMoves
<1>10. CASE msg.type = "push" /\ clock' = clock + 1
  <2>1. lost = c.astray
    BY <1>4, <1>10
  <2>2. SameCopy(c, next)
    BY <1>5, <2>1 DEF SameCopy, Confirmed
  <2>3. \A t \in SessionIds : clients'[t] = IF t = s THEN next ELSE clients[t]
    BY <1>2 DEF InForward, SyncTyping
  <2>4. \A t \in SessionIds : SameCopy(clients[t], clients[t])
    BY DEF SameCopy
  <2> QED BY <1>8, <1>10, <2>2, <2>3, <2>4 DEF RoomMoves
<1> QED BY <1>7, <1>9, <1>10

\* Every step moves one client on, or the room.
LEMMA NextForward ==
    ASSUME InForward, [SyncNext]_syncVars
    PROVE  Forwards' /\ (OneMoves \/ RoomMoves)
<1>1. ASSUME NEW s \in SessionIds, NEW id \in Ids,
             NEW record \in scenario.edits[s][id], Edit(s, id, record)
      PROVE  Forwards' /\ OneMoves
  BY <1>1, EditForward
<1>2. ASSUME NEW s \in SessionIds, NEW presence \in scenario.moves,
             Move(s, presence)
      PROVE  Forwards' /\ OneMoves
  BY <1>2, MoveForward
<1>3. ASSUME NEW s \in SessionIds,
             \/ ListenerFlush(s) \/ SendPushes(s) \/ RunRebase(s) \/ LoseConnection(s)
      PROVE  Forwards' /\ OneMoves
  BY <1>3, OwnStepsForward
<1>4. ASSUME NEW s \in SessionIds, Connect(s) PROVE Forwards' /\ OneMoves
  BY <1>4, ConnectForward
<1>5. ASSUME NEW s \in SessionIds, ClientReceive(s) PROVE Forwards' /\ OneMoves
  BY <1>5, ClientReceiveForward
<1>6. ASSUME NEW s \in SessionIds, RoomReceive(s) PROVE Forwards' /\ RoomMoves
  BY <1>6, RoomReceiveForward
<1>7. ASSUME NEW s \in SessionIds, RoomReceiveLate(s)
      PROVE  Forwards' /\ (OneMoves \/ RoomMoves)
  BY <1>7, RoomReceiveLateForward
<1>8. RoomStep => Forwards' /\ RoomMoves
  BY RoomStepForward
<1>9. UNCHANGED syncVars => Forwards' /\ RoomMoves
  BY DEF syncVars, vars, Forwards, InForward, RoomMoves, SameCopy
<1> QED BY <1>1, <1>2, <1>3, <1>4, <1>5, <1>6, <1>7, <1>8, <1>9 DEF SyncNext

\* At first no client knows of a version.
LEMMA InitForward ==
    ASSUME SyncInit, TypeOK
    PROVE  Forwards
<1> DEFINE c == NewClient
<1>1. /\ ~c.isConnectedToRoom /\ c.lastServerClock = 0
      /\ c.pendingPushRequests = <<>> /\ c.incomingDiffBuffer = <<>>
  BY DEF NewClient
<1> HIDE DEF c
<1>2. \A s \in SessionIds : clients[s] = c /\ sessions[s].wire = <<>>
  BY DEF SyncInit, Init, NoSession, c
<1>3. clock \in Nat
  BY DEF TypeOK
<1>4. ASSUME NEW s \in SessionIds
      PROVE  Forward(clock, clients[s], sessions[s])
  <2>1. Requested(sessions[s]) /\ \A i : i \notin 1..Len(sessions[s].wire)
    BY <1>2 DEF Requested
  <2>2. 0 \in 0..clock
    BY <1>3
  <2> QED BY <1>1, <1>2, <2>1, <2>2 DEF Forward
<1> QED BY <1>4 DEF Forwards

\* What a client takes for its clock only goes up, astray or not.
LEMMA ForwardsCorrect == SyncSpec => [](TombstonesNumbered /\ Forwards)
<1> DEFINE J == TombstonesNumbered /\ Forwards
<1>1. SyncInit /\ (SyncTyping /\ TypeOK) => J
  BY InitForward, InitFollows
<1>2. /\ J /\ (SyncTyping /\ TypeOK) /\ (SyncTyping /\ TypeOK)'
      /\ (RoomInv /\ MessagesInv) /\ [SyncNext]_syncVars
      => J'
  <2> SUFFICES ASSUME J, SyncTyping, TypeOK, SyncTyping', TypeOK', RoomInv,
                      MessagesInv, [SyncNext]_syncVars
               PROVE  J'
    OBVIOUS
  <2>1. RoomGoesOn
    BY SyncGoesOn
  <2>2. InForward
    BY <2>1 DEF RoomGoesOn, InForward, RoomInv
  <2> QED BY <2>1, <2>2, NextForward DEF RoomGoesOn
<1> QED BY <1>1, <1>2, SyncTypingCorrect, SyncRoomCorrect, PTL DEF SyncSpec


-----------------------------------------------------------------------------
(***************************************************************************)
(* Clients and room are a shared document.                                 *)
(***************************************************************************)
\* A client that is not astray and that no answer has loaded knows of nothing.
UnloadedKnowsNothing ==
    \A s \in SessionIds :
        ~clients[s].astray /\ ~clients[s].loaded => clients[s].lastServerClock = 0

\* What a client is taken to have.
CopyOf(c) == IF c.loaded /\ ~c.astray THEN Confirmed(c)
             ELSE [id \in Ids |-> Absent]

\* At first nobody has a copy.
LEMMA InitIsShared ==
    ASSUME SyncInit, TypeOK
    PROVE  Shared!Init
<1>1. clock \in Nat /\ hist \in [0..clock -> [Ids -> MaybeRecord]]
  BY DEF TypeOK
<1>2. \A s \in SessionIds : /\ clients[s].lastServerClock = 0
                            /\ ~clients[s].loaded /\ ~clients[s].astray
  BY DEF SyncInit, NewClient
<1>3. [s \in SessionIds |-> clients[s].lastServerClock] = [s \in SessionIds |-> 0]
  BY <1>2
<1>4. {s \in SessionIds : clients[s].astray} = {}
  BY <1>2
<1>5. [s \in SessionIds |-> IF clients[s].loaded /\ ~clients[s].astray
                              THEN Confirmed(clients[s])
                              ELSE [id \in Ids |-> Absent]]
        = [s \in SessionIds |-> [id \in Ids |-> Absent]]
  BY <1>2
<1> QED BY <1>1, <1>3, <1>4, <1>5 DEF Shared!Init


\* A client that moves on syncs, goes astray, or does nothing that is seen.
LEMMA OneMovesShared ==
    ASSUME SyncTyping, TypeOK, OneMoves, SyncTyping', Forwards',
           ConfirmedIsRoomUnlessAstray', UnloadedKnowsNothing'
    PROVE  [Shared!Next]_(Shared!sharedVars)
<1>1. /\ UNCHANGED <<hist, clock>>
      /\ \E s \in SessionIds : \E next \in Client :
           clients' = [clients EXCEPT ![s] = next] /\ Onward(clients[s], next)
  BY DEF OneMoves
<1>2. PICK s \in SessionIds, next \in Client :
        clients' = [clients EXCEPT ![s] = next] /\ Onward(clients[s], next)
  BY <1>1
<1> DEFINE c == clients[s]
           n == next.lastServerClock
<1>3. \A t \in SessionIds : clients'[t] = IF t = s THEN next ELSE clients[t]
  BY <1>2 DEF SyncTyping
<1>4. c \in Client /\ n \in Nat /\ c.lastServerClock \in Nat /\ clock \in Nat
  BY DEF SyncTyping, TypeOK, Client
<1>5. n \in c.lastServerClock..clock
  <2>1. Forward(clock', clients'[s], sessions'[s])
    BY DEF Forwards
  <2>2. n \in 0..clock
    BY <1>1, <1>3, <2>1 DEF Forward
  <2> QED BY <1>2, <1>4, <2>2 DEF Onward
<1>6. /\ (c.loaded => next.loaded) /\ (c.astray => next.astray)
      /\ c.lastServerClock <= n
  BY <1>2 DEF Onward
<1>7. [t \in SessionIds |-> clients'[t].lastServerClock]
        = [[t \in SessionIds |-> clients[t].lastServerClock] EXCEPT ![s] = n]
  <2>1. \A t \in SessionIds : clients'[t].lastServerClock
          = IF t = s THEN n ELSE clients[t].lastServerClock
    BY <1>3
  <2> QED BY <2>1
<1>8. [t \in SessionIds |-> CopyOf(clients'[t])]
        = [[t \in SessionIds |-> CopyOf(clients[t])] EXCEPT ![s] = CopyOf(next)]
  <2>1. \A t \in SessionIds : CopyOf(clients'[t])
          = IF t = s THEN CopyOf(next) ELSE CopyOf(clients[t])
    BY <1>3
  <2> HIDE DEF CopyOf
  <2> QED BY <2>1
<1>9. CASE next.astray
  <2>1. {t \in SessionIds : clients'[t].astray}
          = {t \in SessionIds : clients[t].astray} \cup {s}
    BY <1>3, <1>9
  <2>2. CopyOf(next) = [id \in Ids |-> Absent]
    BY <1>9 DEF CopyOf
  <2>3. Shared!GoAstray(s)
    BY <1>1, <1>5, <1>7, <1>8, <2>1, <2>2 DEF Shared!GoAstray, CopyOf
  <2> QED BY <2>3 DEF Shared!Next
<1>10. CASE ~next.astray
  <2>1. {t \in SessionIds : clients'[t].astray}
          = {t \in SessionIds : clients[t].astray}
        /\ s \notin {t \in SessionIds : clients[t].astray}
    BY <1>3, <1>6, <1>10
  <2>2. CASE next.loaded
    <3>1. CopyOf(next) = hist[n]
      <4>1. clients'[s].astray \/ (clients'[s].loaded =>
              Confirmed(clients'[s]) = hist'[clients'[s].lastServerClock])
        BY DEF ConfirmedIsRoomUnlessAstray, ConfirmedIsRoom
      <4> QED BY <1>1, <1>3, <1>10, <2>2, <4>1 DEF CopyOf
    <3>2. Shared!Sync(s)
      BY <1>1, <1>5, <1>7, <1>8, <2>1, <3>1 DEF Shared!Sync, CopyOf
    <3> QED BY <3>2 DEF Shared!Next
  <2>3. CASE ~next.loaded
    <3>1. n = 0
      BY <1>3, <1>10, <2>3 DEF UnloadedKnowsNothing
    <3>2. c.lastServerClock = n /\ CopyOf(c) = CopyOf(next)
      <4>1. c.lastServerClock = n
        BY <1>4, <1>6, <3>1
      <4>2. ~c.loaded
        BY <1>6, <2>3
      <4> QED BY <2>3, <4>1, <4>2 DEF CopyOf
    <3>3. [t \in SessionIds |-> clients'[t].lastServerClock]
            = [t \in SessionIds |-> clients[t].lastServerClock]
      BY <1>3, <3>2
    <3>4. [t \in SessionIds |-> CopyOf(clients'[t])]
            = [t \in SessionIds |-> CopyOf(clients[t])]
      <4>1. \A t \in SessionIds : CopyOf(clients'[t]) = CopyOf(clients[t])
        BY <1>3, <3>2
      <4> HIDE DEF CopyOf
      <4> QED BY <4>1
    <3>5. UNCHANGED Shared!sharedVars
      BY <1>1, <2>1, <3>3, <3>4 DEF Shared!sharedVars, CopyOf
    <3> QED BY <3>5
  <2> QED BY <2>2, <2>3
<1> QED BY <1>9, <1>10

\* What the room does is a new version, or nothing that is seen.
LEMMA RoomMovesShared ==
    ASSUME TypeOK, RoomMoves, TypeOK', HistoryGoesOn
    PROVE  [Shared!Next]_(Shared!sharedVars)
<1>1. \A s \in SessionIds : SameCopy(clients[s], clients'[s])
  BY DEF RoomMoves
<1>2. [s \in SessionIds |-> clients'[s].lastServerClock]
        = [s \in SessionIds |-> clients[s].lastServerClock]
  BY <1>1 DEF SameCopy
<1>3. {s \in SessionIds : clients'[s].astray} = {s \in SessionIds : clients[s].astray}
  BY <1>1 DEF SameCopy
<1>4. [s \in SessionIds |-> CopyOf(clients'[s])]
        = [s \in SessionIds |-> CopyOf(clients[s])]
  <2>1. \A s \in SessionIds : CopyOf(clients'[s]) = CopyOf(clients[s])
    BY <1>1 DEF SameCopy, CopyOf
  <2> HIDE DEF CopyOf
  <2> QED BY <2>1
<1>5. CASE UNCHANGED <<hist, clock>>
  <2>1. UNCHANGED Shared!sharedVars
    BY <1>2, <1>3, <1>4, <1>5 DEF Shared!sharedVars, CopyOf
  <2> QED BY <2>1
<1>6. CASE clock' = clock + 1
  <2>1. /\ hist' \in [0..clock + 1 -> [Ids -> MaybeRecord]]
        /\ \A j \in 0..clock : hist'[j] = hist[j]
    BY <1>6 DEF TypeOK, HistoryGoesOn
  <2>2. Shared!Commit
    BY <1>2, <1>3, <1>4, <1>6, <2>1 DEF Shared!Commit, CopyOf
  <2> QED BY <2>2 DEF Shared!Next
<1> QED BY <1>5, <1>6 DEF RoomMoves

\* The invariant that the refinement rests on.
SharedInv ==
    /\ SyncTyping /\ TypeOK /\ TombstonesNumbered /\ Forwards
    /\ ConfirmedIsRoomUnlessAstray /\ UnloadedKnowsNothing

\* It holds until the room forgets a deletion.
LEMMA SharedInvCorrect == SyncSpec /\ []NothingForgotten => []SharedInv
<1>1. SyncTyping /\ TypeOK /\ Followers => UnloadedKnowsNothing
  BY DEF Followers, Following, Follows, Copied, UnloadedKnowsNothing
<1> QED BY <1>1, SyncTypingCorrect, ForwardsCorrect, FollowersCorrect,
           ConfirmedIsRoomCorrect, PTL DEF SharedInv

\* Clients and room, with all their messages, retries and repairs, implement the
\* shared document: one history, of which what a client takes for confirmed is a
\* version that only moves forward, in a room that prunes no tombstone.
THEOREM SharedDocumentCorrect ==
    SyncSpec /\ []NothingForgotten => ImplementsSharedDocument
<1>1. SyncInit /\ SharedInv => Shared!Init
  BY InitIsShared DEF SharedInv
<1>2. /\ SharedInv /\ SharedInv' /\ (RoomInv /\ MessagesInv)
      /\ [SyncNext]_syncVars
      => [Shared!Next]_(Shared!sharedVars)
  <2> SUFFICES ASSUME SharedInv, SharedInv', RoomInv, MessagesInv,
                      [SyncNext]_syncVars
               PROVE  [Shared!Next]_(Shared!sharedVars)
    OBVIOUS
  <2>1. RoomGoesOn
    BY SyncGoesOn DEF SharedInv
  <2>2. InForward
    BY <2>1 DEF SharedInv, RoomGoesOn, InForward, RoomInv
  <2>3. Forwards' /\ (OneMoves \/ RoomMoves)
    BY <2>2, NextForward
  <2>4. CASE OneMoves
    BY <2>3, <2>4, OneMovesShared DEF SharedInv
  <2>5. CASE RoomMoves
    BY <2>1, <2>5, RoomMovesShared DEF SharedInv, RoomGoesOn
  <2> QED BY <2>3, <2>4, <2>5
<1> QED BY <1>1, <1>2, SharedInvCorrect, SyncRoomCorrect, PTL
        DEF SyncSpec, ImplementsSharedDocument, Shared!Spec

\* A room that has at most MAX_TOMBSTONES records forgets none, and implements the
\* shared document.
THEOREM SharedDocumentForFewRecords ==
    ASSUME FewRecords
    PROVE  SyncSpec => ImplementsSharedDocument
BY SharedDocumentCorrect, NothingForgottenHere, PTL
=============================================================================
