-------------------------- MODULE TLLocalSyncClient --------------------------
(***************************************************************************)
(* Tabs of one browser that show the same document without a server:       *)
(* packages/editor/src/lib/utils/sync/TLLocalSyncClient.ts.  A tab loads   *)
(* the records from IndexedDB (LocalIndexedDb.ts), sends its user's changes*)
(* to the other tabs over a BroadcastChannel, and writes them back.        *)
(*                                                                         *)
(* The tabs have the same version of the schema.  A store tells its client *)
(* of the user's changes in a later frame, see StoreHistory.               *)
(***************************************************************************)
EXTENDS Integers, Sequences, SequencesExt, FiniteSets, StoreRecords,
        StoreHistory

CONSTANTS
    Tabs,
    Gone,         \* the tab of a transaction that has none any more
    InitialRecords,
    MaxEdits,     \* bound: the changes users make
    MaxOpens,     \* bound: how often tabs are opened or reloaded
    MaxFailures   \* bound: the transactions that fail

ASSUME TabsAssumption ==
    /\ Gone \notin Tabs
    /\ InitialRecords \in Records
    /\ {MaxEdits, MaxOpens, MaxFailures} \subseteq Nat

VARIABLES
    db,            \* the table of records
    transactions,  \* those of IndexedDB that are not done, in order
    tabs,          \* the clients
    bounds,        \* what has been done of edits, opens and failures
    alone,         \* one tab is open at a time; it never changes
    contested      \* ghost: the records of which tabs may have different
                   \* values, see TabsAgree

tabsVars == <<db, transactions, tabs, bounds, alone, contested>>

\* history: of which the store has not told the client.  queue: diffQueue, where
\* NoChanges stands for UPDATE_INSTANCE_STATE.  scheduled:
\* scheduledPersistTimeout.  inbox: the channel's messages to the tab.
\* early, a ghost: the records that a full write had in history and that no
\* later write contains.
Closed ==
    [state |-> "closed", store |-> [id \in Ids |-> Absent], history |-> <<>>,
     queue |-> <<>>, inbox |-> <<>>, shouldDoFullDBWrite |-> TRUE,
     isPersisting |-> FALSE, scheduled |-> FALSE, early |-> {}]

Load(t) == [tab |-> t, type |-> "load"]
StoreSnapshot(t, records) ==
    [tab |-> t, type |-> "storeSnapshot", records |-> records]
StoreChanges(t, diff) == [tab |-> t, type |-> "storeChanges", diff |-> diff]

TabsInit ==
    /\ db = InitialRecords
    /\ transactions = <<>>
    /\ tabs = [t \in Tabs |-> Closed]
    /\ bounds = [edits |-> 0, opens |-> 0, failures |-> 0]
    /\ alone \in BOOLEAN
    /\ contested = {}

IsOpen(t) == tabs[t].state = "open"

TouchedBy(diffs) == UNION {Touched(diffs[i]) : i \in DOMAIN diffs}

-----------------------------------------------------------------------------
(***************************************************************************)
(* Writing.                                                                *)
(***************************************************************************)
\* schedulePersist.
SchedulePersist(tab) == [tab EXCEPT !.scheduled = TRUE]

SquashedQueue(tab) == FoldLeft(Squash, NoChanges, tab.queue)

\* doPersist, up to its await: it takes what is in the queue.
TakeQueue(tab) ==
    [tab EXCEPT !.queue = <<>>, !.shouldDoFullDBWrite = FALSE,
                !.isPersisting = TRUE, !.scheduled = FALSE,
                !.early = IF tab.shouldDoFullDBWrite THEN TouchedBy(tab.history)
                          ELSE @ \ Touched(SquashedQueue(tab))]

\* The timer of schedulePersist, with persistIfNeeded and doPersist.
PersistTimer(t) ==
    LET tab == tabs[t]
    IN  /\ tab.scheduled
        /\ \/ /\ ~tab.isPersisting
              /\ tab.shouldDoFullDBWrite \/ tab.queue # <<>>
              /\ tabs' = [tabs EXCEPT ![t] = TakeQueue(tab)]
              /\ transactions' = Append(transactions,
                   IF tab.shouldDoFullDBWrite THEN StoreSnapshot(t, tab.store)
                   ELSE StoreChanges(t, SquashedQueue(tab)))
           \/ /\ \/ tab.isPersisting
                 \/ ~tab.shouldDoFullDBWrite /\ tab.queue = <<>>
              /\ tabs' = [tabs EXCEPT ![t].scheduled = FALSE]
              /\ UNCHANGED transactions
        /\ UNCHANGED <<db, bounds, alone, contested>>

\* The table after a transaction.
Write(records, tx) ==
    CASE tx.type = "load"          -> records
      [] tx.type = "storeSnapshot" -> tx.records
      [] tx.type = "storeChanges"  -> ApplyChanges(records, tx.diff)

\* A mutant: what came in during the write is dropped with what was written.
PersistedAll(tab) ==
    SchedulePersist([tab EXCEPT !.isPersisting = FALSE, !.queue = <<>>])

\* A mutant: changes that came in during the write wait for the next ones.
PersistedUnscheduled(tab) == [tab EXCEPT !.isPersisting = FALSE]

\* doPersist after its await: another persist for what came in meanwhile.
Persisted(tab) == SchedulePersist([tab EXCEPT !.isPersisting = FALSE])

\* What the tab shows when it has received what is on its way to it.
InTheEnd(t) == FoldLeft(ApplyChanges, tabs[t].store, tabs[t].inbox)

\* The records of the table that another tab has otherwise or, with a change
\* that it has not sent, may have otherwise.
ReadOtherwise ==
    {id \in Ids : \E u \in Tabs :
        \/ tabs[u].state = "read" /\ tabs[u].store[id] # db[id]
        \/ IsOpen(u) /\ InTheEnd(u)[id] # db[id]
        \/ id \in TouchedBy(tabs[u].history)}

\* The oldest transaction is done.  A tab that loads has its records now, but
\* is told so later.
Commit ==
    LET tx == Head(transactions)
    IN  /\ transactions # <<>>
        /\ db' = Write(db, tx)
        /\ transactions' = Tail(transactions)
        /\ tabs' = [t \in Tabs |->
             IF tx.tab # t THEN tabs[t]
             ELSE IF tx.type = "load"
               THEN [tabs[t] EXCEPT !.state = "read", !.store = db]
               ELSE Persisted(tabs[t])]
        /\ contested' = IF tx.tab \in Tabs /\ tx.type = "load"
                          THEN contested \cup ReadOtherwise ELSE contested
        /\ UNCHANGED <<bounds, alone>>

-----------------------------------------------------------------------------
(***************************************************************************)
(* Opening, closing, reloading.                                            *)
(***************************************************************************)
\* The constructor and connect, up to the awaited load.  Bound: no more opens
\* than MaxOpens.
Opened == [Closed EXCEPT !.state = "loading"]

Open(t) ==
    /\ tabs[t].state = "closed" /\ bounds.opens < MaxOpens
    /\ alone => \A u \in Tabs : tabs[u].state = "closed"
    /\ tabs' = [tabs EXCEPT ![t] = Opened]
    /\ transactions' = Append(transactions, Load(t))
    /\ bounds' = [bounds EXCEPT !.opens = @ + 1]
    /\ UNCHANGED <<db, alone, contested>>

\* connect goes on: the records are put, the session's state is loaded, and
\* from now on messages are received.  What it announces to tabs of the same
\* version changes nothing there.
Loaded(t) ==
    /\ tabs[t].state = "read"
    /\ tabs' = [tabs EXCEPT ![t].state = "open"]
    /\ UNCHANGED <<db, transactions, bounds, alone, contested>>

\* A transaction of a tab that is gone, which may be done all the same.
Orphaned(t) == [i \in DOMAIN transactions |->
                  IF transactions[i].tab = t
                    THEN [transactions[i] EXCEPT !.tab = Gone]
                    ELSE transactions[i]]

\* The page is closed, or close is called, which aborts the transaction that is
\* under way if it still can.
Close(t) ==
    /\ tabs[t].state # "closed"
    /\ tabs' = [tabs EXCEPT ![t] = Closed]
    /\ \/ transactions' = Orphaned(t)
       \/ \E i \in DOMAIN transactions :
            transactions[i].tab = t /\ transactions' = RemoveAt(transactions, i)
    /\ UNCHANGED <<db, bounds, alone, contested>>

\* The oldest transaction fails, and doPersist reloads the page: what is not
\* written is lost.
WriteFails ==
    LET tx == Head(transactions)
    IN  /\ transactions # <<>> /\ bounds.failures < MaxFailures
        /\ tx.tab # Gone /\ tx.type # "load"
        /\ bounds' = [bounds EXCEPT !.failures = @ + 1]
        /\ tabs' = [tabs EXCEPT ![tx.tab] = Opened]
        /\ transactions' = Append(Tail(transactions), Load(tx.tab))
        /\ UNCHANGED <<db, alone, contested>>

-----------------------------------------------------------------------------
(***************************************************************************)
(* Changes.                                                                *)
(***************************************************************************)
\* Another tab has changed the record, and t does not know.
ChangedElsewhere(t, id) ==
    \/ id \in TouchedBy(tabs[t].inbox)
    \/ \E u \in Tabs \ {t} : id \in TouchedBy(tabs[u].history)

\* The user changes a record.
Edit(t, id, value) ==
    LET store == [tabs[t].store EXCEPT ![id] = value]
    IN  /\ IsOpen(t) /\ bounds.edits < MaxEdits /\ store # tabs[t].store
        /\ bounds' = [bounds EXCEPT !.edits = @ + 1]
        /\ tabs' = [tabs EXCEPT ![t] = UserChange(@, store)]
        /\ contested' = IF ChangedElsewhere(t, id) THEN contested \cup {id}
                        ELSE contested
        /\ UNCHANGED <<db, transactions, alone>>

\* The changes reach the tabs that listen to the channel.
Broadcast(t, diffs) ==
    [u \in Tabs |-> IF u # t /\ IsOpen(u)
                      THEN [tabs[u] EXCEPT !.inbox = @ \o diffs]
                      ELSE tabs[u]]

\* _flushHistory in a frame: the client hears what the user has changed, sends
\* it to the other tabs and schedules a persist.  Its other listener hears that
\* the session's state has changed, as by scrolling or by the load.  Bound: that
\* once until it is written.
FlushHistory(t, session) ==
    LET tab == tabs[t]
        diffs == Heard(tab.history)
        queued == diffs \o (IF session THEN <<NoChanges>> ELSE <<>>)
        flushed == [tab EXCEPT !.history = <<>>, !.queue = @ \o queued]
    IN  /\ IsOpen(t)
        /\ session \/ tab.history # <<>>
        /\ session => tab.queue = <<>> /\ ~tab.isPersisting
        /\ tabs' = [Broadcast(t, diffs) EXCEPT ![t] =
             IF queued = <<>> THEN flushed ELSE SchedulePersist(flushed)]
        /\ contested' = IF \E u \in Tabs : tabs[u].state = "read"
                          THEN contested \cup TouchedBy(diffs) ELSE contested
        /\ UNCHANGED <<db, transactions, bounds, alone>>

\* A mutant: while a write is under way messages are not applied.
ReceivedUnlessPersisting(tab) ==
    [RemoteChange(tab, IF tab.isPersisting THEN tab.store
                       ELSE ApplyChanges(tab.store, Head(tab.inbox)))
       EXCEPT !.inbox = Tail(@)]

\* onmessage: a change that is not the user's is neither sent nor written.
Received(tab) ==
    [RemoteChange(tab, ApplyChanges(tab.store, Head(tab.inbox)))
       EXCEPT !.inbox = Tail(@)]

Receive(t) ==
    /\ tabs[t].inbox # <<>>
    /\ tabs' = [tabs EXCEPT ![t] = Received(@)]
    /\ UNCHANGED <<db, transactions, bounds, alone, contested>>

TabsNext ==
    \/ \E t \in Tabs :
         \/ Open(t) \/ Loaded(t) \/ Close(t) \/ PersistTimer(t)
         \/ \E id \in Ids, value \in Vals \cup {Absent} : Edit(t, id, value)
         \/ \E session \in BOOLEAN : FlushHistory(t, session)
         \/ Receive(t)
    \/ Commit \/ WriteFails

TabsSpec == TabsInit /\ [][TabsNext]_tabsVars

\* Timers run, frames do as they do while the page can be seen, IndexedDB
\* answers, and what it answers is handled.  That a timer is not set again and
\* again is weak fairness of PersistTimer, which clears it.
FairTabsSpec ==
    /\ TabsSpec
    /\ WF_tabsVars(Commit)
    /\ \A t \in Tabs : /\ []<>~tabs[t].scheduled /\ WF_tabsVars(Loaded(t))
                       /\ WF_tabsVars(FlushHistory(t, FALSE))

-----------------------------------------------------------------------------
\* The table when all transactions are done.
AfterTransactions == FoldLeft(Write, db, transactions)

\* The records of which the table may keep what a full write found in history:
\* what was told of them since, and what will be, adds up to no change.
Left(tab) ==
    tab.early \ (Touched(SquashedQueue(tab)) \cup TouchedBy(tab.history))

\* What a tab that is open alone shows is what the table will contain, unless
\* it is about to be written in full: what is under way, in the queue and in
\* history adds up to it, however edits, frames, writes, closings and reloads
\* overlap.  Not so a record that was changed, but not yet told of, when the
\* table was written in full, and then was changed back before the next write.
WrittenOrQueued ==
    alone => \A t \in Tabs :
        IsOpen(t) /\ ~tabs[t].shouldDoFullDBWrite =>
          LET tab == tabs[t]
              queued == ApplyChanges(AfterTransactions, SquashedQueue(tab))
          IN  \A id \in Ids \ Left(tab) :
                FoldLeft(ApplyChanges, queued, tab.history)[id] = tab.store[id]

\* In the end all that a lone tab shows is written, but for what a full write
\* found in history and no write had since.
EventuallySaved ==
    alone => <>[](\A t \in Tabs : IsOpen(t) =>
                   \A id \in Ids \ tabs[t].early : tabs[t].store[id] = db[id])

UpToDate(t) == IsOpen(t) /\ tabs[t].inbox = <<>> /\ tabs[t].history = <<>>

\* Tabs that have sent and received everything show the same, but for records
\* that one tab changed when it did not know of the change of another, whose
\* change was sent when a tab had read the table and did not listen yet, and that
\* a tab read when another had them otherwise or had not sent its change.
TabsAgree ==
    \A t, u \in Tabs : \A id \in Ids \ contested :
        UpToDate(t) /\ UpToDate(u) => tabs[t].store[id] = tabs[u].store[id]
=============================================================================
