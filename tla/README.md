# TLA+ verification of tldraw's synchronisation, persistence and undo

tldraw is a canvas editor. What makes it more than a drawing program is that
several people edit one document at the same time: each browser keeps an
optimistic copy, a room on a server keeps the authoritative one, and a small
protocol (`packages/sync-core`) keeps them the same over connections that come
and go. Around it a durable object saves the room, tabs without a server keep
each other and IndexedDB up to date, and a history of diffs lets users undo
their own changes among everybody else's. This directory models that code in
TLA+, checks the models with TLC and proves the most important of their
properties with TLAPS.

Contents: [the system](#the-system), [what is modelled](#what-is-modelled),
[the modules](#the-modules), [the runs](#the-runs), [bounds](#bounds),
[fairness](#fairness), [what is proved](#what-is-proved),
[what the runs found](#what-the-runs-found),
[what the models show besides](#what-the-models-show-besides),
[what is not modelled](#what-is-not-modelled), [plan](#plan).

Paths below are relative to the repository; `sync-core/` stands for
`packages/sync-core/src/lib/`.

## The system

| component | code | state | operations |
| --- | --- | --- | --- |
| room | `sync-core/TLSyncRoom.ts`, `RoomSession.ts`, `protocol.ts` | records with the clock they last changed at, tombstones, `clock`, `documentClock`, the session table with per-session debounce queues | new session, connect, push, ping, close, `updateStore`, pruning of sessions and tombstones, rejection, `close` |
| network diffs | `sync-core/diff.ts` | none | diff and apply records, objects, arrays |
| client | `sync-core/TLSyncClient.ts` | the store, `speculativeChanges`, `pendingPushRequests`, `incomingDiffBuffer`, `lastServerClock`, `clientClock`, last pushed presence, latest connect request | store listener, push, push presence, throttled flush, throttled rebase, connect answer, reset, ping and health check |
| server facade | `sync-core/TLSocketRoom.ts` | the room, the table of sockets with their chunk assemblers | socket connect, message, error, close; `loadSnapshot`, `updateStore`, `closeSession` |
| client transport | `sync-core/ClientWebSocketAdapter.ts` | the current socket, connection status; the reconnect manager's state, back-off delay and timers | open, close, restart, reconnect hints, timeouts |
| chunking | `sync-core/chunk.ts` | the assembler's partial message | chunk, handle a chunk |
| store | `packages/store` | atoms of records, history accumulator, listeners, pending side effects | put, remove, update, `atomic`, `mergeRemoteChanges`, `extractingChanges`, squash and reverse diffs |
| signals | `packages/state` | atoms, computed values, epochs, effect schedulers, the stack of transactions | set, read, react, `transact`, commit, abort |
| undo and redo | `editor/.../HistoryManager.ts` | stacks of diffs and marks, pending diff, recording state | mark, undo, redo, bail, squash, batch |
| local persistence | `editor/.../TLLocalSyncClient.ts`, `LocalIndexedDb.ts` | diff queue, persisting and error flags, timers, the broadcast channel, the table | connect, queue diffs, persist, retry, cross-tab messages |
| hosted room | `apps/dotcom/sync-worker/src/TLDrawDurableObject.ts`, `AlarmScheduler.ts`, `packages/utils/src/lib/ExecutionQueue.ts` | the socket room, last persisted clock, persist queue, alarm | load, throttled persist, close when empty, restore, delete |
| user data replication | `apps/dotcom/sync-worker/src/` (`UserDataSyncer`, `TLPostgresReplicator`, `TLUserDurableObject`), `TldrawApp.ts` | optimistic updates, replication state, sequence numbers | mutate, replicate, boot, retry |
| migrations | `packages/store` (`migrate.ts`, `StoreSchema.ts`) | none | migrate records and snapshots up and down |
| editor, tools, user interface | `packages/editor`, `packages/tldraw` | - | - |

How they interact. A local edit changes atoms of the store inside a
transaction; the store's history accumulator hands the squashed diff to three
listeners: the history manager, the sync client (or the local sync client when
there is no server), and the user interface. The sync client adds the diff to
`speculativeChanges` and, throttled, pushes it over the client transport, which
chunks it. The socket room assembles the chunks and calls the room. The room
applies the push, answers the sender with `commit`, `discard` or `rebase`, and
broadcasts the actual changes to the other sessions through per-session
debounce queues. A client applies what it receives in a throttled rebase: undo
the speculative changes, apply the room's, do the speculative ones again. When
a connection is lost, both sides forget it in their own time; the client
connects again under the same session id, names the last clock it has seen, and
the room sends what changed since. The hosted room persists the room's snapshot
when `documentClock` has moved.

What is hard here, and what makes each part correct:

* **Room.** Any interleaving of handlers of several sessions, of timers that
  were set for a session id and fire after its owner changed, of sockets that
  close before the room notices, of `updateStore` that awaits in the middle.
  Correct when every connected session's messages add up to the room's records,
  for each clock it may have connected with; when presence goes with its
  session; when rollbacks leave no trace; when the clocks a client sees let it
  resume.
* **Client.** Three diffs in flight at once (unflushed, pending, unacknowledged
  by rebase), reconnection in the middle, throttles. Correct when its store is
  always the room's records plus its own unconfirmed changes, and when clients
  converge once all is quiet.
* **Socket room, hosted room.** Saves, loads and restores that are awaited
  while people come and go, evictions at any moment, sockets replaced under the
  same id. Correct when all who have a file open are in one room, and when no
  change is left behind unsaved.
* **Client transport.** Events of orphaned sockets, timers that race with
  opening, back-off. Correct when at most one socket speaks, and when a closed
  connection always leads to another attempt.
* **Chunking, diffs.** Boundaries of lengths. Correct when assembling inverts
  chunking, and applying a diff inverts making it.
* **Store, signals, history.** Diffs squashed and reversed, nested batches,
  others' changes in between. Correct when undoing to a mark gives the records
  as they were then, and redo takes undo back.
* **Local persistence, replication.** Writes that fail and are retried, tabs
  that load while others write. Correct when what a tab shows is written or on
  its way, and when tabs agree.

The hazards this leads to, each at its line, are listed in `PROJECT.json`.

## What is modelled

| module | models | code it stands for |
| --- | --- | --- |
| `TLSyncRecords` | records, object diffs and network diffs, at the granularity of record properties | `diff.ts`, `TLSyncClient.applyNetworkDiff` |
| `TLSyncRoom` | one lifetime of a room with its sessions and their sockets | `TLSyncRoom.ts`, `RoomSession.ts`, `protocol.ts`, `ServerSocketAdapter.ts`, `TLSocketRoom.closeSession` |
| `RecordsDiff` | the store's diffs: squash, reverse, apply | `packages/store/src/lib/RecordsDiff.ts`, `Store.applyDiff` |
| `TLSyncClient` | the client, as operators on its state | `TLSyncClient.ts`, and of the store what it depends on |
| `TLSync` | clients, room and the sockets between them | the above composed, `TLSocketRoom`'s socket handlers |
| `SharedDocument` | abstract: one history of versions, and copies that only move forward | what `TLSync` is shown to implement |
| `ClientWebSocketAdapter` | the socket that keeps coming back | `ClientWebSocketAdapter.ts` |
| `TLDrawDurableObject` | the server of one file, over several lives | `TLDrawDurableObject.ts`, `AlarmScheduler.ts`, `ExecutionQueue.ts`, `TLSocketRoom.loadSnapshot` |
| `StoreHistory` | the history accumulator and its throttled listener | `Store.ts` |
| `StoreRecords` | the records of a store, as its listeners see them | `Store.ts` |
| `HistoryManager` | undo and redo | `HistoryManager.ts` |
| `TLLocalSyncClient` | tabs, their channel and their database | `TLLocalSyncClient.ts`, `LocalIndexedDb.ts` |
| `TLSyncRoomProofs`, `RecordsDiffProofs`, `TLSyncProofs`, `ClientWebSocketAdapterProofs`, `TLDrawDurableObjectProofs` | theorems about the modules of those names | |
| `TLSyncFollowersProofs` | theorems about what `TLSync`'s clients make of the room's messages | |
| `StoreRecordsProofs` | theorems about the two that listen to a store, `HistoryManager` and `TLLocalSyncClient` | |
| `LeftFold` | theorems about `FoldLeft`, for any operator that is folded | |
| `MC...` | the instances that TLC checks | |

`TLSync` extends `TLSyncRoom` and `TLSyncClient`, and both extend
`TLSyncRecords`; that, `StoreRecords` and `StoreHistory` use `RecordsDiff`. The
history manager and the tabs extend `StoreRecords`; the client and the tabs,
whose listeners are throttled, extend `StoreHistory`. `TLSync` instantiates
`SharedDocument` with its refinement mapping. The others stand alone, each
against an environment of its own: the adapter's is the browser, the durable
object's the bucket and whoever asks for the file.

Conventions. JavaScript is single-threaded: a handler is one atomic action, and
one with an `await` is an action for each part between awaits. Some models keep
in a variable that never changes what may happen in a behaviour (`scenario` in
`TLSync`, `world` in `ClientWebSocketAdapter` and `TLDrawDurableObject`,
`alone` in `TLLocalSyncClient`). TLC starts from all its values, so that one run
covers several environments, and a property that the code keeps in some of them
only says in which. History variables (`hist`, `forgotten`, `view`, `stale`,
`astray`, `inexact`, `contested`, `early`, `seen`) are read by no action but to be
updated, with the one exception named below.

**Mutants.** Some operators are preceded by a definition that varies them: a
plausible bug (a comparison off by one, a reset that is missing, a removal
without its broadcast), marked as a mutant in its comment and used by no
action. Putting it in the place of the operator violates the property that
`PROJECT.json` names with it, which shows that the property speaks about that
code.

## The modules

### The room (`TLSyncRoom`)

The server is single-threaded JavaScript, so a handler is one atomic action
unless it awaits. Only `updateStore` does, and it is two actions.

| variable | code |
| --- | --- |
| `documents` | `state.documents`: record id to `DocumentState` (`state`, `lastChangedClock`) |
| `tombstones` | `state.tombstones`; `NoClock` where there is none |
| `clock`, `documentClock` | the fields of those names |
| `sessions` | the `sessions` table; `state = "none"` is an id that is not in it. Each entry also holds its socket: `open` (`isOpen` on the server's side) and `wire`, the messages in flight |
| `pruneScheduled` | a pending `setTimeout(this.pruneTombstones, 0)` |
| `storeUpdate` | the snapshot of an `updateStore` whose updater has not returned |
| `isClosed` | `_isClosed` |
| `hist`, `forgotten`, and in a session `view`, `stale` | history variables, see below |

| action | code |
| --- | --- |
| `HandleNewSession` | `handleNewSession`: a tab opens a socket, perhaps over an entry of its own that is still in the table |
| `HandleConnectRequest` | `handleConnectRequest`: protocol and schema checks, legacy rejection, `wipe_all` or `wipe_presence` hydration |
| `HandlePushRequest` | `handlePushRequest`: presence first, then documents; read-only sessions; validation, rollback and rejection; `commit`, `discard`, `rebase`; tombstones; broadcast |
| `BeginUpdateStore`, `CommitUpdateStore` | `updateStore` before and after its `await`, and the push it makes without a session |
| `HandlePing`, `HandleClose`, `CloseSession` | the handlers of those names (`TLSocketRoom.closeSession` for the last) |
| `FlushTimer` | the debounce timer's `_flushDataMessages` |
| `PruneSessions` | one pass of the two-second interval, for any set of sessions whose time is up |
| `PruneTombstones` | the scheduled `pruneTombstones` |
| `Close` | `close` |
| `Deliver`, `SocketCloses` | the network: a client receives a message; a connection goes down with what is in flight |

The operators these are made of carry the names of the methods they translate:
`SendMessage` and `SendData` are the two halves of `sendMessage` (a socket that
is not open cancels the session; the first data message goes out at once and
starts the timer, later ones wait; any other message but a pong flushes first),
`CancelSession`, `RemoveSession`, `RejectSession`, `BroadcastPatch` and
`FlushDataMessages` are the methods.

Two points deserve the reader's care. `RollbackPush` is what `fail()` and the
aborted transaction leave of a push: records, tombstones and `documentClock` are
restored, `clock` is not (it is a plain field), nor are sessions rejected or
prunings scheduled on the way. And `HandleConnectRequest` gives the history
variable `view` its value: `BaseView` is what a client that knew exactly the
room's records at `lastServerClock` has kept after the wipe, and the connect
diff is applied to it; every later message to the session is applied as it is
sent or queued. `DocsInSync` says that `view` is the room's records. So the
property is about the sum of the messages, over all clocks and all groupings,
and the client's own code (the next module of the plan) is left out of it.

**History variables.** `hist[k]` are the documents as they were when `clock`
was `k`; `forgotten` remembers the tombstones that pruning dropped; `stale` are
the deletions a session could not be told of because of that. No handler reads
them; only the choice of a fresh presence id looks at `view`, to take no id that
a client still knows.

### The store's diffs (`RecordsDiff`)

A diff has three parts: what was added, updated (from and to) and removed.
`Squash` is `squashRecordDiffsMutable` in its three loops (`SquashAdded`,
`SquashUpdated`, `SquashRemoved`), `ReverseRecordsDiff` and `ApplyChanges` are
`reverseRecordsDiff` and `Store.applyDiff`, and `Between` is the history entry
that the store records when it goes from one set of records to another. Client,
history and tabs are all built on these.

### The store's history (`StoreHistory`)

A store does not tell its listeners of a change when it is made:
`historyReactor` is scheduled by `throttleToNextFrame` (`Store.ts:228`), and
entries of the same source are squashed by then. Of whatever has a `store` and a
`history`, `UserChange` and `RemoteChange` are the two ways to change the first
and add to the second, and `Heard` is what `_flushHistory` tells a listener of
the user's changes: one diff for each run of entries between remote changes, and
none for a run that adds up to nothing. `history` keeps a separator where a
remote change came between two of the user's, as the accumulator has it.

### The client (`TLSyncClient`) and the composition (`TLSync`)

`TLSyncClient` has no variables. A client is a record, and every handler,
listener and throttled function of `TLSyncClient.ts` is an operator from the
state before it to the state after it; `TLSync` makes actions of them.

| action of `TLSync` | code |
| --- | --- |
| `Edit`, `Move` | the user changes a record; the presence signal changes (`pushPresence`, which flushes the history first) |
| `ListenerFlush` | the store's throttled listener calls `push` with each entry it has not seen |
| `SendPushes` | the throttled `flushPendingPushRequests` |
| `RunRebase` | the throttled `rebase`: flush, undo what is speculative, apply what came, apply what is pending again |
| `Connect`, `LoseConnection` | the socket's status becomes online (`sendConnectMessage`), offline or error (`resetConnection`, `close`); a health check and a failed ping restart the socket, which is the latter too |
| `ClientReceive` | `handleServerEvent`: `didReconnect`, or data into `incomingDiffBuffer` |
| `RoomReceive`, `RoomReceiveLate` | `TLSocketRoom.handleSocketMessage` for a message of the session's socket, or of an earlier one of the same tab |
| `RoomStep` | the room's own: debounce timers, pruning, closing sockets |

The store matters to the client in one way: its listener is throttled, so there
are changes in the store that the client has not been told of. `history` holds
them (`StoreHistory`). `Confirmed(c)` undoes those and the
speculative changes: what the client takes the room's records to be.

`SharedDocument` is the abstract specification: a document has one sequence of
versions, and each client's copy is one of them and only moves forward. `Shared`
is the refinement mapping: the versions are the room's `hist`, a client's copy is
`Confirmed(c)`, its number `lastServerClock`. `ImplementsSharedDocument` is
checked as a property. A client that is `astray` (it reconnected with changes
its listener had not seen, see [the findings](#what-the-runs-found), kept part of
the pending changes that a rebase could not apply again, or lost messages that
the room discarded on an earlier socket's connect request) has no copy in the
mapping, as the code does not keep the promise for it.

### The client transport (`ClientWebSocketAdapter`)

Adapter and `ReconnectManager` as one record, with `document.hidden`, over ticks
of time: `age` since `lastAttemptStart`, `reconnectTimeout`, `recheckConnectingTimeout`; a timer may
fire late. `disconnected`, `connected`, `maybeReconnected`, `_closeSocket` and
`_handleDisconnect` are operators, and what the browser calls are actions: socket
events (`Opens`, `Closes`, `Fails` for an error and the close that follows it,
with microtasks in between), promises of `getUri` (`UriArrives`, `UriFails`),
both timers, hints of the window, `restart` and `close`. `orphans` are sockets
that were let go and have not closed. `world.closingIsSeen` says whether a hint
can come between a closing handshake and its close event, and `world.uriMayFail`
whether `getUri` can reject: `OnlineHasItsSocket`, `NeverIdle`, `MinDelayHonoured`
and `KeepsTrying` depend on them as their comments say.

### The hosted room (`TLDrawDurableObject`)

The object's memory is one record, with the `TLSocketRoom`s it has made; the
bucket, the version cache and the alarm survive an eviction. A document is the
set of changes it contains. `executionQueue` is modelled with its order of
microtasks: `RunTasks` starts the next task before whoever waited for the last
one goes on, which is where `onSessionRemoved` looks again whether the room is
empty. Actions are requests (`Request`, `AskForRoom`, `RoomLoads`), sessions
(`Edit`, `Move`, `SessionRemoved`), saving (`SchedulePersist`, `Alarm`,
`Persisted`, `PersistFails`), `onRestore` in its three parts,
`appFileRecordDidDelete` (`FileDeleted`, `Deleted`) and `Evicted`. `world` is one
of four: the object is evicted now and then; a session leaves while the last
one's save is under way; loads and puts fail; an old version is restored.

### Undo and redo (`HistoryManager`)

The two stacks of diffs and stops, `pendingDiff`, the recording state and the
nesting of `batch`. Each public operation is an action; a user's change goes
through the interceptor of the store's history (`Record`), others' changes
(`ChangeByOther`) do not.

`_undo` pushes `pendingDiff` on the redos (`HistoryManager.ts:128`) and goes on
to squash the entries it pops into `diffToUndo` (`:158`), which has its `added`
and `removed` objects from `pendingDiff`, swapped (`RecordsDiff.ts:22`). So the
squashing writes into the redo entry. `PendingOnRedos` is that entry as it is
when `_undo` returns: what is added is what `diffToUndo` removes in the end, and
the other way round, while `updated`, of which the reversal makes new pairs, is
as it was.

Two history variables say which records the properties speak of. `seen` remembers
the records at each mark. `inexact` are, one by one, the records

* that others changed, or that changed while the history was paused;
* that changed, in a batch that keeps redos or by a bail, while there were redos,
  which do not fit them any more;
* whose pending change was dropped by a bail that did not find its mark;
* whose entry on the redos an undo has overwritten (`Overwritten`).

A record leaves none of these for another: what an undo overwrites of one record
does not exempt the others of the same diff. `UndoThenRedo` is about one undo, so
the records it overwrites itself are judged by what comes of them: only those of
`TakenBack` are left out, which the pending changes created and the entries
below removed, or the other way round, so that the undo leaves them as they are.

### Tabs (`TLLocalSyncClient`)

Each tab has its store with a `history`, `diffQueue`, flags, the persist timer
and an inbox of the `BroadcastChannel`; `transactions` are IndexedDB's, which are
done in order and may fail. A user's change (`Edit`) changes the store and its
history; `FlushHistory` is a later frame, in which the client's listener hears of
it, queues it, posts it to the other tabs and schedules a persist. Messages of
others (`Receive`) may come in between. `doPersist` is `PersistTimer` up to its
await and `Commit` or `WriteFails` after it; a failed write reloads the page.
`alone` are behaviours in which one tab is open at a time.

`early` are records that a full write has serialized while the listener had not
heard of their change, and of which no later write had anything. If they are
changed back within the frame, nobody is told, and the table keeps them:
`Left` is `early` without what is queued or still to be heard of, and the one
thing that `WrittenOrQueued` leaves out. `EventuallySaved` leaves out `early`.

`contested` are the records of which tabs may have different values for good:

* one that a tab changed while another's change of it was not yet sent, or was on
  its way to this tab (`ChangedElsewhere`; a tab's own messages do not count);
* one whose change was sent when a tab had read the table and did not listen yet;
* one that a tab read while another had it otherwise, or had a change of it to
  send.

## The runs

All runs are of `MC...` modules with constants of the `.cfg` of the run's name.

| run | question | instance |
| --- | --- | --- |
| `room_records` | Does what a session is sent add up to the room's documents (`DocsInSync`), with clocks in order (`ClocksInOrder`)? Are record clocks and tombstones right through removals, re-additions and pruning (`HistorySound`, `TombstonesAreDead`, `TombstonesBounded`), and good enough to resume from any clock (`ReconnectSound`)? Does `documentClock` move exactly when documents do, whatever fails (`DocumentClockTracksDocuments`)? Does an `updateStore` write back what it only read (`NoStaleWriteBack`)? Also `TypeOK`. | one session of protocol 5, 7 or 8, a room with two records, pushes that change, remove or fail half-way, updaters, one tombstone kept, clock up to 3 |
| `room_presence` | Is presence everywhere as in the room (`PresenceInSync`) and owned by a session in the table (`PresenceOwned`), whatever way people leave and return? Do queued messages have a timer (`OutstandingHasTimer`), are they flushed (`OutstandingFlushed`), and are leavers forgotten (`LeaversForgotten`)? | two sessions, two presence ids |
| `sync` | Is what each client takes for confirmed a version of the room's documents (`ConfirmedIsRoomUnlessAstray`) that only moves forward (`ImplementsSharedDocument`)? Do answers meet their requests (`AnswersInOrder`)? Is what a client shows beyond it on its way (`NothingUnpushed`)? Has everybody the same when all is quiet (`Converged`)? Also `SyncTypeOK`. | two clients; either both edit a record of two properties of which one combination is invalid and one connects twice, or one moves and edits and connects twice over an earlier socket that still delivers; or one connects twice so while the other moves and edits; or one changes two records at once while the other makes one of the changes invalid |
| `sync_settles` | Does everybody get there (`SettlesDown`)? | the first scenario with one property |
| `adapter` | Is no live socket let go, nor a second one made (`OrphansAreClosing`)? Is something always under way (`NeverIdle`, `KeepsTrying`)? Is a socket there when the status says so (`OnlineHasItsSocket`)? Are attempts spaced (`MinDelayHonoured`), and none made after `close` (`ClosedForGood`)? Also `TypeOK`. | delays of 1 to 6 ticks, two promises |
| `hosted` | Are all in the room that is saved (`OneRoom`)? Is a room closed only when saved (`SavedWhenClosed`)? Is a save planned for each change (`SaveIsPlanned`), and does none overwrite another (`SavesAddUp`)? Also `ObjectTypeOK`. | two sessions, two changes, two rooms per life, two lives, a queue of one besides the task that runs |
| `history` | Do undo and redo reach the records as they were at each mark (`UndoReachesMark`, `RedoReachesMark`)? Does redo take back an undo (`UndoThenRedo`)? Also `HistoryTypeOK`: no diff says two things of one record. All but for the records that [the module's section](#undo-and-redo-historymanager) names. | two records, three changes, two marks, batches |
| `tabs` | Is what a lone tab shows written, under way, queued or still to be heard of (`WrittenOrQueued`), and in the end written (`EventuallySaved`)? Do tabs that have sent and received everything agree (`TabsAgree`)? | two tabs, one record of two values, two edits, three openings, one failure |
| `room_forgotten_deletion` | Is a client that reconnects from before the tombstone history brought up to date (`DocsInSyncAlways`)? No. | no tombstones kept |
| `room_ghost_presence` | Does a presence record always belong to a session, when pushes fail too (`PresenceOwned`)? No. | one value is invalid |
| `sync_stale_edit` | Has everybody the room's records when all is quiet, also who edited just before reconnecting (`AllStoresTheSame`)? No. | two clients, one record with two properties |
| `hosted_forgotten_room` | Does the object keep the room in which people are (`NoRoomForgotten`)? No. | as `hosted` |

The last four are described [below](#what-the-runs-found). The rooms and the
adapter are checked for deadlock: they can always be connected to, or tick. The
others say `CHECK_DEADLOCK FALSE`, because the system may rightly stop: clients
that are quiet, a file that is deleted or that nobody opens again, users who
have closed their last tab. `history` is checked for deadlock: `Clear` is always
possible.

What the properties are after:

* `DocsInSync`: the connect diff, patches and push answers add up. It fails if a
  tombstone is lost, a clock comparison is off by one, a rollback is
  incomplete, a broadcast is dropped while its receiver is still believed to be
  connected, or an answer of `commit`, `discard` or `rebase` is chosen wrongly.
* `HistorySound`, `ReconnectSound`: the room's clocks are good enough for any
  client to resume, also for those that are not connected now.
* `ClocksInOrder`: a client may be cut off after any message and resume from the
  clock it carried. So clocks on the wire and in the debounce queue never go
  back, and a message that changes documents carries a clock no earlier message
  has.
* `PresenceInSync`, `PresenceOwned`, `LeaversForgotten`: no cursor is left
  behind.
* `DocumentClockTracksDocuments`: persistence is triggered by `documentClock`;
  it must not miss a change, nor fire for a push that was rolled back.
* `NoStaleWriteBack`: the read-modify-write across the `await`.
* `ConfirmedIsRoomUnlessAstray`, `NothingUnpushed`: the two halves of the
  optimistic store. The first is what the comment on `speculativeChanges` says;
  it fails if a rebase undoes too much or too little, applies an answer twice or
  drops one. The second fails if a change is shown that nobody will ever push.
* `Converged`, `SettlesDown`: what the fuzz test of the repository looks for,
  with throttles, lost messages and late sockets that the test does not have.
* `NeverIdle`, `KeepsTrying`: a page that stays offline for good is the failure
  that only a sequence of hints, errors and late promises produces.
* `OneRoom`, `SaveIsPlanned`, `SavesAddUp`: a second room for one file, a save
  skipped because a clock did not move, a save that overwrites another.
* `UndoReachesMark`, `RedoReachesMark`: what the stacks add up to, at each mark
  and not only at the top.
* `WrittenOrQueued`, `TabsAgree`: changes made or heard of during a write, a full
  write between a change and its frame, a reload after a failed one, messages
  that come in any of these.

## Bounds

* `MaxClock`: no push is handled at the bound. Every property relates at most
  two or three clocks (before, at and after a change), so 2 or 3 pushes with
  every interleaving of connections reach all relations.
* `MaxWire`: with that many messages in flight to a socket, handlers that send
  wait for a delivery. A handler may still add several messages, and the
  debounce queue is not bounded, so flushes with several messages occur. The
  room never reads `wire`.
* Connect requests of `room_records` name any `lastServerClock` from 0 to
  `MaxClock + 1`: a clock before the tombstone history, each past one, the
  present one, and one of a room that was ahead. In `TLSync` they name what the
  client has.
* One session in `room_records`: its properties are about the room's records
  and about each session by itself; sender and receiver at once are in `sync`
  and `room_presence`. The theorems hold for every number.
* Presence ids are fresh in the code (`createId`). The model takes an id again
  once nothing refers to it, to keep their set finite.
* Property values are atomic, and one `updateStore` runs at a time.
* One room lifetime, from a snapshot without clocks whose schema is the room's.
* `HandleNewSession` over an entry in the table forgets the wire of the earlier
  socket: the code drops its reference to that socket, and the client has closed
  it. Its late close event is `HandleClose`; what it delivers late is `late` in
  `TLSync`.
* `maxEdits` and `maxRequests` of a scenario: one edit of each of two clients
  and one reconnection are the shortest behaviours with a conflict, a lost
  answer and a reconnection in any order; two edits of one client make two
  pushes pending. With the requests used up the connection lasts.
* `MaxUris`: pending promises beyond it are not told apart; the code uses the
  first that comes while it waits.
* Delays of the adapter keep the order of the real ones: hidden tabs wait
  longer, an attempt's timeout lies between the shortest and the longest delay.
  `DELAY_EXPONENT` is rounded up to ticks.
* `hosted`: a second room and a second life are enough for any question of the
  form "what if it was made again"; with `MaxTasks`, one task runs and one waits.
* `history`: two changes of one record and one of another give every pair that
  squashing tells apart; the stacks are bounded by the changes and the two marks.
* `tabs`: the third opening is a reload of one of two tabs. Records do not
  depend on each other but through the order of diffs, which one record and two
  edits have too; so one record with two values and none is enough for a change
  that is changed back, a conflict and a value that is written late. The theorems
  hold for any records.
* Symmetry over sessions, presence ids and marks is used for invariants and
  action properties only.

## Fairness

Timers, throttled functions and promises happen; users, networks and servers
promise nothing.

* Room (`FairSpec`): weak fairness of `FlushTimer(s)` and `PruneExpired(s)`. The
  first is a `setTimeout`, the second a `setInterval` of two seconds over
  deadlines that are fixed (`SESSION_START_WAIT_TIME`,
  `SESSION_REMOVAL_WAIT_TIME`) or a socket that is closed for good.
* `FairSyncSpec`: throttled functions and debounce timers run, a socket that
  stays open delivers, both ends hear of a closed one, and a client that is
  offline tries again, which the adapter is shown to do. That the last connection
  lasts is a bound of the model: nobody converges over connections that are
  always lost. `[]<>(incomingDiffBuffer = <<>>)` is weak fairness of `RunRebase`,
  which is enabled exactly while the buffer has something and empties it.
* Adapter: time passes, timers fire, promises settle, and a socket whose closing
  handshake has begun gets closed. A connection attempt may stay in the air for
  ever.
* Tabs: IndexedDB answers, what it answers is handled, and timers run:
  `[]<>~scheduled` is weak fairness of `PersistTimer`, which clears the flag.
  Frames come (`FlushHistory(t, FALSE)`), as they do while a page can be seen; a
  page in the background gets none, and tells nobody of its changes until it does.

## What is proved

With `tlapm`, for every value of the constants that the named assumptions allow
(`IdsAssumption`: document and presence ids differ; `AbsentAssumption`: no record
is `Absent`; `RoomAssumption`: finitely many sessions, inputs of the right
type, the clocks and request ids that clients name among them; `SyncAssumption`:
scenarios are scenarios; `AdapterAssumption`: see below; `RecordsAssumption`,
`HistoryAssumption`, `TabsAssumption` and `DurableObjectAssumption`: initial records and bounds of the right type, and
special values that are no ordinary ones). TLC evaluates these in every run that uses them.

| theorem | module | states |
| --- | --- | --- |
| `TypeCorrect` | `TLSyncRoomProofs` | `Spec => []TypeOK` |
| `SessionsInSync` | | `Spec => []DocsInSync` |
| `HistoryCorrect` | | `Spec => []HistorySound` |
| `TombstonesCorrect` | | `Spec => []TombstonesAreDead` |
| `ReconnectCorrect` | | `Spec => []ReconnectSound` |
| `DocumentClockCorrect` | `TLSyncRoomProofs` | `Spec => DocumentClockTracksDocuments` |
| `NoStaleWriteBackCorrect` | | `Spec => NoStaleWriteBack` |
| `TombstonesBoundedCorrect` | | `Spec => []TombstonesBounded`, for finitely many ids |
| `MessagesCorrect` | | `Spec => []MessagesInv`, the order of what is sent and queued |
| `OutstandingHasTimerCorrect` | | `Spec => []OutstandingHasTimer` |
| `ClocksInOrderCorrect` | | `Spec => []ClocksInOrder` |
| `PresenceInSyncCorrect` | | `Spec /\ [][NoGhosts]_vars => []PresenceInSync` |
| `PresenceOwnedCorrect` | | `Spec /\ [][NoGhosts]_vars => []PresenceOwned` |
| `PresenceWithoutRejections` | | both without that hypothesis, when `BadRecords = {}` |
| `SquashComposes` | `RecordsDiffProofs` | applying a squash of two diffs is applying one after the other, where each is applicable |
| `ReverseInverts` | | applying a diff and then its reverse changes nothing, where it is applicable |
| `TypeCorrect` | `ClientWebSocketAdapterProofs` | `Spec => []TypeOK` |
| `OrphansCorrect` | | `Spec => []OrphansAreClosing` |
| `AlwaysWorking` | | `Spec => []NeverIdle` |
| `OnlineCorrect` | | `Spec => []OnlineHasItsSocket` |
| `AttemptsPaced` | | `Spec => MinDelayHonoured` |
| `CloseIsFinal` | | `Spec => ClosedForGood` |
| `SyncTypesCorrect` | `TLSyncProofs` | `SyncSpec => []SyncTypeOK` |
| `SyncRoomCorrect` | | `SyncSpec => [](RoomInv /\ MessagesInv)` |
| `AnswersInOrderCorrect` | | `SyncSpec => []AnswersInOrder` |
| `ConfirmedIsRoomCorrect` | `TLSyncFollowersProofs` | `SyncSpec => [](NothingForgotten => ConfirmedIsRoomUnlessAstray)` |
| `NothingUnpushedCorrect` | | `SyncSpec => [](NothingForgotten => NothingUnpushed)` |
| `DocumentsConvergeCorrect` | | `SyncSpec => [](NothingForgotten => DocumentsConverge)` |
| `SharedDocumentCorrect` | | `SyncSpec /\ []NothingForgotten => ImplementsSharedDocument` |
| `ConfirmedIsRoomForFewRecords`, `NothingUnpushedForFewRecords`, `SharedDocumentForFewRecords` | | the same without that hypothesis, when there are at most `MAX_TOMBSTONES` ids |
| `HistoryInvCorrect` | `StoreRecordsProofs` | `HistorySpec => []HistoryInv`, the inductive invariant |
| `HistoryTypeCorrect` | | `HistorySpec => []HistoryTypeOK` |
| `UndoReachesMarkCorrect` | | `HistorySpec => []UndoReachesMark` |
| `RedoReachesMarkCorrect` | | `HistorySpec => []RedoReachesMark` |
| `UndoThenRedoCorrect` | | `HistorySpec => UndoThenRedo` |
| `WrittenOrQueuedCorrect` | | `TabsSpec => []WrittenOrQueued` |
| `TabsAgreeCorrect` | | `TabsSpec => []TabsAgree` |
| `ObjectTypeCorrect` | `TLDrawDurableObjectProofs` | `ObjectSpec => []ObjectTypeOK` |
| `OneRoomCorrect` | | `ObjectSpec => []OneRoom` |
| `SavedWhenClosedCorrect` | | `ObjectSpec => []SavedWhenClosed` |
| `SaveIsPlannedCorrect` | | `ObjectSpec => []SaveIsPlanned` |
| `SavesAddUpCorrect` | | `ObjectSpec => SavesAddUp` |

The argument for the room. `DocsInSync` is not inductive: a connecting session is
in sync only if the record clocks and tombstones are right (`HistorySound`), and
that survives re-addition and pruning only if tombstones mark absent records and
are not from the future (`TombstonesAreDead`). So the invariant is

    RoomInv == TypeOK /\ TombstonesAreDead /\ HistorySound /\ DocsInSync

1. `NextType`: every action keeps `TypeOK`, from a lemma for each operator on
   sessions (`SendDataType`, `RejectSessionType`, ...).
2. `PushKeepsHistory`, `PruneTombstonesKeepsHistory`: the two kinds of step that
   touch record clocks keep `HistorySound` and `TombstonesAreDead`.
3. `IsQuiet(c, d)`: what an operation may do to a session when document records do
   not change. It leaves its view of documents alone or makes it deaf (no longer
   connected with an open socket). Cancelling, flushing, closing, removing,
   rejecting and presence broadcasts are all quiet (lemmas `Quiet...`), so the
   actions made of them keep `DocsInSync`.
4. `PushTellsSession`, `BroadcastTellsSessions`: what a push sends turns a view
   of the old records into one of the new, for the sender by its answer and for
   the others by the patch. They rest on `OpBetweenApplies`: the operation that
   is propagated for a change makes that change.
5. `HydrationBringsUpToDate`: from `HistorySound`, the partial hydration turns
   the records of any past clock into the present ones, but for forgotten
   deletions. `ReconnectCorrect` is its corollary, and
   `HandleConnectRequestKeepsSync` uses it for a session that connects.

The argument for what the room schedules and sends. `RecordSteps` says once what
any step does to document records: it leaves them and their clocks alone, prunes
tombstones, or is a push that is applied or rolled back. `documentClock`
(`ClocksInv`: it is not ahead of `clock`), the commit of an `updateStore` and the
bound on tombstones follow from that. Messages need an invariant of their own,

    MessagesInv == TypeOK /\ AllOrderly(sessions, clock)

which says of each session that its wire, its queued messages and the clock of
the last message form one sequence of clocks that do not go back, that a message
with document records is newer than all before it, that nothing is newer than
the room's clock, and that a queue has a timer. Each sending operator is shown to
keep it (`SendData`, `FlushDataMessages`, `RejectSession`, `BroadcastPatch`), so
that the actions made of them do. Presence is inductive together with its ownership (`PresenceInv`), as
long as no push fails in a session that has a presence record: that step is the
ghost of [the findings](#what-the-runs-found), and `NoGhosts` is its absence. The
run `room_ghost_presence` shows that the hypothesis is needed, and
`PresenceWithoutRejections` that validators which accept everything are enough
for it.

The argument for the composition. The room is proved about in an open
environment first: `OpenNext` is the room's `Next` with any push of document
operations, any clock and any request id, without the bounds of a run
(`OpenRoomCorrect`, `OpenMessagesCorrect`). `SyncTyping` then says what clients,
what they send and what their earlier sockets still hold is made of; every
handler of the client keeps it, and what the room gets from a typed client is an
input of the open environment. So every step of `SyncNext` is one of the room's
or none (`SyncNextTyped`), and `SyncRoomCorrect` carries the room's invariants
over.

`AnswersInOrder` needs the whole way of a request. The invariant is
`Conversations`: without late messages, each client and its session are in

    Conversation(c, d) == offline: nothing is pending or buffered
                          online, not in the room: Apart(c, d)
                          in the room: Joined(c, d)

`Apart` says that only a connect request is on the socket, that nothing on its
way to the client answers a push, and that no acceptance precedes the request it
accepts. `Joined` says that there is an `n` such that the first `n` requests were sent
and the others not; that the answers the client has not handled (`Told`: in its
buffer, then on the wire, then in the session's debounce queue) are for the
first requests, in order; and, while the session listens, that the messages on
the socket are exactly the requests between the last one answered and the `n`-th.
`Hears(d, e, msgs)` says what may happen to a session's stream in a step: `msgs`
come at its end, or, when the session stops listening, a part of it is lost from
the end. Each of the room's operators is shown to make each session hear a
patch, an answer or nothing (`...Overheard`), and each of the client's handlers to
keep the conversation (`Conversation...`): pushing appends unsent requests, a
flush moves them to the socket, a rebase drops as many requests as its buffer
has answers. TLC checked `Conversations` on the instance of `sync` (503356
distinct states) before it was proved.

The argument for the followers. That confirmed records are the room's says nothing
of the messages that will change them, so the invariant has to tell what every
event that a client has not handled yet is going to make of its records. Events
form a `Story`: each carries the clock of a version (`hist`), a patch turns the
version of the event before it into its own, and an answer does so by the diff of
the request it answers (`EventDiff`: that diff, nothing, or the one the room gives
instead). The last event leads to the room's present version while the session
listens, and to an earlier one when it no longer does. Then

    Follows(h, t, c, d, l) == Copied(h, t, c)      what it has
                              Written(c, l)        what it has sent, on this socket or before
                              Requested(d)         what it may take for an acceptance
                              HearsAll(h, t, c, d) in the room: buffer, wire and queue are a Story
                              Awaits(h, t, c, d)   otherwise: so is what follows an acceptance

`Copied` says that the client is `Ahead` of version `lastServerClock`: its
speculative changes turn that version into what the store shows, but for what its
listener has not seen, and they are what its pending requests make of it.
`Confirmed`, which undoes these changes, gives the version back because they fit
it (`ReverseInverts`), and `NothingUnpushed` is the same fact seen from the other
side. `Awaits` is where reconnecting is decided: any acceptance on its way hydrates
the client to the version it names (`Hydrates`, by `HydrationBringsUpToDate` of
the room), with the story of everything behind it. Each client is astray or
follows (`Followers`), next to `TombstonesNumbered`: a tombstone is of clock 1 or
later, so that `forgotten`, the clock of the last one pruned, is 0 only if none was.

`NothingForgotten` is the hypothesis that `room_forgotten_deletion` shows to be
needed: no tombstone has been pruned. A behaviour satisfies it up to the first
pruning that drops one, and always when the room may
keep a tombstone of every record (`FewRecords`, as in the runs: two ids, three
tombstones), for which the theorems `...ForFewRecords` drop the hypothesis.
`DocumentsConverge` follows when all is quiet: nothing is pending, so what is shown
is what is confirmed, and the story is at its end, so it is the room's present
version.

The argument for the refinement. `SharedDocument` says that a copy only moves
forward, of clients that are astray too, about whose events `Follows` says
nothing. So there is a second, weaker invariant that needs no hypothesis:

    Forward(t, c, d) == the clocks of what c has not handled never go back,
                        from its lastServerClock to at most t

where an acceptance that it awaits counts as the beginning. (It also shows that the
client is never told a clock lower than its own.) Every step then either moves one
client and leaves the documents (`OneMoves`) or gives them at most one more version
and leaves every copy (`RoomMoves`): `NextForward`. `SharedDocumentCorrect` maps
these. A client that moves and is not astray has, by `ConfirmedIsRoomUnlessAstray`,
version `lastServerClock` as its copy: `Sync`, or a stutter if it has loaded
nothing. One that is astray now moves by `GoAstray`. A push that is applied is
`Commit`, and all other steps of the room are not seen. TLC checks the same
refinement in `sync`.

The argument for diffs. `Applicable(store, diff)` says what the store guarantees
of its history entries: what is added is not there, what is updated or removed is
there with the recorded value. Squashing goes through additions, updates and
removals in turn, so there is a lemma for each: the intermediate squash is
applicable to the store and applies like the target followed by that part.
`SquashComposes` chains them; client, history and tabs rely on it whenever they
keep one diff for many changes.

The argument for folds. Stacks, queues and inboxes are folded into one diff or
onto a store with the community modules' `FoldLeft`. `LeftFold` has the operator
as a constant and is instantiated for each one that is folded, as in
`Applying == INSTANCE LeftFold WITH Op <- ApplyChanges`. Induction goes over a
set of numbers (`SetInduction`, from the well-foundedness of `<`), which names
what is to be shown without a predicate as a parameter. `FoldTrace` and `FoldIs`
say that a fold is the end of a sequence of accumulators; what a fold keeps, adds
at either end and does to a concatenation follows.

The argument for undo and redo. The invariant is

    HistoryInv == StacksTyped /\ BatchesNest /\ Chains

`Chains` says of each record that is not in `inexact`: there is a chain of values
from the record as it is, through the
pending diff and then each entry of the undo stack, that has at every stop the
value which `seen` remembers of its mark, and at the bottom the first value; and
the same for redos, upwards. A chain is of one record, in which a diff adds,
updates or removes it and no two of these, so that squashing joins two links to
one and reversing turns a link around. The redos after an undo chain again
because of a record that is not `Overwritten` the new entry says what the pending
diff said (`PendingOnRedosLeads`). `BatchesNest` is what makes the recording
state that a batch restores the right one. `UndoReachesMark` folds the reversed
diffs of a chain down to its stop. `UndoThenRedo` follows one undo and what its
redo pops, also where the undo overwrites the entry: the overwritten diff,
squashed onto those below it, still leads back to where the undo began, unless the
record is one of `TakenBack`.

The argument for tabs. `WrittenOrQueued` and `TabsAgree` each have their own
strengthening, over the same typing and protocol of transactions (`TabsShape`: a
tab has at most one transaction under way, and none unless it is loading or
persisting).

`AloneOK` is about a tab that is open alone, one record at a time (`Lone`). There
is a value that the client was last told of, from which `history` leads to what the
tab shows (`LeadAll`: each diff starts where the one before ended). Unless a full
write is due, the queue, squashed, leads to that value from another (`Leads`),
and that is the table's after all transactions, unless the record is `early`. Then the
table is ahead of the diffs and says nothing of where they start. But where one of
them touches the record at all, they determine where it ends; so only what is
neither queued nor still to be heard of is left out.

`Agreed` is about a record that is not contested: there is a value that every open
tab will show once it has applied its inbox, but for the one tab, if any, whose
history changes the record (`OneTells`); its history leads from that value to what
it shows, and nothing in its inbox touches the record. A second change elsewhere
makes the record contested, and the flush of the first sends it to the inboxes of
all others at once, which is what keeps `Agreed`.

The argument for the hosted room. A handler goes on inside another: the task that
ends wakes up `onSessionRemoved` only after the next task has begun. So the
invariant is stated of a memory `m`, the waiter `d` that is still to be woken up
and the bucket:

    ObjectInv == IsFile(bucket) /\ ... /\ MemoryOK(memory, NoRoom, bucket, alarm, world)

Its parts are types, with the rooms that numbers refer to (`MemoryTyped`);
`OneRoomOK`, in which only the object's room serves or loads and at most one save
in the queue, under way or just done is awaited (`OneWaits`), by that room;
`SavedOK`, in which the bucket has all changes of other rooms and no change that
the object's room lacks, `_lastPersistedClock` is not ahead of the room and is its
clock only if everything is saved, and the save under way sits between bucket and
room (`SaveIsNew`); and `Planned`. `SaveIsNew` has the reason why a room may be
closed after its last save: the clock of that save is the room's if nobody came
meanwhile. Each part is required in the worlds in which the code keeps it.
`RunTasks` is shown to keep `MemoryOK` by taking the tasks off the queue one at a
time, with the theorems on folds. TLC checked `ObjectInv` on the instance of
`hosted` (355401 distinct states) before it was proved.

The argument for the adapter. Its handlers call each other in the middle, so the
invariant is stated of an adapter record `m` rather than of the variable, in two
parts. `Sound(m)` also holds halfway through a handler; `Working(m)`, which is
`NeverIdle`, holds at its end:

    AdapterInv == world \in World /\ Sound(adapter) /\ Working(adapter)

`Sound` strengthens the properties by what makes them inductive: in state
`pendingAttempt` no socket is live and the shortest delay has passed since the
last attempt (which is what lets any of several pending promises make the next
one); a back-off is never shorter than the shortest delay; the socket of a closed
adapter is not live; a connecting socket has an attempt time, without which
`maybeReconnected` would compare with nothing. `DisconnectedWorks`,
`CloseSocketWorks`, `MaybeReconnectedWorks` and `WithUriWorks` say that each
operator takes a sound record to a sound and working one; `StepHandles` puts the
handlers together. The one assumption is `AdapterAssumption`: delays are positive,
a hidden tab's shortest delay is no shorter than a visible one's, and no shortest
delay exceeds its longest.

Model-checked only: the half of `Converged` that is about presence. Its proof would
repeat that of the followers for presence records, under `NoGhosts`.
Out of the prover's reach are the liveness properties (`OutstandingFlushed`,
`LeaversForgotten`, `SettlesDown`, `KeepsTrying`, `EventuallySaved`), which need
`ENABLED`.

A note on reading the models: an inner `@` of nested `EXCEPT`s is written out
where it is proved about (`LoadSnapshot`), as `tlapm` takes it for the outer one's
field.

## What the runs found

1. **Forgotten deletions** (`room_forgotten_deletion`).
   `tombstoneHistoryStartsAtClock` is set when the room is made and never
   advanced, though `pruneTombstones` drops old tombstones. A client that
   reconnects with a clock older than a dropped tombstone is taken to be within
   the tombstone history, gets a `wipe_presence` hydration and keeps the deleted
   record. The comment above the comparison promises the full state in this
   case. `DocsInSync` and the theorems exclude exactly these records (`stale`).
2. **Ghost presence** (`room_ghost_presence`). In `handlePushRequest`, `fail()`
   marks the transaction for rollback and rejects the session while still inside
   it; `removeSession` deletes the presence record in the transaction, and its
   abort brings the record back after the session has left the table. Nothing
   removes it until the room closes.
3. **Stale edits** (`sync_stale_edit`). `didReconnect` stashes
   `speculativeChanges` without flushing the store's history, while the listener
   that fills it is throttled. An edit made just before the connect answer is
   neither undone nor stashed; it stays on top of the hydrated records and is
   pushed later as an operation on records that may be gone. When all is quiet
   the client shows what the room does not have. The fuzz test that expects "all
   stores should be the same" runs with throttling off. `astray` marks such
   clients, and the other properties of `sync` exclude them.
4. **Forgotten room** (`hosted_forgotten_room`). `onSessionRemoved` awaits a save
   and then closes its room and sets `_room` to null if its own room is empty,
   even when `_room` is another one by then. Two departures of a last session
   with their saves under way are needed: the second continuation takes away the
   room of those who came after the first. What they change is not saved any
   more, and the next visitor gets another room. `OneRoom` excludes exactly the
   world in which a session leaves during such a save.

## What the models show besides

Modelling met these behaviours, too. Some contradict what a doc or a comment says,
which is then quoted; of the others nothing is said. No run is about one of them
alone: each is an action or a case of a model, and where a property has to leave
it out, the property's comment says so.

* Room. In a `wipe_presence` hydration the list of updated records is not
  filtered by the session's own presence id: a tab that reconnects before its old
  session was removed sees itself as a peer (`TLSyncRoom.ts:839`).
* Client. A record that was created, pushed and then deleted while offline comes
  back, as the deletion cancels the creation in `speculativeChanges` and leaves
  nothing to push (`TLSyncClient.ts:519`). A late push of a tab's earlier socket
  is handled under the new session (`TLSocketRoom.ts:125`); its answer makes
  `rebase` throw and reset, and `AnswersInOrder` is stated without late messages.
  A late connect request of an earlier socket makes the room forget what waits
  for the session's debounce timer (`TLSyncRoom.ts:786`); its answer is not for
  the client's latest request and is ignored, so the client goes without those
  messages. `astray` marks it.
  When applying a pending request again throws, "throw away the speculative
  changes and start over" (`TLSyncClient.ts:652`) empties `speculativeChanges`,
  but no transaction takes back what was applied until then: the requests
  before it, and of its own records those that were put before the one the
  validators reject (`Store.ts:352`). The client shows them for good, and the
  room never hears of them. `astray` marks it, too.
* Adapter. A hint while the socket is closing orphans it with the status still
  online; the next opening then is no change of status, and the client never
  sends its connect request (`TLSyncClient.ts:296`). A rejected `getUri` leaves
  the manager in `pendingAttempt` with no timer, until a hint comes. After
  `close`, the close event of the socket still sets timers.
* Hosted room. `_lastPersistedClock` is kept when a room is loaded again from a
  restored, older version, so a save is skipped when the clock reaches it
  (`TLDrawDurableObject.ts:697`). A room that failed to load stays in `_room`
  (`:99`). A put that fails is logged and taken for done, so that the last one
  out closes a room that is not saved (`:724`). An alarm that comes while a
  version is restored saves nothing and is not set again (`:698`). After
  `loadSnapshot` nobody listens to `session_removed` of the new room
  (`TLSocketRoom.ts:82`). The put of a restore is not ordered with a save under
  way (`:322`). A request or restore under way brings a deleted file back
  (`:831`). `OneRoom` is checked in all of these but the deletion.
* History. An undo writes into the diff that it has put on the redos, as
  `reverseRecordsDiff` returns the `added` and `removed` objects it is given
  (`RecordsDiff.ts:22`) and the squash that follows mutates them
  (`HistoryManager.ts:128`, `:158`). After mark, create `x`, undo, redo, delete
  `x`, undo, the redo stack has the creation but no longer the deletion, and a
  redo brings `x` back. `apps/docs/content/docs/editor.mdx:102` says "the editor
  will redo each diff until it finds either a mark or the end of the stack". With
  an update in the place of the deletion, the entry says of `x` that it is added
  and that it is updated. `Overwritten` and `TakenBack` are these records. The
  tests of the repository use updates, which are not shared.
  `bailToMark` of a mark that is gone clears the pending diff
  (`HistoryManager.ts:174` says "don't do anything"). Bailing leaves redos that
  do not fit any more. `Editor` documents that a mark clears redos; it does not.
  An undo that pops only marks, or finds no mark, makes the next redo go further
  than the undo did.
* Tabs. A full write serializes the store as it is (`TLLocalSyncClient.ts:353`),
  while the listener hears of a change in a later frame (`Store.ts:228`). A record
  that is created before the write and deleted before the frame stays in the table,
  with nothing queued, and shows up when the page is next loaded; one that is
  removed and restored around the write is lost. `Left` are these records.
  A failed write reloads the page, and what was not written is lost,
  though the comment at `TLLocalSyncClient.ts:332` speaks of a retry. A new tab's
  first write is a full one and removes from the table what another tab changed
  and had not written when the new one read it (`TLLocalSyncClient.ts:205`). Two
  tabs that change a record at once end up with each other's value.

## What is not modelled

* Of the room: sessions with an older schema (their pushes are migrated up and
  the room's diffs down), and a constructor that migrates or filters a snapshot.
* Of the diffs: nested objects and arrays. A property's value is atomic.
* Of the facade: assembling chunks, and documents over several lives of a room;
  `TLDrawDurableObject` has the lives without the records' clocks.
* Chunking: it is all about characters, and TLA+ would model the data and no
  control. By reading: its regular expression does not match a chunk whose text
  has U+2028 or U+2029, as `.` does not.
* Store: side effects, queries, caches. Signals: epochs, lazy recomputation,
  effects; the room uses the effect of an abort only.
* History: a batch whose function throws, after which the editor has crashed.
* Tabs: other schema versions, the session's state, assets, a load that fails.
* Hosted room: creating from a source, legacy rooms, publishing, changes of the
  file's record, assets.
* User data replication: spread over four services and a replicated database,
  whose ordering and retry guarantees are not in the repository.
* Migrations of the schemas are data; the machinery that runs them is sequential.
* Editor, tools, shapes and user interface, by far most of the lines of the
  repository, are sequential code over geometry, text and the DOM with no
  protocol in it. Documentation, examples, analytics and scripts have no system
  logic.

## Plan

1. Prove the half of `Converged` that is about presence.
2. Model several lives of a room (`loadSnapshot`, restart from an older snapshot)
   with records, sessions with an older schema, and nested diffs with arrays.
3. Signals: transactions, epochs, lazy computed values, effects.
