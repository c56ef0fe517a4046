-------------------------- MODULE TLDrawDurableObject --------------------------
(***************************************************************************)
(* The hosted server of one file: the durable object in                    *)
(* apps/dotcom/sync-worker/src/TLDrawDurableObject.ts, which makes a       *)
(* TLSocketRoom when somebody comes, saves it to a bucket from an alarm    *)
(* and when the last one leaves, restores old versions, is deleted with    *)
(* its file, and may be evicted with everything it has in memory.          *)
(*                                                                         *)
(* Its handlers interleave where they wait for the bucket or another       *)
(* service.  What runs between two such waits is one step, in the order of *)
(* the microtasks.  Operations on the object's own storage let no other    *)
(* event in, so that they are part of the step that makes them.            *)
(***************************************************************************)
EXTENDS Integers, Sequences, FiniteSets, SequencesExt

CONSTANTS
    SessionIds,
    MaxEdits,   \* bound: the changes that are made
    MaxRooms,   \* bound: the TLSocketRooms made in one life of the object
    MaxClock,   \* bound: the clock of a room
    MaxLives,   \* bound: how often the object wakes up
    MaxTasks    \* bound: the tasks that wait in the queue

ASSUME DurableObjectAssumption ==
    /\ {MaxEdits, MaxRooms, MaxClock, MaxLives, MaxTasks}
         \subseteq Nat \ {0}
    /\ 0 \notin SessionIds

Edits == 1..MaxEdits
RoomIds == 1..MaxRooms

NoRoom == 0     \* _room is null; also the waiter of a persist nobody awaits
NoRequest == -1
Checked == 0    \* a request that waits for other services
NoFile == [docs |-> {}, clock |-> -1]
NoSnapshot == [docs |-> {}, clock |-> -2]

VARIABLES
    bucket,    \* r2.rooms: the file's snapshot
    versions,  \* r2.versionCache
    alarm,     \* the persist alarm is set
    memory,    \* the durable object
    requests,  \* onRequest, for each session that is not yet in a room
    edits,     \* the changes made so far
    lives,     \* how often the object has woken up
    world      \* what may happen in this behaviour; it never changes

objectVars == <<bucket, versions, alarm, memory, requests, edits, lives, world>>

(***************************************************************************)
(* A snapshot is the set of changes it contains, with the clock.  A room   *)
(* is the TLSocketRoom with the TLSyncRoom in it: listening says whether   *)
(* session_removed of that one is listened to.                             *)
(***************************************************************************)
Snapshot == [docs : SUBSET Edits, clock : -2..MaxClock]

Room == [state : {"loading", "open", "failed"}, isClosed : BOOLEAN,
         docs : SUBSET Edits, clock : 0..MaxClock, documentClock : 0..MaxClock,
         sessions : SUBSET SessionIds, listening : BOOLEAN]

\* A task of executionQueue; waiter is the room whose onSessionRemoved awaits it.
Task == [type : {"persist", "delete"}, waiter : 0..MaxRooms]

\* What the task that is running awaits: a room that loads, or the bucket.
Running == [type : {"none", "loadToPersist", "loadToDelete", "persist", "delete"},
            waiter : 0..MaxRooms, snapshot : Snapshot,
            documentClock : 0..MaxClock]

Memory == [room : 0..MaxRooms, rooms : Seq(Room), lastPersistedClock : -1..MaxClock,
           queue : Seq(Task), running : Running, throttled : BOOLEAN,
           deleted : BOOLEAN, isRestoring : BOOLEAN,
           restore : {"idle", "put", "load", "done"}, restored : Snapshot,
           restoreRoom : 0..MaxRooms]

\* "evicted": the object is evicted now and then.  "hasty": a session leaves a
\* room while the save that the room's last session caused is under way.
\* "faulty": loads and puts fail.  "restored": an old version is restored.
World == {"evicted", "hasty", "faulty", "restored"}

Idle == [type |-> "none", waiter |-> NoRoom, snapshot |-> NoSnapshot,
         documentClock |-> 0]

Awake == [room |-> NoRoom, rooms |-> <<>>, lastPersistedClock |-> -1,
          queue |-> <<>>, running |-> Idle, throttled |-> FALSE,
          deleted |-> FALSE, isRestoring |-> FALSE, restore |-> "idle",
          restored |-> NoSnapshot, restoreRoom |-> NoRoom]

ObjectInit ==
    /\ bucket = [docs |-> {}, clock |-> 0]
    /\ versions = {bucket}
    /\ alarm = FALSE
    /\ memory = Awake
    /\ requests = [s \in SessionIds |-> NoRequest]
    /\ edits = 0 /\ lives = 1
    /\ world \in World

-----------------------------------------------------------------------------
(***************************************************************************)
(* The operations, on the object's memory.                                 *)
(***************************************************************************)
NewRoom == [state |-> "loading", isClosed |-> FALSE, docs |-> {}, clock |-> 0,
            documentClock |-> 0, sessions |-> {}, listening |-> TRUE]

\* A mutant: the room is remembered only when it has loaded.
GetLoadedRoom(m) ==
    IF m.room # NoRoom /\ m.rooms[m.room].state # "loading" THEN m
    ELSE [m EXCEPT !.rooms = Append(@, NewRoom), !.room = Len(m.rooms) + 1]

\* getRoom: what was made first is kept, be it loading, open or failed.
GetRoom(m) ==
    IF m.room # NoRoom THEN m
    ELSE [m EXCEPT !.rooms = Append(@, NewRoom), !.room = Len(m.rooms) + 1]

CanGetRoom(m) == m.room # NoRoom \/ Len(m.rooms) < MaxRooms

\* A mutant: it is not checked whether somebody came.
ContinueUnchecked(m, r) ==
    IF r = NoRoom THEN m
    ELSE [m EXCEPT !.room = NoRoom, !.rooms[r].isClosed = TRUE]

\* onSessionRemoved goes on when its save is done: "make sure nobody joined the
\* room while we were persisting".
Continue(m, r) ==
    IF r = NoRoom \/ m.rooms[r].sessions # {} THEN m
    ELSE [m EXCEPT !.room = NoRoom, !.rooms[r].isClosed = TRUE]

\* A mutant: the clock is compared the wrong way around.
PersistUnlessNewer(m, waiter) ==
    LET room == m.rooms[m.room]
    IN  IF m.lastPersistedClock < room.documentClock \/ m.isRestoring THEN m
        ELSE [m EXCEPT !.running =
                [type |-> "persist", waiter |-> waiter,
                 snapshot |-> [docs |-> room.docs, clock |-> room.clock],
                 documentClock |-> room.documentClock]]

\* persistToDatabase, once it has the room: take the snapshot and put it.
PersistRoom(m, waiter) ==
    LET room == m.rooms[m.room]
    IN  IF m.lastPersistedClock = room.documentClock \/ m.isRestoring THEN m
        ELSE [m EXCEPT !.running =
                [type |-> "persist", waiter |-> waiter,
                 snapshot |-> [docs |-> room.docs, clock |-> room.clock],
                 documentClock |-> room.documentClock]]

\* The task of appFileRecordDidDelete, once it has the room.  The last session
\* that is closed causes a save.
CloseRoom(m) ==
    LET room == m.rooms[m.room]
    IN  [m EXCEPT !.rooms[m.room].sessions = {},
                  !.rooms[m.room].isClosed = TRUE,
                  !.room = NoRoom,
                  !.running = [Idle EXCEPT !.type = "delete"],
                  !.queue = IF room.listening /\ room.sessions # {}
                              THEN Append(@, [type |-> "persist",
                                              waiter |-> m.room])
                              ELSE @]

\* A task starts.  It is done at once, or rejected, if running stays Idle.
StartTask(m, task) ==
    LET state == IF m.room = NoRoom THEN "none" ELSE m.rooms[m.room].state
        waiting(type) == [m EXCEPT !.running = [Idle EXCEPT
                                       !.type = type, !.waiter = task.waiter]]
    IN  CASE task.type = "persist" /\ state \in {"none", "failed"} -> m
          [] task.type = "persist" /\ state = "loading" -> waiting("loadToPersist")
          [] task.type = "persist" /\ state = "open" -> PersistRoom(m, task.waiter)
          [] task.type = "delete" /\ state = "none" -> waiting("delete")
          [] task.type = "delete" /\ state = "failed" -> m
          [] task.type = "delete" /\ state = "loading" -> waiting("loadToDelete")
          [] task.type = "delete" /\ state = "open" -> CloseRoom(m)

\* done: the waiter of the task that has just ended; left: the tasks that have
\* to wait.
RunNext(acc, task) ==
    IF acc.m.running # Idle THEN [acc EXCEPT !.left = Append(@, task)]
    ELSE LET started == StartTask(acc.m, task)
         IN  [m |-> Continue(started, acc.done), left |-> acc.left,
              done |-> IF started.running = Idle THEN task.waiter ELSE NoRoom]

\* ExecutionQueue.run: one task after the other, until one has to wait.  The
\* next one starts before the waiter of the last one goes on.
RunTasks(m, done) ==
    LET ran == FoldLeft(RunNext, [m |-> [m EXCEPT !.queue = <<>>],
                                  done |-> done, left |-> <<>>], m.queue)
    IN  Continue([ran.m EXCEPT !.queue = ran.left \o @], ran.done)

\* executionQueue.push.
Push(m, type, waiter) ==
    LET pushed == [m EXCEPT !.queue = Append(@, [type |-> type,
                                                 waiter |-> waiter])]
    IN  IF m.running = Idle THEN RunTasks(pushed, NoRoom) ELSE pushed

\* A mutant: the clock is incremented for the change and for the push.
DataChangedTwice(m, r, e) ==
    [m EXCEPT !.rooms[r].docs = @ \cup {e},
              !.rooms[r].clock = @ + 2,
              !.rooms[r].documentClock = m.rooms[r].clock + 2,
              !.throttled = TRUE]

\* onDataChange: triggerPersistSchedule is throttled.
DataChanged(m, r, e) ==
    [m EXCEPT !.rooms[r].docs = @ \cup {e},
              !.rooms[r].clock = @ + 1,
              !.rooms[r].documentClock = m.rooms[r].clock + 1,
              !.throttled = TRUE]

\* TLSocketRoom.loadSnapshot: a new TLSyncRoom, to which nobody listens.
LoadSnapshot(m, r, snapshot) ==
    [m EXCEPT !.rooms[r] =
        [@ EXCEPT !.docs = snapshot.docs, !.clock = m.rooms[r].clock + 1,
                  !.documentClock = m.rooms[r].clock + 1,
                  !.sessions = {}, !.listening = FALSE, !.isClosed = FALSE]]

\* The room has loaded, or failed to: a task that waited for it goes on.
TaskGoesOn(m) ==
    IF m.running.type \notin {"loadToPersist", "loadToDelete"} THEN m
    ELSE LET task == [type |-> IF m.running.type = "loadToPersist"
                                 THEN "persist" ELSE "delete",
                      waiter |-> m.running.waiter]
             started == StartTask([m EXCEPT !.running = Idle], task)
         IN  IF started.running = Idle THEN RunTasks(started, task.waiter)
             ELSE started

-----------------------------------------------------------------------------
(***************************************************************************)
(* Requests and sessions.                                                  *)
(***************************************************************************)
\* onRequest, up to what it awaits after it saw that the file is not deleted.
Request(s) ==
    /\ requests[s] = NoRequest
    /\ \A r \in DOMAIN memory.rooms : s \notin memory.rooms[r].sessions
    /\ ~memory.deleted
    /\ requests' = [requests EXCEPT ![s] = Checked]
    /\ UNCHANGED <<bucket, versions, alarm, memory, edits, lives, world>>

\* onRequest comes to getRoom: it joins the room, or waits for it.
AskForRoom(s) ==
    /\ requests[s] = Checked /\ CanGetRoom(memory)
    /\ LET m == GetRoom(memory)
       IN  CASE m.rooms[m.room].state = "open" ->
                  /\ memory' = [m EXCEPT !.rooms[m.room].sessions = @ \cup {s}]
                  /\ requests' = [requests EXCEPT ![s] = NoRequest]
             [] m.rooms[m.room].state = "loading" ->
                  /\ memory' = m
                  /\ requests' = [requests EXCEPT ![s] = m.room]
             [] m.rooms[m.room].state = "failed" ->
                  /\ memory' = m
                  /\ requests' = [requests EXCEPT ![s] = NoRequest]
    /\ UNCHANGED <<bucket, versions, alarm, edits, lives, world>>

\* loadFromDatabase is done: the requests that wait get their room, the restore
\* and the task too.
RoomLoads(r) ==
    /\ memory.rooms[r].state = "loading"
    /\ LET waiting == {s \in SessionIds : requests[s] = r}
           found == [memory EXCEPT !.rooms[r] =
                       [@ EXCEPT !.state = "open", !.docs = bucket.docs,
                                 !.clock = bucket.clock,
                                 !.documentClock = bucket.clock,
                                 !.sessions = waiting]]
       IN  \/ bucket # NoFile /\ memory' = TaskGoesOn(found)
           \/ /\ bucket = NoFile \/ world = "faulty"
              /\ memory' = TaskGoesOn([memory EXCEPT !.rooms[r].state = "failed"])
    /\ requests' = [s \in SessionIds |-> IF requests[s] = r THEN NoRequest
                                         ELSE requests[s]]
    /\ UNCHANGED <<bucket, versions, alarm, edits, lives, world>>

CanEdit(r) ==
    /\ memory.rooms[r].state = "open" /\ ~memory.rooms[r].isClosed
    /\ memory.rooms[r].sessions # {} /\ memory.rooms[r].clock < MaxClock

\* A session changes the document.
Edit(r) ==
    /\ CanEdit(r) /\ edits < MaxEdits
    /\ edits' = edits + 1
    /\ memory' = DataChanged(memory, r, edits + 1)
    /\ UNCHANGED <<bucket, versions, alarm, requests, lives, world>>

\* A session moves: only the clock changes.
Move(r) ==
    /\ CanEdit(r)
    /\ memory' = [memory EXCEPT !.rooms[r].clock = @ + 1]
    /\ UNCHANGED <<bucket, versions, alarm, requests, edits, lives, world>>

\* A room whose last session's save is under way, or waits for its turn.
SavedForLast(r) ==
    memory.running.waiter = r
    \/ \E i \in DOMAIN memory.queue : memory.queue[i].waiter = r

\* A session is removed, long after its socket closed or at once when it is
\* rejected: onSessionRemoved saves the room after the last one.
SessionRemoved(r, s) ==
    /\ s \in memory.rooms[r].sessions /\ ~memory.rooms[r].isClosed
    /\ SavedForLast(r) => world = "hasty"
    /\ LET m == [memory EXCEPT !.rooms[r].sessions = @ \ {s}]
       IN  \/ /\ m.rooms[r].listening
              /\ m.rooms[r].sessions = {} /\ m.room # NoRoom
              /\ Len(m.queue) < MaxTasks
              /\ memory' = Push(m, "persist", r)
           \/ /\ ~m.rooms[r].listening
                 \/ m.rooms[r].sessions # {} \/ m.room = NoRoom
              /\ memory' = m
    /\ UNCHANGED <<bucket, versions, alarm, requests, edits, lives, world>>

-----------------------------------------------------------------------------
(***************************************************************************)
(* Saving, restoring, deleting, eviction.                                  *)
(***************************************************************************)
\* triggerPersistSchedule, at once or when its throttling ends.
SchedulePersist ==
    /\ memory.throttled
    /\ memory' = [memory EXCEPT !.throttled = FALSE]
    /\ alarm' = TRUE
    /\ UNCHANGED <<bucket, versions, requests, edits, lives, world>>

\* The alarm wakes the object up if it has to.  Nobody awaits the save.
Alarm ==
    /\ alarm /\ Len(memory.queue) < MaxTasks
    /\ alarm' = FALSE
    /\ memory' = Push(memory, "persist", NoRoom)
    /\ UNCHANGED <<bucket, versions, requests, edits, lives, world>>

\* The versions are followed only where one may be restored.
WithVersion(snapshot) ==
    IF world = "restored" THEN versions \cup {snapshot} ELSE versions

\* Both puts are done.
Persisted ==
    /\ memory.running.type = "persist"
    /\ bucket' = memory.running.snapshot
    /\ versions' = WithVersion(memory.running.snapshot)
    /\ memory' = RunTasks([memory EXCEPT
                    !.running = Idle,
                    !.lastPersistedClock = memory.running.documentClock],
                  memory.running.waiter)
    /\ UNCHANGED <<alarm, requests, edits, lives, world>>

\* One of the puts fails, the other one or none is done.
PersistFails ==
    /\ memory.running.type = "persist" /\ world = "faulty"
    /\ \/ UNCHANGED <<bucket, versions>>
       \/ bucket' = memory.running.snapshot /\ UNCHANGED versions
       \/ versions' = WithVersion(memory.running.snapshot) /\ UNCHANGED bucket
    /\ memory' = RunTasks([memory EXCEPT !.running = Idle],
                          memory.running.waiter)
    /\ UNCHANGED <<alarm, requests, edits, lives, world>>

\* onRestore, up to the put, or to an answer that there is no such version.
RestoreStarts ==
    /\ world = "restored" /\ memory.restore = "idle" /\ ~memory.deleted
    /\ \E snapshot \in versions :
         memory' = [memory EXCEPT !.isRestoring = TRUE, !.restore = "put",
                                  !.restored = snapshot]
    /\ UNCHANGED <<bucket, versions, alarm, requests, edits, lives, world>>

RestoreFails ==
    /\ memory.restore = "put"
    /\ memory' = [memory EXCEPT !.isRestoring = FALSE, !.restore = "done",
                                !.restored = NoSnapshot]
    /\ UNCHANGED <<bucket, versions, alarm, requests, edits, lives, world>>

RestorePuts ==
    /\ memory.restore = "put" /\ CanGetRoom(memory)
    /\ bucket' = memory.restored
    /\ LET m == GetRoom(memory)
       IN  memory' = [m EXCEPT !.restore = "load", !.restoreRoom = m.room]
    /\ UNCHANGED <<versions, alarm, requests, edits, lives, world>>

\* The room is there: load the version into it.  A room that did not load is an
\* error, too.
RestoreLoads ==
    /\ memory.restore = "load"
    /\ LET r == memory.restoreRoom
           ended == [memory EXCEPT !.isRestoring = FALSE, !.restore = "done",
                                   !.restored = NoSnapshot,
                                   !.restoreRoom = NoRoom]
       IN  /\ memory.rooms[r].state # "loading"
           /\ memory.rooms[r].clock < MaxClock
           /\ memory' = IF memory.rooms[r].state = "failed" THEN ended
                        ELSE LoadSnapshot(ended, r, memory.restored)
    /\ UNCHANGED <<bucket, versions, alarm, requests, edits, lives, world>>

\* appFileRecordDidDelete.
FileDeleted ==
    /\ ~memory.deleted
    /\ memory' = Push([memory EXCEPT !.deleted = TRUE], "delete", NoRoom)
    /\ UNCHANGED <<bucket, versions, alarm, requests, edits, lives, world>>

\* The last await of the delete task.
Deleted ==
    /\ memory.running.type = "delete"
    /\ bucket' = NoFile /\ versions' = {} /\ alarm' = FALSE
    /\ memory' = RunTasks([memory EXCEPT !.running = Idle], NoRoom)
    /\ UNCHANGED <<requests, edits, lives, world>>

\* Everything in memory is lost; a put that was under way is done or not.  What
\* is stored of a deleted file is deleted last.
Evicted ==
    LET asleep == [Awake EXCEPT !.deleted = memory.deleted /\ bucket # NoFile]
    IN  /\ world = "evicted" /\ memory # asleep /\ lives < MaxLives
        /\ lives' = lives + 1
        /\ memory' = asleep
        /\ requests' = [s \in SessionIds |-> NoRequest]
        /\ \/ UNCHANGED bucket
           \/ memory.running.type = "persist" /\ bucket' = memory.running.snapshot
        /\ UNCHANGED <<versions, alarm, edits, world>>

ObjectNext ==
    \/ \E s \in SessionIds : Request(s) \/ AskForRoom(s)
    \/ \E r \in DOMAIN memory.rooms :
         \/ RoomLoads(r) \/ Edit(r) \/ Move(r)
         \/ \E s \in SessionIds : SessionRemoved(r, s)
    \/ SchedulePersist \/ Alarm \/ Persisted \/ PersistFails
    \/ RestoreStarts \/ RestoreFails \/ RestorePuts \/ RestoreLoads
    \/ FileDeleted \/ Deleted \/ Evicted

ObjectSpec == ObjectInit /\ [][ObjectNext]_objectVars

-----------------------------------------------------------------------------
ObjectTypeOK ==
    /\ bucket \in Snapshot /\ versions \subseteq Snapshot /\ memory \in Memory
    /\ \A s \in SessionIds :
         requests[s] \in {NoRequest, Checked} \cup RoomIds

IsServing(r) == memory.rooms[r].sessions # {} /\ ~memory.rooms[r].isClosed

\* All who have the file open are in one room, the one that is saved.
AllInOneRoom ==
    \A r \in DOMAIN memory.rooms : IsServing(r) => memory.room = r

\* So it is unless a session leaves while the last one's save is under way.
OneRoom == world # "hasty" /\ ~memory.deleted => AllInOneRoom

\* onSessionRemoved closes the room only after it made "sure nobody joined the
\* room while we were persisting": it never takes the room of those who did
\* out of the object's hands.
NoRoomForgotten == ~memory.deleted => AllInOneRoom

Undisturbed == world = "evicted" /\ ~memory.deleted

Saved(r) == memory.rooms[r].docs \subseteq bucket.docs

\* A room is closed when its changes are in the bucket, and not before.
SavedWhenClosed ==
    Undisturbed =>
        \A r \in DOMAIN memory.rooms : memory.rooms[r].isClosed => Saved(r)

\* No save overwrites what another one saved.
SavesAddUp ==
    [][Undisturbed' => bucket.docs \subseteq bucket'.docs]_objectVars

\* What a room has that is not saved will be: the alarm is set or about to be,
\* or a save is under way that contains it, or waits for its turn.
SaveIsPlannedFor(r) ==
    \/ Saved(r) \/ memory.throttled \/ alarm
    \/ \E i \in DOMAIN memory.queue : memory.queue[i].type = "persist"
    \/ memory.running.type = "loadToPersist"
    \/ /\ memory.running.type = "persist"
       /\ memory.rooms[r].docs \subseteq memory.running.snapshot.docs

\* Nothing that is throttled, queued or skipped because the clock did not move
\* leaves a change behind.
SaveIsPlanned ==
    Undisturbed => \A r \in DOMAIN memory.rooms : SaveIsPlannedFor(r)
=============================================================================
