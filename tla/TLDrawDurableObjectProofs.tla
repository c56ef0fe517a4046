----------------------- MODULE TLDrawDurableObjectProofs -----------------------
(***************************************************************************)
(* Proofs about TLDrawDurableObject: its types, that everybody is in the   *)
(* one room that is saved, that a room is closed when it is saved, and     *)
(* that no change is left behind or overwritten.                           *)
(***************************************************************************)
EXTENDS TLDrawDurableObject, TLAPS

Tasks == INSTANCE LeftFold WITH Op <- RunNext

-----------------------------------------------------------------------------
(***************************************************************************)
(* The invariant.  Handlers go on inside of handlers (the task that ends   *)
(* wakes up whoever awaited it, after the next task has begun), so that it *)
(* is stated of a memory m and the waiter d that is still to be woken up.  *)
(***************************************************************************)
\* What has been saved is the snapshot of a room, or there is no file.
IsFile(b) == b \in Snapshot /\ (b = NoFile \/ b.clock >= 0)

\* Types, and that numbers of rooms are those of rooms that were made.
MemoryTyped(m, d) ==
    LET made == 0..Len(m.rooms)
    IN  /\ m \in Memory /\ Len(m.rooms) <= MaxRooms
        /\ m.room \in made /\ m.restoreRoom \in made /\ d \in made
        /\ m.running.waiter \in made
        /\ \A i \in DOMAIN m.queue : m.queue[i].waiter \in made
        /\ m.running.type = "none" => m.running = Idle
        /\ m.running.type = "persist" => m.running.snapshot.clock >= 0
        /\ m.restore \in {"put", "load"} => m.restored.clock >= 0
        /\ m.restore = "load" => m.restoreRoom # NoRoom
        /\ \A r \in DOMAIN m.rooms :
             /\ m.rooms[r].state # "open" =>
                  m.rooms[r].sessions = {} /\ m.rooms[r].docs = {}
             /\ m.rooms[r].documentClock <= m.rooms[r].clock

\* At most one waits for a save, and it is the room that the object has.
OneWaits(m, d) ==
    /\ d # NoRoom => /\ d = m.room /\ m.running.waiter = NoRoom
                     /\ \A i \in DOMAIN m.queue : m.queue[i].waiter = NoRoom
    /\ m.running.waiter # NoRoom =>
         /\ m.running.waiter = m.room /\ m.running.type = "persist"
         /\ \A i \in DOMAIN m.queue : m.queue[i].waiter = NoRoom
    /\ \A i, j \in DOMAIN m.queue :
         m.queue[i].waiter # NoRoom =>
           /\ m.queue[i].waiter = m.room
           /\ m.queue[j].waiter # NoRoom => i = j
    /\ (\/ d # NoRoom \/ m.running.waiter # NoRoom
        \/ \E i \in DOMAIN m.queue : m.queue[i].waiter # NoRoom) =>
         m.rooms[m.room].state = "open"

\* Only the room that the object has loads, serves and is saved.
OneRoomOK(m, d) ==
    /\ \A r \in DOMAIN m.rooms :
         /\ m.rooms[r].sessions # {} /\ ~m.rooms[r].isClosed => m.room = r
         /\ m.rooms[r].state = "loading" => m.room = r
    /\ m.running.type \in {"none", "persist", "loadToPersist"}
    /\ m.running.type = "loadToPersist" =>
         m.room # NoRoom /\ m.rooms[m.room].state = "loading"
    /\ \A i \in DOMAIN m.queue : m.queue[i].type = "persist"
    /\ OneWaits(m, d)

\* What the save that is under way has of the room, and will make of the bucket.
SaveIsNew(m, b) ==
    m.running.type = "persist" =>
      LET room == m.rooms[m.room]
          saved == m.running.snapshot
          at == m.running.documentClock
      IN  /\ m.room # NoRoom /\ room.state = "open"
          /\ b.docs \subseteq saved.docs /\ saved.docs \subseteq room.docs
          /\ at <= saved.clock /\ at <= room.documentClock
          /\ at = room.documentClock => room.docs \subseteq saved.docs
          /\ m.running.waiter # NoRoom /\ room.sessions = {} =>
               at = room.documentClock

\* The bucket b has all of other rooms, and less than the one the object has.
SavedOK(m, d, b) ==
    /\ ~m.isRestoring /\ m.lastPersistedClock <= b.clock
    /\ \A r \in DOMAIN m.rooms \ {m.room} : m.rooms[r].docs \subseteq b.docs
    /\ m.room # NoRoom =>
         LET room == m.rooms[m.room]
         IN  /\ ~room.isClosed
             /\ room.state = "open" =>
                  /\ b.docs \subseteq room.docs
                  /\ m.lastPersistedClock <= room.documentClock
                  /\ m.lastPersistedClock = room.documentClock =>
                       room.docs \subseteq b.docs
             /\ d # NoRoom /\ room.sessions = {} =>
                  /\ m.lastPersistedClock = room.documentClock
                  /\ m.running.type # "persist"
    /\ SaveIsNew(m, b)

\* The room that the object has is saved, or will be.
Planned(m, b, al) ==
    m.room # NoRoom =>
      \/ m.rooms[m.room].docs \subseteq b.docs \/ m.throttled \/ al
      \/ \E i \in DOMAIN m.queue : m.queue[i].type = "persist"
      \/ m.running.type = "loadToPersist"
      \/ /\ m.running.type = "persist"
         /\ m.rooms[m.room].docs \subseteq m.running.snapshot.docs

MemoryOK(m, d, b, al, w) ==
    /\ MemoryTyped(m, d)
    /\ w # "restored" => m.restore = "idle" /\ ~m.isRestoring
    /\ w # "hasty" /\ ~m.deleted => OneRoomOK(m, d)
    /\ w = "evicted" /\ ~m.deleted => SavedOK(m, d, b) /\ Planned(m, b, al)

ObjectInv ==
    /\ IsFile(bucket)
    /\ versions \subseteq Snapshot /\ \A v \in versions : v.clock >= 0
    /\ requests \in [SessionIds -> {NoRequest, Checked} \cup RoomIds]
    /\ edits \in 0..MaxEdits /\ world \in World
    /\ MemoryOK(memory, NoRoom, bucket, alarm, world)

-----------------------------------------------------------------------------
(***************************************************************************)
(* Memories and rooms, field by field.                                     *)
(***************************************************************************)
\* A memory with another queue.
WithQueue(m, q) == [m EXCEPT !.queue = q]

\* What is in a typed memory.
LEMMA MemoryFields ==
    ASSUME NEW m \in Memory
    PROVE  /\ m.room \in 0..MaxRooms /\ m.rooms \in Seq(Room)
           /\ m.lastPersistedClock \in -1..MaxClock /\ m.queue \in Seq(Task)
           /\ m.running \in Running /\ m.throttled \in BOOLEAN
           /\ m.deleted \in BOOLEAN /\ m.isRestoring \in BOOLEAN
           /\ m.restore \in {"idle", "put", "load", "done"}
           /\ m.restored \in Snapshot /\ m.restoreRoom \in 0..MaxRooms
BY Zenon DEF Memory

\* What is in a room.
LEMMA RoomFields ==
    ASSUME NEW room \in Room
    PROVE  /\ room.state \in {"loading", "open", "failed"}
           /\ room.isClosed \in BOOLEAN /\ room.docs \in SUBSET Edits
           /\ room.clock \in 0..MaxClock /\ room.documentClock \in 0..MaxClock
           /\ room.sessions \in SUBSET SessionIds /\ room.listening \in BOOLEAN
BY Zenon DEF Room

\* What is in a task, in a snapshot and in the task that runs.
LEMMA TaskFields ==
    /\ \A t \in Task : t.type \in {"persist", "delete"} /\ t.waiter \in 0..MaxRooms
    /\ \A v \in Snapshot : v.docs \in SUBSET Edits /\ v.clock \in -2..MaxClock
    /\ \A x \in Running :
         /\ x.type \in {"none", "loadToPersist", "loadToDelete", "persist", "delete"}
         /\ x.waiter \in 0..MaxRooms /\ x.snapshot \in Snapshot
         /\ x.documentClock \in 0..MaxClock
<1>1. \A t \in Task : t.type \in {"persist", "delete"} /\ t.waiter \in 0..MaxRooms
  BY Zenon DEF Task
<1>2. \A v \in Snapshot : v.docs \in SUBSET Edits /\ v.clock \in -2..MaxClock
  BY Zenon DEF Snapshot
<1>3. \A x \in Running :
         /\ x.type \in {"none", "loadToPersist", "loadToDelete", "persist", "delete"}
         /\ x.waiter \in 0..MaxRooms /\ x.snapshot \in Snapshot
         /\ x.documentClock \in 0..MaxClock
  BY Zenon DEF Running
<1> QED BY <1>1, <1>2, <1>3

\* Another queue changes nothing else.
LEMMA QueueIs ==
    ASSUME NEW m \in Memory, NEW q \in Seq(Task)
    PROVE  /\ WithQueue(m, q) \in Memory /\ WithQueue(m, q).queue = q
           /\ WithQueue(m, q).room = m.room /\ WithQueue(m, q).rooms = m.rooms
           /\ WithQueue(m, q).lastPersistedClock = m.lastPersistedClock
           /\ WithQueue(m, q).running = m.running
           /\ WithQueue(m, q).throttled = m.throttled
           /\ WithQueue(m, q).deleted = m.deleted
           /\ WithQueue(m, q).isRestoring = m.isRestoring
           /\ WithQueue(m, q).restore = m.restore
           /\ WithQueue(m, q).restored = m.restored
           /\ WithQueue(m, q).restoreRoom = m.restoreRoom
BY Zenon DEF WithQueue, Memory

\* Only the last of two queues counts, and that of a memory is its own.
LEMMA QueueTwice ==
    ASSUME NEW m \in Memory
    PROVE  /\ WithQueue(m, m.queue) = m
           /\ \A p, q \in Seq(Task) : WithQueue(WithQueue(m, p), q) = WithQueue(m, q)
BY DEF WithQueue, Memory

\* A memory with another task that runs.
WithRunning(m, x) == [m EXCEPT !.running = x]

\* Another task that runs changes nothing else.
LEMMA RunningIs ==
    ASSUME NEW m \in Memory, NEW x \in Running
    PROVE  /\ WithRunning(m, x) \in Memory /\ WithRunning(m, x).running = x
           /\ WithRunning(m, x).room = m.room
           /\ WithRunning(m, x).rooms = m.rooms
           /\ WithRunning(m, x).lastPersistedClock = m.lastPersistedClock
           /\ WithRunning(m, x).queue = m.queue
           /\ WithRunning(m, x).throttled = m.throttled
           /\ WithRunning(m, x).deleted = m.deleted
           /\ WithRunning(m, x).isRestoring = m.isRestoring
           /\ WithRunning(m, x).restore = m.restore
           /\ WithRunning(m, x).restored = m.restored
           /\ WithRunning(m, x).restoreRoom = m.restoreRoom
BY Zenon DEF WithRunning, Memory

\* It goes with any queue.
LEMMA RunningWithQueue ==
    ASSUME NEW m \in Memory, NEW x \in Running, NEW q \in Seq(Task)
    PROVE  WithRunning(WithQueue(m, q), x) = WithQueue(WithRunning(m, x), q)
BY DEF WithQueue, WithRunning, Memory

\* What a task waits with, and what saves a room.
Deleting == [Idle EXCEPT !.type = "delete"]

WaitTo(type, waiter) == [Idle EXCEPT !.type = type, !.waiter = waiter]

SaveOf(room, waiter) ==
    [type |-> "persist", waiter |-> waiter,
     snapshot |-> [docs |-> room.docs, clock |-> room.clock],
     documentClock |-> room.documentClock]

\* Both can run.
LEMMA CanRun ==
    /\ Idle \in Running /\ Idle.type = "none" /\ Idle.waiter = NoRoom
    /\ Deleting \in Running /\ Deleting.type = "delete"
    /\ Deleting.waiter = NoRoom
    /\ \A type \in {"loadToPersist", "loadToDelete", "delete"},
          waiter \in 0..MaxRooms :
         LET x == WaitTo(type, waiter)
         IN  x \in Running /\ x.type = type /\ x.waiter = waiter
    /\ \A room \in Room, waiter \in 0..MaxRooms :
         LET x == SaveOf(room, waiter)
         IN  /\ x \in Running /\ x.type = "persist" /\ x.waiter = waiter
             /\ x.documentClock = room.documentClock
             /\ x.snapshot.docs = room.docs /\ x.snapshot.clock = room.clock
<1>1. 0 \in 0..MaxRooms /\ 0 \in 0..MaxClock
  BY DurableObjectAssumption
<1>2. NoSnapshot \in Snapshot
  <2>1. -2 \in -2..MaxClock
    BY DurableObjectAssumption
  <2> QED BY <2>1 DEF NoSnapshot, Snapshot
<1>3. Idle \in Running /\ Idle.type = "none" /\ Idle.waiter = NoRoom
  BY <1>1, <1>2 DEF Idle, Running, NoRoom
<1>6. /\ Deleting \in Running /\ Deleting.type = "delete"
      /\ Deleting.waiter = NoRoom
  BY <1>3 DEF Deleting, Running
<1>4. ASSUME NEW type \in {"loadToPersist", "loadToDelete", "delete"},
             NEW waiter \in 0..MaxRooms
      PROVE  LET x == WaitTo(type, waiter)
             IN  x \in Running /\ x.type = type /\ x.waiter = waiter
  BY <1>3 DEF WaitTo, Running
<1>5. ASSUME NEW room \in Room, NEW waiter \in 0..MaxRooms
      PROVE  LET x == SaveOf(room, waiter)
             IN  /\ x \in Running /\ x.type = "persist" /\ x.waiter = waiter
                 /\ x.documentClock = room.documentClock
                 /\ x.snapshot.docs = room.docs /\ x.snapshot.clock = room.clock
  <2>1. [docs |-> room.docs, clock |-> room.clock] \in Snapshot
    <3>1. room.docs \in SUBSET Edits /\ room.clock \in -2..MaxClock
      BY RoomFields
    <3> QED BY <3>1 DEF Snapshot
  <2>2. room.documentClock \in 0..MaxClock
    BY RoomFields
  <2> QED BY <2>1, <2>2 DEF SaveOf, Running
<1> QED BY <1>3, <1>4, <1>5, <1>6

\* There is no room to save, or it is saved, or must not be.
NothingToSave(m) ==
    \/ m.room = NoRoom
    \/ m.rooms[m.room].state = "failed"
    \/ /\ m.rooms[m.room].state = "open"
       /\ m.lastPersistedClock = m.rooms[m.room].documentClock \/ m.isRestoring

IsRoom(m, state) == m.room # NoRoom /\ m.rooms[m.room].state = state

\* What a persist does when it starts.
LEMMA PersistStarts ==
    ASSUME NEW m \in Memory, m.room \in 0..Len(m.rooms), NEW task \in Task,
           task.type = "persist"
    PROVE  \/ NothingToSave(m) /\ StartTask(m, task) = m
           \/ /\ IsRoom(m, "loading")
              /\ StartTask(m, task) =
                   WithRunning(m, WaitTo("loadToPersist", task.waiter))
           \/ /\ IsRoom(m, "open") /\ ~NothingToSave(m)
              /\ StartTask(m, task) =
                   WithRunning(m, SaveOf(m.rooms[m.room], task.waiter))
<1>1. CASE m.room = NoRoom
  BY <1>1 DEF StartTask, NothingToSave
<1>2. CASE m.room # NoRoom
  <2>1. m.rooms[m.room] \in Room
    BY <1>2, MemoryFields DEF NoRoom
  <2> DEFINE room == m.rooms[m.room]
  <2>2. room.state \in {"loading", "open", "failed"}
    BY <2>1, RoomFields
  <2>3. CASE room.state = "failed"
    BY <1>2, <2>3 DEF StartTask, NothingToSave
  <2>4. CASE room.state = "loading"
    BY <1>2, <2>4 DEF StartTask, IsRoom, WaitTo, WithRunning
  <2>5. CASE room.state = "open"
    <3>1. StartTask(m, task) = PersistRoom(m, task.waiter)
      BY <1>2, <2>5 DEF StartTask
    <3> QED BY <1>2, <2>5, <3>1
            DEF PersistRoom, NothingToSave, IsRoom, SaveOf, WithRunning
  <2> QED BY <2>2, <2>3, <2>4, <2>5
<1> QED BY <1>1, <1>2

\* What a delete does when it starts.
LEMMA DeleteStarts ==
    ASSUME NEW m \in Memory, m.room \in 0..Len(m.rooms), NEW task \in Task,
           task.type = "delete"
    PROVE  \/ StartTask(m, task) = m
           \/ \E type \in {"loadToDelete", "delete"} :
                StartTask(m, task) = WithRunning(m, WaitTo(type, task.waiter))
           \/ IsRoom(m, "open") /\ StartTask(m, task) = CloseRoom(m)
<1>1. CASE m.room = NoRoom
  BY <1>1 DEF StartTask, WithRunning, WaitTo
<1>2. CASE m.room # NoRoom
  <2>1. m.rooms[m.room] \in Room
    BY <1>2, MemoryFields DEF NoRoom
  <2> DEFINE room == m.rooms[m.room]
  <2>2. room.state \in {"loading", "open", "failed"}
    BY <2>1, RoomFields
  <2>3. CASE room.state = "failed"
    BY <1>2, <2>3 DEF StartTask
  <2>4. CASE room.state = "loading"
    BY <1>2, <2>4 DEF StartTask, WaitTo, WithRunning
  <2>5. CASE room.state = "open"
    BY <1>2, <2>5 DEF StartTask, IsRoom
  <2> QED BY <2>2, <2>3, <2>4, <2>5
<1> QED BY <1>1, <1>2

\* A session's room is closed and no room is left.
Closing(m, r) == [m EXCEPT !.room = NoRoom, !.rooms[r].isClosed = TRUE]

\* That changes nothing else.
LEMMA ClosingIs ==
    ASSUME NEW m \in Memory, NEW r \in 1..Len(m.rooms)
    PROVE  /\ Closing(m, r) \in Memory /\ Closing(m, r).room = NoRoom
           /\ Closing(m, r).rooms = [m.rooms EXCEPT ![r] = [@ EXCEPT !.isClosed = TRUE]]
           /\ Closing(m, r).rooms \in Seq(Room)
           /\ Len(Closing(m, r).rooms) = Len(m.rooms)
           /\ Closing(m, r).lastPersistedClock = m.lastPersistedClock
           /\ Closing(m, r).running = m.running
           /\ Closing(m, r).queue = m.queue
           /\ Closing(m, r).throttled = m.throttled
           /\ Closing(m, r).deleted = m.deleted
           /\ Closing(m, r).isRestoring = m.isRestoring
           /\ Closing(m, r).restore = m.restore
           /\ Closing(m, r).restored = m.restored
           /\ Closing(m, r).restoreRoom = m.restoreRoom
<1> DEFINE room == [m.rooms[r] EXCEPT !.isClosed = TRUE]
           rooms == [m.rooms EXCEPT ![r] = room]
<1>1. m.rooms \in Seq(Room) /\ m.rooms[r] \in Room
  BY MemoryFields
<1>2. room \in Room
  BY <1>1, Zenon DEF Room
<1>3. rooms \in Seq(Room) /\ Len(rooms) = Len(m.rooms)
  BY <1>1, <1>2
<1>4. NoRoom \in 0..MaxRooms
  BY DurableObjectAssumption DEF NoRoom
<1>5. Closing(m, r) = [m EXCEPT !.room = NoRoom, !.rooms = rooms]
  BY DEF Closing, Memory
<1> HIDE DEF rooms
<1>6. LET n == [m EXCEPT !.room = NoRoom, !.rooms = rooms]
      IN  /\ n \in Memory /\ n.room = NoRoom /\ n.rooms = rooms
          /\ n.lastPersistedClock = m.lastPersistedClock
          /\ n.running = m.running /\ n.queue = m.queue
          /\ n.throttled = m.throttled
          /\ n.deleted = m.deleted /\ n.isRestoring = m.isRestoring
          /\ n.restore = m.restore /\ n.restored = m.restored
          /\ n.restoreRoom = m.restoreRoom
  BY <1>3, <1>4, Zenon DEF Memory
<1> QED BY <1>3, <1>5, <1>6 DEF rooms

\* onSessionRemoved goes on: nothing happens or its room is closed.
LEMMA ContinueIs ==
    ASSUME NEW m, NEW r
    PROVE  Continue(m, r) = IF r = NoRoom \/ m.rooms[r].sessions # {} THEN m
                            ELSE Closing(m, r)
BY DEF Continue, Closing

\* Both go with any queue.
LEMMA ContinueWithQueue ==
    ASSUME NEW m \in Memory, NEW r \in 0..Len(m.rooms), NEW q \in Seq(Task)
    PROVE  Continue(WithQueue(m, q), r) = WithQueue(Continue(m, r), q)
<1>1. WithQueue(m, q).rooms = m.rooms
  BY QueueIs
<1>2. CASE r = NoRoom \/ m.rooms[r].sessions # {}
  BY <1>1, <1>2, ContinueIs
<1>3. CASE ~(r = NoRoom \/ m.rooms[r].sessions # {})
  <2>1. /\ Continue(WithQueue(m, q), r) = Closing(WithQueue(m, q), r)
        /\ Continue(m, r) = Closing(m, r)
    BY <1>1, <1>3, ContinueIs
  <2>2. Closing(WithQueue(m, q), r) = WithQueue(Closing(m, r), q)
    BY DEF Closing, WithQueue, Memory
  <2> QED BY <2>1, <2>2
<1> QED BY <1>2, <1>3

\* The last session that the deletion closes causes a save.
SaveAfterDelete(m) ==
    LET room == m.rooms[m.room]
    IN  IF room.listening /\ room.sessions # {}
          THEN <<[type |-> "persist", waiter |-> m.room]>> ELSE <<>>

Emptied(room) == [room EXCEPT !.sessions = {}, !.isClosed = TRUE]

\* What the delete task makes of the memory, in four fields.
LEMMA CloseRoomForm ==
    ASSUME NEW m \in Memory, m.room \in 1..Len(m.rooms)
    PROVE  /\ SaveAfterDelete(m) \in Seq(Task)
           /\ CloseRoom(m) =
                [m EXCEPT !.rooms = [m.rooms EXCEPT ![m.room] = Emptied(@)],
                          !.room = NoRoom, !.running = Deleting,
                          !.queue = m.queue \o SaveAfterDelete(m)]
<1> DEFINE r == m.room
           room == m.rooms[r]
           save == [type |-> "persist", waiter |-> r]
           rooms == [m.rooms EXCEPT ![r] = Emptied(@)]
           queue == m.queue \o SaveAfterDelete(m)
<1>1. m.rooms \in Seq(Room) /\ room \in Room /\ m.queue \in Seq(Task)
      /\ r \in 0..MaxRooms
  BY MemoryFields
<1>2. save \in Task
  BY <1>1 DEF Task
<1>3. SaveAfterDelete(m) \in Seq(Task)
  BY <1>2 DEF SaveAfterDelete
<1>4. queue = IF room.listening /\ room.sessions # {}
                THEN Append(m.queue, save) ELSE m.queue
  <2> DEFINE q == m.queue
  <2>1. q \in Seq(Task)
    BY <1>1
  <2> HIDE DEF q, save
  <2>2. q \o <<save>> = Append(q, save) /\ q \o <<>> = q
    BY <1>2, <2>1
  <2> QED BY <2>2 DEF SaveAfterDelete, q, save
<1>5. rooms = [m.rooms EXCEPT ![r].sessions = {}, ![r].isClosed = TRUE]
  BY <1>1 DEF Emptied
<1> DEFINE first == [m EXCEPT !.rooms[r].sessions = {}]
           both == [first EXCEPT !.rooms[r].isClosed = TRUE]
<1>6. both = [m EXCEPT !.rooms = rooms]
  <2>1. first = [m EXCEPT !.rooms = [m.rooms EXCEPT ![r].sessions = {}]]
    BY DEF Memory
  <2> DEFINE emptied == [m.rooms EXCEPT ![r].sessions = {}]
  <2>2. rooms = [emptied EXCEPT ![r].isClosed = TRUE]
    BY <1>5
  <2> HIDE DEF first, emptied, rooms
  <2>3. first.rooms = emptied
    BY <2>1 DEF Memory, emptied
  <2>4. both = [first EXCEPT !.rooms = [first.rooms EXCEPT ![r].isClosed = TRUE]]
    BY <2>1 DEF Memory
  <2>5. both = [first EXCEPT !.rooms = rooms]
    BY <2>2, <2>3, <2>4
  <2> QED BY <2>1, <2>5 DEF Memory
<1> HIDE DEF rooms, queue
<1>7. CloseRoom(m) = [both EXCEPT !.room = NoRoom, !.running = Deleting,
                                  !.queue = queue]
  <2>1. both.queue = m.queue
    BY <1>6 DEF Memory
  <2>2. both.room = m.room
    BY <1>6 DEF Memory
  <2> QED BY <1>4, <2>1, <2>2 DEF CloseRoom, Deleting
<1> HIDE DEF both
<1>8. CloseRoom(m) = [m EXCEPT !.rooms = rooms, !.room = NoRoom,
                               !.running = Deleting, !.queue = queue]
  BY <1>6, <1>7 DEF Memory
<1> QED BY <1>3, <1>8 DEF rooms, queue

\* What the delete task makes of the memory.
LEMMA CloseRoomIs ==
    ASSUME NEW m \in Memory, m.room \in 1..Len(m.rooms)
    PROVE  /\ CloseRoom(m) \in Memory /\ CloseRoom(m).room = NoRoom
           /\ CloseRoom(m).rooms = [m.rooms EXCEPT ![m.room] = Emptied(@)]
           /\ CloseRoom(m).rooms \in Seq(Room)
           /\ Len(CloseRoom(m).rooms) = Len(m.rooms)
           /\ CloseRoom(m).queue = m.queue \o SaveAfterDelete(m)
           /\ CloseRoom(m).running = Deleting
           /\ CloseRoom(m).lastPersistedClock = m.lastPersistedClock
           /\ CloseRoom(m).throttled = m.throttled
           /\ CloseRoom(m).deleted = m.deleted
           /\ CloseRoom(m).isRestoring = m.isRestoring
           /\ CloseRoom(m).restore = m.restore
           /\ CloseRoom(m).restored = m.restored
           /\ CloseRoom(m).restoreRoom = m.restoreRoom
<1> DEFINE rooms == [m.rooms EXCEPT ![m.room] = Emptied(@)]
           queue == m.queue \o SaveAfterDelete(m)
<1>1. m.rooms \in Seq(Room) /\ m.rooms[m.room] \in Room /\ m.queue \in Seq(Task)
  BY MemoryFields
<1>2. Emptied(m.rooms[m.room]) \in Room
  <2>1. {} \in SUBSET SessionIds
    OBVIOUS
  <2> QED BY <1>1, <2>1, Zenon DEF Room, Emptied
<1>3. rooms \in Seq(Room) /\ Len(rooms) = Len(m.rooms)
  BY <1>1, <1>2
<1>4. NoRoom \in 0..MaxRooms
  BY DurableObjectAssumption DEF NoRoom
<1>5. queue \in Seq(Task)
  <2>1. SaveAfterDelete(m) \in Seq(Task)
    BY CloseRoomForm
  <2> QED BY <1>1, <2>1
<1>6. Deleting \in Running
  BY CanRun
<1>7. CloseRoom(m) = [m EXCEPT !.rooms = rooms, !.room = NoRoom,
                               !.running = Deleting, !.queue = queue]
  BY CloseRoomForm
<1> HIDE DEF rooms, queue
<1>8. LET n == [m EXCEPT !.rooms = rooms, !.room = NoRoom,
                         !.running = Deleting, !.queue = queue]
      IN  /\ n \in Memory /\ n.room = NoRoom /\ n.rooms = rooms
          /\ n.queue = queue /\ n.running = Deleting
          /\ n.lastPersistedClock = m.lastPersistedClock
          /\ n.throttled = m.throttled
          /\ n.deleted = m.deleted /\ n.isRestoring = m.isRestoring
          /\ n.restore = m.restore /\ n.restored = m.restored
          /\ n.restoreRoom = m.restoreRoom
  BY <1>3, <1>4, <1>5, <1>6, Zenon DEF Memory
<1> QED BY <1>3, <1>7, <1>8 DEF rooms, queue

\* A task that starts leaves the tasks after it in the queue.
LEMMA StartWithQueue ==
    ASSUME NEW m \in Memory, m.room \in 0..Len(m.rooms), NEW task \in Task
    PROVE  \E more \in Seq(Task) : \A q \in Seq(Task) :
             StartTask(WithQueue(m, q), task)
               = WithQueue(StartTask(m, task), q \o more)
<1> DEFINE Goes(more) == \A q \in Seq(Task) :
             StartTask(WithQueue(m, q), task)
               = WithQueue(StartTask(m, task), q \o more)
<1>1. ASSUME NEW q \in Seq(Task)
      PROVE  LET n == WithQueue(m, q)
             IN  /\ n \in Memory /\ n.room = m.room /\ n.rooms = m.rooms
                 /\ n.lastPersistedClock = m.lastPersistedClock
                 /\ n.isRestoring = m.isRestoring /\ n.queue = q
                 /\ q \o <<>> = q
  BY QueueIs
<1>2. /\ <<>> \in Seq(Task) /\ task.waiter \in 0..MaxRooms
      /\ task.type \in {"persist", "delete"} /\ m.room \in 0..MaxRooms
  BY TaskFields, MemoryFields
<1>3. m.room # NoRoom => m.rooms[m.room] \in Room
  BY MemoryFields DEF NoRoom
<1>4. m.room # NoRoom => m.rooms[m.room].state \in {"loading", "open", "failed"}
  BY <1>3, RoomFields
<1>5. CASE task.type = "delete" /\ IsRoom(m, "open")
  <2>1. ASSUME NEW q \in Seq(Task)
        PROVE  CloseRoom(WithQueue(m, q))
                 = WithQueue(CloseRoom(m), q \o SaveAfterDelete(m))
    <3> DEFINE rooms == [m.rooms EXCEPT ![m.room] = Emptied(@)]
               more == SaveAfterDelete(m)
               n == WithQueue(m, q)
               old == m.queue \o more
               new == q \o more
    <3>1. m.room \in 1..Len(m.rooms)
      BY <1>5 DEF IsRoom, NoRoom
    <3>2. CloseRoom(m) = [m EXCEPT !.rooms = rooms, !.room = NoRoom,
                                   !.running = Deleting, !.queue = old]
      BY <3>1, CloseRoomForm
    <3>3. CloseRoom(n) = [n EXCEPT !.rooms = rooms, !.room = NoRoom,
                                   !.running = Deleting, !.queue = new]
      <4>1. SaveAfterDelete(n) = more
        BY <1>1 DEF SaveAfterDelete
      <4>2. n \in Memory /\ n.room = m.room /\ n.rooms = m.rooms /\ n.queue = q
        BY <1>1
      <4> HIDE DEF n
      <4> QED BY <3>1, <4>1, <4>2, CloseRoomForm
    <3> HIDE DEF rooms, old, new
    <3>4. CloseRoom(n) = WithQueue(CloseRoom(m), new)
      BY <3>2, <3>3 DEF WithQueue, Memory
    <3> QED BY <3>4 DEF new
  <2>2. StartTask(m, task) = CloseRoom(m)
    BY <1>5 DEF StartTask, IsRoom
  <2>3. ASSUME NEW q \in Seq(Task)
        PROVE  StartTask(WithQueue(m, q), task) = CloseRoom(WithQueue(m, q))
    BY <1>1, <1>5 DEF StartTask, IsRoom
  <2>4. SaveAfterDelete(m) \in Seq(Task)
    <3>1. m.room \in 1..Len(m.rooms)
      BY <1>5 DEF IsRoom, NoRoom
    <3> QED BY <3>1, CloseRoomForm
  <2>5. Goes(SaveAfterDelete(m))
    BY <2>1, <2>2, <2>3
  <2> QED BY <2>4, <2>5
<1>6. ASSUME NEW x \in Running, StartTask(m, task) = WithRunning(m, x),
             \A q \in Seq(Task) :
               StartTask(WithQueue(m, q), task) = WithRunning(WithQueue(m, q), x)
      PROVE  Goes(<<>>)
  BY <1>1, <1>6, RunningWithQueue
<1>7. ASSUME StartTask(m, task) = m,
             \A q \in Seq(Task) : StartTask(WithQueue(m, q), task) = WithQueue(m, q)
      PROVE  Goes(<<>>)
  BY <1>1, <1>7
<1>8. CASE task.type = "delete" /\ ~IsRoom(m, "open")
  <2>1. CASE m.room = NoRoom
    <3>1. WaitTo("delete", task.waiter) \in Running
      BY <1>2, CanRun
    <3>2. StartTask(m, task) = WithRunning(m, WaitTo("delete", task.waiter))
      BY <1>8, <2>1 DEF StartTask, WithRunning, WaitTo
    <3>3. ASSUME NEW q \in Seq(Task)
          PROVE  StartTask(WithQueue(m, q), task)
                   = WithRunning(WithQueue(m, q), WaitTo("delete", task.waiter))
      BY <1>1, <1>8, <2>1 DEF StartTask, WithRunning, WaitTo
    <3>4. Goes(<<>>)
      BY <1>6, <3>1, <3>2, <3>3
    <3> QED BY <1>2, <3>4
  <2>2. CASE IsRoom(m, "loading")
    <3>1. WaitTo("loadToDelete", task.waiter) \in Running
      BY <1>2, CanRun
    <3>2. StartTask(m, task) = WithRunning(m, WaitTo("loadToDelete", task.waiter))
      BY <1>8, <2>2 DEF StartTask, WithRunning, WaitTo, IsRoom
    <3>3. ASSUME NEW q \in Seq(Task)
          PROVE  StartTask(WithQueue(m, q), task)
                   = WithRunning(WithQueue(m, q),
                                 WaitTo("loadToDelete", task.waiter))
      BY <1>1, <1>8, <2>2 DEF StartTask, WithRunning, WaitTo, IsRoom
    <3>4. Goes(<<>>)
      BY <1>6, <3>1, <3>2, <3>3
    <3> QED BY <1>2, <3>4
  <2>3. CASE IsRoom(m, "failed")
    <3>1. StartTask(m, task) = m
      BY <1>8, <2>3 DEF StartTask, IsRoom
    <3>2. ASSUME NEW q \in Seq(Task)
          PROVE  StartTask(WithQueue(m, q), task) = WithQueue(m, q)
      BY <1>1, <1>8, <2>3 DEF StartTask, IsRoom
    <3>3. Goes(<<>>)
      BY <1>7, <3>1, <3>2
    <3> QED BY <1>2, <3>3
  <2> QED BY <1>4, <1>8, <2>1, <2>2, <2>3 DEF IsRoom
<1>9. CASE task.type = "persist"
  <2>1. CASE NothingToSave(m)
    <3>1. StartTask(m, task) = m
      BY <1>9, <2>1, PersistStarts DEF IsRoom, NothingToSave
    <3>2. ASSUME NEW q \in Seq(Task)
          PROVE  StartTask(WithQueue(m, q), task) = WithQueue(m, q)
      <4>1. NothingToSave(WithQueue(m, q))
        BY <1>1, <2>1 DEF NothingToSave
      <4> QED BY <1>1, <1>9, <4>1, PersistStarts DEF IsRoom, NothingToSave
    <3>3. Goes(<<>>)
      BY <1>7, <3>1, <3>2
    <3> QED BY <1>2, <3>3
  <2>2. CASE IsRoom(m, "loading")
    <3> DEFINE x == WaitTo("loadToPersist", task.waiter)
    <3>1. x \in Running
      BY <1>2, CanRun
    <3>2. StartTask(m, task) = WithRunning(m, x)
      BY <1>9, <2>2, PersistStarts DEF IsRoom, NothingToSave
    <3>3. ASSUME NEW q \in Seq(Task)
          PROVE  StartTask(WithQueue(m, q), task) = WithRunning(WithQueue(m, q), x)
      <4>1. IsRoom(WithQueue(m, q), "loading")
        BY <1>1, <2>2 DEF IsRoom
      <4> QED BY <1>1, <1>9, <4>1, PersistStarts DEF IsRoom, NothingToSave
    <3>4. Goes(<<>>)
      BY <1>6, <3>1, <3>2, <3>3
    <3> QED BY <1>2, <3>4
  <2>3. CASE IsRoom(m, "open") /\ ~NothingToSave(m)
    <3> DEFINE x == SaveOf(m.rooms[m.room], task.waiter)
    <3>1. x \in Running
      BY <1>2, <1>3, <2>3, CanRun DEF IsRoom
    <3>2. StartTask(m, task) = WithRunning(m, x)
      BY <1>9, <2>3, PersistStarts DEF IsRoom
    <3>3. ASSUME NEW q \in Seq(Task)
          PROVE  StartTask(WithQueue(m, q), task) = WithRunning(WithQueue(m, q), x)
      <4>1. IsRoom(WithQueue(m, q), "open") /\ ~NothingToSave(WithQueue(m, q))
        BY <1>1, <2>3 DEF IsRoom, NothingToSave
      <4> QED BY <1>1, <1>9, <4>1, PersistStarts DEF IsRoom
    <3>4. Goes(<<>>)
      BY <1>6, <3>1, <3>2, <3>3
    <3> QED BY <1>2, <3>4
  <2> QED BY <1>4, <2>1, <2>2, <2>3 DEF IsRoom, NothingToSave
<1> QED BY <1>2, <1>5, <1>8, <1>9

\* A task that starts makes a memory, with as many rooms.
LEMMA StartedInMemory ==
    ASSUME NEW m \in Memory, m.room \in 0..Len(m.rooms), NEW task \in Task
    PROVE  /\ StartTask(m, task) \in Memory
           /\ Len(StartTask(m, task).rooms) = Len(m.rooms)
<1>1. task.type \in {"persist", "delete"} /\ task.waiter \in 0..MaxRooms
  BY TaskFields
<1>2. CASE task.type = "persist"
  <2>1. WaitTo("loadToPersist", task.waiter) \in Running
    BY <1>1, CanRun
  <2>2. IsRoom(m, "open") => SaveOf(m.rooms[m.room], task.waiter) \in Running
    <3>1. IsRoom(m, "open") => m.rooms[m.room] \in Room
      BY MemoryFields DEF IsRoom, NoRoom
    <3> QED BY <1>1, <3>1, CanRun
  <2> QED BY <1>2, <2>1, <2>2, PersistStarts, RunningIs
<1>3. CASE task.type = "delete"
  <2>1. \A type \in {"loadToDelete", "delete"} :
          WaitTo(type, task.waiter) \in Running
    BY <1>1, CanRun
  <2>2. IsRoom(m, "open") => /\ CloseRoom(m) \in Memory
                             /\ Len(CloseRoom(m).rooms) = Len(m.rooms)
    <3>1. IsRoom(m, "open") => m.room \in 1..Len(m.rooms)
      BY DEF IsRoom, NoRoom
    <3> QED BY <3>1, CloseRoomIs
  <2> QED BY <1>3, <2>1, <2>2, DeleteStarts, RunningIs
<1> QED BY <1>1, <1>2, <1>3

-----------------------------------------------------------------------------
(***************************************************************************)
(* Running the tasks is taking the first one out of the queue again and    *)
(* again, in a memory whose queue has the tasks that were left, those that *)
(* are still to come and those that were pushed on the way.                *)
(***************************************************************************)
\* The head of the queue starts, and whoever waited for the last task goes on.
StartHead(m) == StartTask(WithQueue(m, Tail(m.queue)), Head(m.queue))

Taken(m, d) == Continue(StartHead(m), d)

TakenDone(m) ==
    IF StartHead(m).running = Idle THEN Head(m.queue).waiter ELSE NoRoom

\* Memories, each with its waiter, of which taking a task makes others.
ClosedUnderTaking(U) ==
    /\ U \subseteq Memory \X (0..MaxRooms)
    /\ \A x \in U : /\ x[1].room \in 0..Len(x[1].rooms)
                    /\ x[2] \in 0..Len(x[1].rooms)
                    /\ x[1].running = Idle /\ x[1].queue # <<>> =>
                         <<Taken(x[1], x[2]), TakenDone(x[1])>> \in U

RunState == [m : Memory, done : 0..MaxRooms, left : Seq(Task)]

\* A state of RunTasks with the tasks that are still to come, as a memory.
Virtual(a, rest) == WithQueue(a.m, a.left \o (rest \o a.m.queue))

Fits(U, a, rest) ==
    /\ a \in RunState /\ (a.m.running = Idle => a.left = <<>>)
    /\ <<Virtual(a, rest), a.done>> \in U

\* Sequences of tasks.
LEMMA Joined ==
    ASSUME NEW p \in Seq(Task), NEW q \in Seq(Task), NEW r \in Seq(Task),
           NEW t \in Task
    PROVE  /\ <<>> \o p = p /\ p \o <<>> = p
           /\ p \o (q \o r) = (p \o q) \o r
           /\ (<<t>> \o q) \o r # <<>> /\ Head((<<t>> \o q) \o r) = t
           /\ Tail((<<t>> \o q) \o r) = q \o r
           /\ (<<t>> \o q) \o r \in Seq(Task)
           /\ Append(p, t) \in Seq(Task) /\ p \o q \in Seq(Task)
           /\ <<t>> \o q \in Seq(Task) /\ q \o r \in Seq(Task)
<1>1. /\ <<>> \o p = p /\ p \o <<>> = p /\ Append(p, t) \in Seq(Task)
      /\ p \o q \in Seq(Task) /\ q \o r \in Seq(Task) /\ <<t>> \in Seq(Task)
  OBVIOUS
<1>2. <<t>> \o q \in Seq(Task)
  BY <1>1
<1>4. p \o (q \o r) = (p \o q) \o r
  OBVIOUS
<1>5. /\ (<<t>> \o q) \o r # <<>> /\ Head((<<t>> \o q) \o r) = t
      /\ Tail((<<t>> \o q) \o r) = q \o r
      /\ (<<t>> \o q) \o r \in Seq(Task)
  <2> DEFINE s == (<<t>> \o q) \o r
  <2>1. s \in Seq(Task) /\ Len(s) = 1 + Len(q) + Len(r) /\ s[1] = t
    OBVIOUS
  <2>2. s # <<>> /\ Head(s) = t
    BY <2>1
  <2>3. Tail(s) = q \o r
    OBVIOUS
  <2> QED BY <2>1, <2>2, <2>3
<1> QED BY <1>1, <1>2, <1>4, <1>5

\* A task that is left comes before those that are still to come.
LEMMA JoinedLater ==
    ASSUME NEW p \in Seq(Task), NEW q \in Seq(Task), NEW r \in Seq(Task),
           NEW t \in Task
    PROVE  Append(p, t) \o (q \o r) = p \o ((<<t>> \o q) \o r)
OBVIOUS

\* RunNext takes a task, or leaves it for later.
LEMMA RunNextFits ==
    ASSUME NEW U, ClosedUnderTaking(U), NEW a, NEW t \in Task,
           NEW rest \in Seq(Task), Fits(U, a, <<t>> \o rest)
    PROVE  Fits(U, RunNext(a, t), rest)
<1> DEFINE m == a.m
           v == Virtual(a, <<t>> \o rest)
<1>1. /\ a \in RunState /\ m \in Memory /\ a.left \in Seq(Task)
      /\ a.done \in 0..MaxRooms /\ m.queue \in Seq(Task)
      /\ m.running = Idle => a.left = <<>>
      /\ <<v, a.done>> \in U
  BY MemoryFields DEF Fits, RunState
<1>2. CASE m.running # Idle
  <2> DEFINE b == [a EXCEPT !.left = Append(@, t)]
  <2>1. RunNext(a, t) = b
    BY <1>2 DEF RunNext
  <2>2. Append(a.left, t) \in Seq(Task)
    BY <1>1
  <2>3. /\ b \in RunState /\ b.m = m /\ b.done = a.done
        /\ b.left = Append(a.left, t)
    BY <1>1, <2>2 DEF RunState
  <2>4. Virtual(b, rest) = v
    <3> DEFINE left == a.left
               mq == m.queue
    <3>0. left \in Seq(Task) /\ mq \in Seq(Task)
      BY <1>1
    <3> HIDE DEF left, mq
    <3>1. Append(left, t) \o (rest \o mq) = left \o ((<<t>> \o rest) \o mq)
      BY <3>0, Joined
    <3> HIDE DEF b
    <3> QED BY <2>3, <3>1 DEF Virtual, left, mq
  <2> HIDE DEF b
  <2> QED BY <1>1, <1>2, <2>1, <2>3, <2>4 DEF Fits
<1>3. CASE m.running = Idle
  <2> DEFINE started == StartTask(m, t)
             q == rest \o m.queue
             all == (<<t>> \o rest) \o m.queue
             done == IF started.running = Idle THEN t.waiter ELSE NoRoom
  <2>1. /\ q \in Seq(Task) /\ all \in Seq(Task) /\ all # <<>>
        /\ Head(all) = t /\ Tail(all) = q
    <3> DEFINE mq == m.queue
    <3>1. mq \in Seq(Task)
      BY <1>1
    <3> HIDE DEF mq
    <3>2. /\ rest \o mq \in Seq(Task) /\ (<<t>> \o rest) \o mq \in Seq(Task)
          /\ (<<t>> \o rest) \o mq # <<>>
          /\ Head((<<t>> \o rest) \o mq) = t
          /\ Tail((<<t>> \o rest) \o mq) = rest \o mq
      BY <3>1, Joined
    <3> QED BY <3>2 DEF mq
  <2>2. v = WithQueue(m, all)
    <3>1. a.left = <<>> /\ <<>> \o all = all
      BY <1>1, <1>3, <2>1
    <3> QED BY <3>1 DEF Virtual
  <2> HIDE DEF v, all, q
  <2>3. /\ v \in Memory /\ v.running = Idle /\ v.rooms = m.rooms
        /\ v.room = m.room /\ v.queue = all
    BY <1>1, <1>3, <2>1, <2>2, QueueIs
  <2>4. /\ m.room \in 0..Len(m.rooms) /\ a.done \in 0..Len(m.rooms)
        /\ <<Taken(v, a.done), TakenDone(v)>> \in U
    BY <1>1, <2>1, <2>3 DEF ClosedUnderTaking
  <2>5. PICK more \in Seq(Task) : \A p \in Seq(Task) :
           StartTask(WithQueue(m, p), t) = WithQueue(started, p \o more)
    BY <1>1, <2>4, StartWithQueue
  <2>6. WithQueue(v, q) = WithQueue(m, q)
    BY <1>1, <2>1, <2>2, QueueTwice
  <2> DEFINE end == q \o more
             old == m.queue \o more
  <2>7. end \in Seq(Task) /\ old \in Seq(Task)
    BY <1>1, <2>1
  <2>8. StartHead(v) = WithQueue(started, end)
    BY <2>1, <2>3, <2>5, <2>6 DEF StartHead
  <2>9. started \in Memory /\ Len(started.rooms) = Len(m.rooms)
    BY <1>1, <2>4, StartedInMemory
  <2>10. started.queue = old
    <3>1. WithQueue(m, m.queue) = m
      BY <1>1, QueueTwice
    <3>2. started = WithQueue(started, old)
      BY <1>1, <2>5, <3>1
    <3> HIDE DEF started, old
    <3> QED BY <2>7, <2>9, <3>2, QueueIs
  <2> DEFINE next == Continue(started, a.done)
             b == [m |-> next, left |-> a.left, done |-> done]
  <2>11. RunNext(a, t) = b
    BY <1>3 DEF RunNext
  <2> HIDE DEF started, end, old
  <2>12. a.done \in 0..Len(started.rooms)
    BY <2>4, <2>9
  <2>13. next \in Memory /\ next.queue = old /\ next.running = started.running
    <3>1. a.done # NoRoom => a.done \in 1..Len(started.rooms)
      BY <2>12 DEF NoRoom
    <3>2. CASE next = started
      BY <2>9, <2>10, <3>2
    <3>3. CASE a.done # NoRoom /\ next = Closing(started, a.done)
      <4> HIDE DEF next
      <4> QED BY <2>9, <2>10, <3>1, <3>3, ClosingIs
    <3> QED BY <3>2, <3>3, ContinueIs
  <2>14. Taken(v, a.done) = WithQueue(next, end)
    BY <2>7, <2>8, <2>9, <2>12, ContinueWithQueue DEF Taken
  <2>15. TakenDone(v) = done
    <3>1. WithQueue(started, end).running = started.running
      BY <2>7, <2>9, QueueIs
    <3>2. StartHead(v).running = started.running
      BY <2>8, <3>1
    <3> QED BY <2>1, <2>3, <3>2 DEF TakenDone, done
  <2>16. Virtual(b, rest) = Taken(v, a.done)
    <3>1. a.left \o (rest \o old) = end
      <4> DEFINE mq == m.queue
      <4>1. a.left = <<>> /\ mq \in Seq(Task)
        BY <1>1, <1>3
      <4> HIDE DEF mq
      <4>2. rest \o (mq \o more) = (rest \o mq) \o more
        BY <4>1
      <4>3. rest \o old = end
        BY <4>2 DEF old, end, q, mq
      <4>4. <<>> \o end = end
        BY <2>7
      <4> QED BY <4>1, <4>3, <4>4
    <3>2. b.m = next /\ b.left = a.left
      OBVIOUS
    <3> HIDE DEF next, b
    <3> QED BY <2>13, <2>14, <3>1, <3>2 DEF Virtual
  <2>17. b \in RunState /\ b.m = next /\ b.done = done /\ b.left = <<>>
    <3>1. done \in 0..MaxRooms
      BY TaskFields, DurableObjectAssumption DEF NoRoom
    <3> HIDE DEF next, done
    <3> QED BY <1>1, <1>3, <2>13, <3>1 DEF RunState
  <2> HIDE DEF b, done
  <2> QED BY <2>4, <2>11, <2>15, <2>16, <2>17 DEF Fits
<1> QED BY <1>2, <1>3

\* What taking a task keeps, RunTasks keeps until the last waiter goes on.
LEMMA RunTasksKeeps ==
    ASSUME NEW U, ClosedUnderTaking(U), NEW m, NEW d, <<m, d>> \in U,
           m.running = Idle
    PROVE  \E x \in U : RunTasks(m, d) = Continue(x[1], x[2])
<1> DEFINE base == [m |-> [m EXCEPT !.queue = <<>>], done |-> d, left |-> <<>>]
           q == m.queue
           rest(n) == SubSeq(q, n + 1, Len(q))
<1>1. m \in Memory /\ d \in 0..MaxRooms /\ q \in Seq(Task)
  BY MemoryFields DEF ClosedUnderTaking
<1>2. PICK acc : /\ acc[0] = base
                 /\ \A i \in 1..Len(q) : acc[i] = RunNext(acc[i - 1], q[i])
                 /\ Tasks!Fold(base, q) = acc[Len(q)]
  BY <1>1, Tasks!FoldTrace
<1>3. FoldLeft(RunNext, base, q) = acc[Len(q)]
  BY <1>2 DEF FoldLeft, MapThenFoldSet, Max, Tasks!Fold,
              Tasks!MapThenFoldSet, Tasks!Greatest
<1> DEFINE S == {n \in Nat : n <= Len(q) => Fits(U, acc[n], rest(n))}
<1>4. 0 \in S
  <2>1. rest(0) = q /\ <<>> \o (q \o <<>>) = q
    BY <1>1
  <2>2. base.m = WithQueue(m, <<>>) /\ base.done = d /\ base.left = <<>>
    BY DEF WithQueue
  <2>3. /\ base.m \in Memory /\ base.m.queue = <<>>
        /\ base.m.running = m.running /\ WithQueue(base.m, q) = m
    <3> DEFINE none == <<>>
    <3>1. none \in Seq(Task) /\ base.m = WithQueue(m, none)
      BY <2>2
    <3>2. WithQueue(m, m.queue) = m /\ m.queue \in Seq(Task)
      BY <1>1, QueueTwice
    <3> HIDE DEF base, none
    <3>3. WithQueue(base.m, q) = m
      BY <1>1, <3>1, <3>2, QueueTwice
    <3>4. /\ WithQueue(m, none) \in Memory /\ WithQueue(m, none).queue = none
          /\ WithQueue(m, none).running = m.running
      BY <1>1, <3>1, QueueIs
    <3> QED BY <3>1, <3>3, <3>4 DEF none
  <2>4. base \in RunState
    BY <1>1, <2>2, <2>3 DEF RunState
  <2> HIDE DEF base
  <2>5. Virtual(base, q) = m
    BY <2>1, <2>2, <2>3 DEF Virtual
  <2> HIDE DEF q
  <2> QED BY <1>2, <2>1, <2>2, <2>4, <2>5 DEF Fits
<1>5. \A n \in Nat : n \in S => n + 1 \in S
  <2> SUFFICES ASSUME NEW n \in Nat, n \in S, n + 1 <= Len(q)
               PROVE  Fits(U, acc[n + 1], rest(n + 1))
    OBVIOUS
  <2>0. Fits(U, acc[n], rest(n))
    <3>1. n <= Len(q)
      BY <1>1
    <3> QED BY <3>1
  <2>1. /\ n + 1 \in 1..Len(q) /\ q[n + 1] \in Task /\ (n + 1) - 1 = n
        /\ rest(n + 1) \in Seq(Task) /\ rest(n) = <<q[n + 1]>> \o rest(n + 1)
    BY <1>1
  <2>2. acc[n + 1] = RunNext(acc[n], q[n + 1])
    BY <1>2, <2>1
  <2>3. Fits(U, acc[n], <<q[n + 1]>> \o rest(n + 1))
    <3> HIDE DEF rest
    <3> QED BY <2>0, <2>1
  <2> DEFINE later == rest(n + 1)
             t == q[n + 1]
             a == acc[n]
  <2>4. t \in Task /\ later \in Seq(Task) /\ Fits(U, a, <<t>> \o later)
    BY <2>1, <2>3
  <2> HIDE DEF later, t, a
  <2>5. Fits(U, RunNext(a, t), later)
    BY <2>4, RunNextFits
  <2> QED BY <2>2, <2>5 DEF later, t, a
<1>6. Len(q) \in S
  <2> HIDE DEF S
  <2>1. Nat \subseteq S
    BY <1>4, <1>5, Tasks!SetInduction
  <2> QED BY <1>1, <2>1
<1> DEFINE ran == acc[Len(q)]
<1>7. Fits(U, ran, <<>>)
  <2>1. Len(q) \in Nat /\ Len(q) <= Len(q) /\ rest(Len(q)) = <<>>
    BY <1>1
  <2>2. Fits(U, acc[Len(q)], rest(Len(q)))
    BY <1>6, <2>1
  <2> QED BY <2>1, <2>2
<1>8. RunTasks(m, d) = Continue([ran.m EXCEPT !.queue = ran.left \o @], ran.done)
  BY <1>3 DEF RunTasks
<1>9. [ran.m EXCEPT !.queue = ran.left \o @] = Virtual(ran, <<>>)
  <2> HIDE DEF ran
  <2>1. ran.m \in Memory /\ ran.m.queue \in Seq(Task) /\ ran.left \in Seq(Task)
    BY <1>7, MemoryFields DEF Fits, RunState
  <2>2. <<>> \o ran.m.queue = ran.m.queue
    BY <2>1
  <2> QED BY <2>1, <2>2 DEF Virtual, WithQueue
<1> HIDE DEF ran
<1> QED BY <1>7, <1>8, <1>9 DEF Fits

-----------------------------------------------------------------------------
(***************************************************************************)
(* Types.                                                                  *)
(***************************************************************************)
\* What of a room is right in every memory.
RoomTyped(room) ==
    /\ room.state # "open" => room.sessions = {} /\ room.docs = {}
    /\ room.documentClock <= room.clock

\* Which task may run among that many rooms.
RunningTyped(x, many) ==
    /\ x \in Running /\ x.waiter \in 0..many
    /\ x.type = "none" => x = Idle
    /\ x.type = "persist" => x.snapshot.clock >= 0

\* Which tasks may wait.
QueueTyped(q, many) ==
    q \in Seq(Task) /\ \A i \in DOMAIN q : q[i].waiter \in 0..many

\* A typed memory, by its parts.
LEMMA TypedParts ==
    ASSUME NEW m, NEW d
    PROVE  MemoryTyped(m, d) <=>
             /\ m \in Memory /\ Len(m.rooms) <= MaxRooms
             /\ m.room \in 0..Len(m.rooms) /\ m.restoreRoom \in 0..Len(m.rooms)
             /\ d \in 0..Len(m.rooms)
             /\ RunningTyped(m.running, Len(m.rooms))
             /\ QueueTyped(m.queue, Len(m.rooms))
             /\ m.restore \in {"put", "load"} => m.restored.clock >= 0
             /\ m.restore = "load" => m.restoreRoom # NoRoom
             /\ \A r \in DOMAIN m.rooms : RoomTyped(m.rooms[r])
<1>1. m \in Memory => m.running \in Running /\ m.queue \in Seq(Task)
  BY MemoryFields
<1> QED BY <1>1 DEF MemoryTyped, RunningTyped, QueueTyped, RoomTyped

\* The waiter that is to go on does not matter to the types.
LEMMA DoneTyped ==
    ASSUME NEW m, NEW d, NEW e, MemoryTyped(m, d), e \in 0..Len(m.rooms)
    PROVE  MemoryTyped(m, e)
BY TypedParts

\* Another queue.
LEMMA WithQueueTyped ==
    ASSUME NEW m, NEW d, MemoryTyped(m, d), NEW q, QueueTyped(q, Len(m.rooms))
    PROVE  MemoryTyped(WithQueue(m, q), d)
<1>1. m \in Memory /\ q \in Seq(Task)
  BY TypedParts DEF QueueTyped
<1> DEFINE n == WithQueue(m, q)
<1>2. /\ n \in Memory /\ n.queue = q /\ n.room = m.room /\ n.rooms = m.rooms
      /\ n.running = m.running /\ n.restore = m.restore
      /\ n.restored = m.restored /\ n.restoreRoom = m.restoreRoom
  BY <1>1, QueueIs
<1> HIDE DEF n
<1>3. MemoryTyped(n, d)
  BY <1>2, TypedParts
<1> QED BY <1>3 DEF n

\* Another task that runs.
LEMMA WithRunningTyped ==
    ASSUME NEW m, NEW d, MemoryTyped(m, d), NEW x, RunningTyped(x, Len(m.rooms))
    PROVE  MemoryTyped(WithRunning(m, x), d)
<1>1. m \in Memory /\ x \in Running
  BY TypedParts DEF RunningTyped
<1> DEFINE n == WithRunning(m, x)
<1>2. /\ n \in Memory /\ n.queue = m.queue /\ n.room = m.room
      /\ n.rooms = m.rooms /\ n.running = x /\ n.restore = m.restore
      /\ n.restored = m.restored /\ n.restoreRoom = m.restoreRoom
  BY <1>1, RunningIs
<1> HIDE DEF n
<1>3. MemoryTyped(n, d)
  BY <1>2, TypedParts
<1> QED BY <1>3 DEF n

\* A waiter that goes on.
LEMMA ContinueTyped ==
    ASSUME NEW m, NEW d, MemoryTyped(m, d)
    PROVE  /\ MemoryTyped(Continue(m, d), NoRoom)
           /\ Len(Continue(m, d).rooms) = Len(m.rooms)
           /\ Continue(m, d).running = m.running
           /\ Continue(m, d).queue = m.queue
           /\ Continue(m, d).deleted = m.deleted
<1>1. /\ m \in Memory /\ Len(m.rooms) \in Nat /\ d \in 0..Len(m.rooms)
      /\ NoRoom \in 0..Len(m.rooms)
  <2>1. m \in Memory /\ d \in 0..Len(m.rooms)
    BY TypedParts
  <2>2. m.rooms \in Seq(Room)
    BY <2>1, MemoryFields
  <2> QED BY <2>1, <2>2 DEF NoRoom
<1>2. CASE Continue(m, d) = m
  BY <1>1, <1>2, DoneTyped
<1>3. CASE d # NoRoom /\ Continue(m, d) = Closing(m, d)
  <2> DEFINE n == Closing(m, d)
             room == [m.rooms[d] EXCEPT !.isClosed = TRUE]
  <2>1. d \in 1..Len(m.rooms)
    BY <1>1, <1>3 DEF NoRoom
  <2>2. /\ n \in Memory /\ n.queue = m.queue /\ n.room = NoRoom
        /\ n.rooms = [m.rooms EXCEPT ![d] = room]
        /\ n.rooms \in Seq(Room) /\ Len(n.rooms) = Len(m.rooms)
        /\ n.running = m.running /\ n.restore = m.restore
        /\ n.restored = m.restored /\ n.restoreRoom = m.restoreRoom
        /\ n.deleted = m.deleted
    BY <1>1, <2>1, ClosingIs
  <2>3. m.rooms \in Seq(Room) /\ m.rooms[d] \in Room
    BY <1>1, <2>1, MemoryFields
  <2>4. RoomTyped(m.rooms[d]) => RoomTyped(room)
    BY <2>3, Zenon DEF RoomTyped, Room
  <2> HIDE DEF room
  <2>5. \A r \in DOMAIN m.rooms : RoomTyped(m.rooms[r])
    BY TypedParts
  <2>6. \A r \in DOMAIN n.rooms : RoomTyped(n.rooms[r])
    BY <2>1, <2>2, <2>3, <2>4, <2>5
  <2> HIDE DEF n
  <2>7. MemoryTyped(n, NoRoom)
    BY <1>1, <2>2, <2>6, TypedParts
  <2> QED BY <1>3, <2>2, <2>7 DEF n
<1> QED BY <1>2, <1>3, ContinueIs

\* A task that starts.
LEMMA StartTyped ==
    ASSUME NEW m, NEW d, MemoryTyped(m, d), NEW task \in Task,
           task.waiter \in 0..Len(m.rooms)
    PROVE  /\ MemoryTyped(StartTask(m, task), d)
           /\ Len(StartTask(m, task).rooms) = Len(m.rooms)
           /\ StartTask(m, task).deleted = m.deleted
<1>1. /\ m \in Memory /\ m.rooms \in Seq(Room) /\ m.room \in 0..Len(m.rooms)
      /\ NoRoom \in 0..Len(m.rooms) /\ m.queue \in Seq(Task)
      /\ Len(m.rooms) <= MaxRooms
  <2>1. m \in Memory /\ m.room \in 0..Len(m.rooms) /\ Len(m.rooms) <= MaxRooms
    BY TypedParts
  <2>2. m.rooms \in Seq(Room) /\ m.queue \in Seq(Task)
    BY <2>1, MemoryFields
  <2> QED BY <2>1, <2>2 DEF NoRoom
<1>2. task.type \in {"persist", "delete"} /\ task.waiter \in 0..MaxRooms
  BY TaskFields
<1>3. ASSUME NEW x, RunningTyped(x, Len(m.rooms)),
             StartTask(m, task) = WithRunning(m, x)
      PROVE  /\ MemoryTyped(StartTask(m, task), d)
             /\ Len(StartTask(m, task).rooms) = Len(m.rooms)
             /\ StartTask(m, task).deleted = m.deleted
  <2>1. x \in Running
    BY <1>3 DEF RunningTyped
  <2> QED BY <1>1, <1>3, <2>1, WithRunningTyped, RunningIs
<1>4. ASSUME NEW type \in {"loadToPersist", "loadToDelete", "delete"}
      PROVE  RunningTyped(WaitTo(type, task.waiter), Len(m.rooms))
  BY <1>2, CanRun DEF RunningTyped
<1>5. ASSUME NEW room \in Room
      PROVE  RunningTyped(SaveOf(room, task.waiter), Len(m.rooms))
  <2>1. room.clock >= 0
    BY RoomFields
  <2> QED BY <1>2, <2>1, CanRun DEF RunningTyped
<1>6. IsRoom(m, "open") => m.room \in 1..Len(m.rooms) /\ m.rooms[m.room] \in Room
  BY <1>1 DEF IsRoom, NoRoom
<1>7. CASE task.type = "persist"
  BY <1>1, <1>3, <1>4, <1>5, <1>6, <1>7, PersistStarts
<1>8. CASE task.type = "delete"
  <2>1. CASE IsRoom(m, "open") /\ StartTask(m, task) = CloseRoom(m)
    <3> DEFINE n == CloseRoom(m)
               save == SaveAfterDelete(m)
               many == Len(m.rooms)
               room == m.rooms[m.room]
    <3>1. /\ n \in Memory /\ n.queue = m.queue \o save /\ n.room = NoRoom
          /\ n.rooms = [m.rooms EXCEPT ![m.room] = Emptied(room)]
          /\ n.rooms \in Seq(Room) /\ Len(n.rooms) = Len(m.rooms)
          /\ n.running = Deleting /\ n.restore = m.restore
          /\ n.restored = m.restored /\ n.restoreRoom = m.restoreRoom
          /\ n.deleted = m.deleted
      BY <1>1, <1>6, <2>1, CloseRoomIs
    <3>2. RoomTyped(room) => RoomTyped(Emptied(room))
      <4>1. /\ Emptied(room).state = room.state /\ Emptied(room).sessions = {}
            /\ Emptied(room).docs = room.docs
            /\ Emptied(room).documentClock = room.documentClock
            /\ Emptied(room).clock = room.clock
        BY <1>6, <2>1, Zenon DEF Emptied, Room
      <4> QED BY <4>1 DEF RoomTyped
    <3>3. \A r \in DOMAIN n.rooms : RoomTyped(n.rooms[r])
      <4>1. \A r \in DOMAIN m.rooms : RoomTyped(m.rooms[r])
        BY TypedParts
      <4>2. m.room \in DOMAIN m.rooms
        BY <1>1, <1>6, <2>1
      <4> HIDE DEF n
      <4> QED BY <1>1, <3>1, <3>2, <4>1, <4>2
    <3>4. RunningTyped(n.running, many)
      BY <1>1, <3>1, CanRun DEF RunningTyped
    <3>5. QueueTyped(n.queue, many)
      <4>1. save \in Seq(Task) /\ Len(save) <= 1
            /\ \A i \in DOMAIN save : save[i].waiter \in 0..many
        <5>1. save \in Seq(Task)
          BY <1>1, <1>6, <2>1, CloseRoomForm
        <5>2. m.room \in 0..many
          BY <1>1
        <5>3. \/ save = <<>>
              \/ save = <<[type |-> "persist", waiter |-> m.room]>>
          BY DEF SaveAfterDelete
        <5> HIDE DEF save, many
        <5>4. CASE save = <<>>
          BY <5>1, <5>4
        <5>5. CASE save = <<[type |-> "persist", waiter |-> m.room]>>
          BY <5>1, <5>2, <5>5
        <5> QED BY <5>3, <5>4, <5>5
      <4>2. QueueTyped(m.queue, many)
        BY TypedParts
      <4> DEFINE q == m.queue
      <4>3. q \in Seq(Task) /\ \A i \in DOMAIN q : q[i].waiter \in 0..many
        BY <4>2 DEF QueueTyped
      <4> HIDE DEF q, save, many
      <4>4. /\ q \o save \in Seq(Task)
            /\ \A i \in DOMAIN (q \o save) : (q \o save)[i].waiter \in 0..many
        BY <4>1, <4>3
      <4> QED BY <3>1, <4>4 DEF QueueTyped, q
    <3> HIDE DEF n
    <3>6. MemoryTyped(n, d)
      <4>1. /\ d \in 0..Len(m.rooms) /\ m.restoreRoom \in 0..Len(m.rooms)
            /\ m.restore \in {"put", "load"} => m.restored.clock >= 0
            /\ m.restore = "load" => m.restoreRoom # NoRoom
        BY TypedParts
      <4> QED BY <1>1, <3>1, <3>3, <3>4, <3>5, <4>1, TypedParts
    <3> QED BY <2>1, <3>1, <3>6 DEF n
  <2>2. CASE StartTask(m, task) = m
    BY <2>2
  <2>3. CASE \E type \in {"loadToDelete", "delete"} :
               StartTask(m, task) = WithRunning(m, WaitTo(type, task.waiter))
    BY <1>3, <1>4, <2>3
  <2> QED BY <1>1, <1>8, <2>1, <2>2, <2>3, DeleteStarts
<1> QED BY <1>2, <1>7, <1>8

\* A task that is taken.
LEMMA TakenTyped ==
    ASSUME NEW m, NEW d, MemoryTyped(m, d), m.queue # <<>>
    PROVE  /\ MemoryTyped(StartHead(m), d)
           /\ Len(StartHead(m).rooms) = Len(m.rooms)
           /\ MemoryTyped(Taken(m, d), TakenDone(m))
           /\ StartHead(m).deleted = m.deleted
           /\ Taken(m, d).deleted = m.deleted
           /\ Head(m.queue) \in Task /\ Head(m.queue).waiter \in 0..Len(m.rooms)
           /\ MemoryTyped(WithQueue(m, Tail(m.queue)), d)
           /\ Tail(m.queue) \in Seq(Task)
<1> DEFINE n == WithQueue(m, Tail(m.queue))
           task == Head(m.queue)
           s == StartHead(m)
<1>1. m \in Memory /\ QueueTyped(m.queue, Len(m.rooms)) /\ m.rooms \in Seq(Room)
  BY TypedParts, MemoryFields
<1>2. /\ QueueTyped(Tail(m.queue), Len(m.rooms))
      /\ task \in Task /\ task.waiter \in 0..Len(m.rooms)
  <2> DEFINE q == m.queue
  <2>1. q \in Seq(Task) /\ q # <<>>
        /\ \A i \in DOMAIN q : q[i].waiter \in 0..Len(m.rooms)
    BY <1>1 DEF QueueTyped
  <2> HIDE DEF q
  <2>2. /\ Tail(q) \in Seq(Task) /\ Head(q) = q[1] /\ 1 \in DOMAIN q
        /\ \A i \in DOMAIN Tail(q) : i + 1 \in DOMAIN q /\ Tail(q)[i] = q[i + 1]
        /\ Head(q) \in Task
    BY <2>1
  <2>3. QueueTyped(Tail(q), Len(m.rooms)) /\ Head(q).waiter \in 0..Len(m.rooms)
    BY <2>1, <2>2 DEF QueueTyped
  <2> QED BY <2>2, <2>3 DEF q
<1>3. /\ MemoryTyped(n, d) /\ n.rooms = m.rooms /\ n.deleted = m.deleted
      /\ Tail(m.queue) \in Seq(Task)
  BY <1>1, <1>2, WithQueueTyped, QueueIs DEF QueueTyped
<1> HIDE DEF n, task
<1>4. /\ MemoryTyped(StartTask(n, task), d) /\ StartTask(n, task).deleted = m.deleted
      /\ Len(StartTask(n, task).rooms) = Len(m.rooms)
  BY <1>2, <1>3, StartTyped
<1>5. s = StartTask(n, task)
  BY DEF StartHead, n, task
<1> HIDE DEF s
<1>6. /\ MemoryTyped(Continue(s, d), NoRoom) /\ Continue(s, d).deleted = s.deleted
      /\ Len(Continue(s, d).rooms) = Len(s.rooms)
  BY <1>4, <1>5, ContinueTyped
<1>7. MemoryTyped(Continue(s, d), TakenDone(m))
  <2>1. TakenDone(m) \in 0..Len(m.rooms)
    BY <1>1, <1>2 DEF TakenDone, NoRoom, task
  <2> QED BY <1>4, <1>5, <1>6, <2>1, DoneTyped
<1> QED BY <1>2, <1>3, <1>4, <1>5, <1>6, <1>7 DEF Taken, s, n, task

-----------------------------------------------------------------------------
(***************************************************************************)
(* A save that starts, and a waiter that goes on.                          *)
(***************************************************************************)
\* Two memories that differ in their queues and in what runs.
SameRooms(n, m) ==
    /\ n \in Memory /\ m \in Memory /\ n.room = m.room /\ n.rooms = m.rooms
    /\ n.lastPersistedClock = m.lastPersistedClock
    /\ n.throttled = m.throttled /\ n.deleted = m.deleted
    /\ n.isRestoring = m.isRestoring /\ n.restore = m.restore
    /\ n.restored = m.restored /\ n.restoreRoom = m.restoreRoom

\* What happens when a save comes to the head of the queue.
LEMMA HeadStarts ==
    ASSUME NEW m, NEW d, MemoryTyped(m, d), m.running = Idle, m.queue # <<>>,
           Head(m.queue).type = "persist",
           NEW w, w = Head(m.queue).waiter
    PROVE  /\ SameRooms(StartHead(m), m)
           /\ StartHead(m).queue = Tail(m.queue)
           /\ \/ StartHead(m).running = Idle /\ NothingToSave(m)
              \/ /\ IsRoom(m, "loading")
                 /\ StartHead(m).running = WaitTo("loadToPersist", w)
              \/ /\ IsRoom(m, "open") /\ ~NothingToSave(m)
                 /\ StartHead(m).running = SaveOf(m.rooms[m.room], w)
<1> DEFINE n == WithQueue(m, Tail(m.queue))
           task == Head(m.queue)
           s == StartHead(m)
<1>1. /\ task \in Task /\ Tail(m.queue) \in Seq(Task) /\ m \in Memory
      /\ m.room \in 0..Len(m.rooms) /\ w \in 0..MaxRooms
  BY TakenTyped, TypedParts, TaskFields
<1>2. SameRooms(n, m) /\ n.running = Idle /\ n.queue = Tail(m.queue)
  BY <1>1, QueueIs DEF SameRooms
<1>3. s = StartTask(n, task)
  BY DEF StartHead
<1>4. /\ NothingToSave(n) <=> NothingToSave(m)
      /\ \A state : IsRoom(n, state) <=> IsRoom(m, state)
  BY <1>2 DEF SameRooms, NothingToSave, IsRoom
<1>5. ASSUME NEW x \in Running, s = WithRunning(n, x)
      PROVE  SameRooms(s, m) /\ s.queue = Tail(m.queue) /\ s.running = x
  BY <1>2, <1>5, RunningIs DEF SameRooms
<1>6. WaitTo("loadToPersist", w) \in Running
  BY <1>1, CanRun
<1>7. IsRoom(m, "open") => SaveOf(m.rooms[m.room], w) \in Running
  <2>1. IsRoom(m, "open") => m.rooms[m.room] \in Room
    BY <1>1, MemoryFields DEF IsRoom, NoRoom
  <2> QED BY <1>1, <2>1, CanRun
<1>8. n.room = m.room /\ n.rooms = m.rooms /\ n \in Memory
  BY <1>2 DEF SameRooms
<1> HIDE DEF n, task, s
<1>9. \/ NothingToSave(n) /\ s = n
      \/ IsRoom(n, "loading") /\ s = WithRunning(n, WaitTo("loadToPersist", w))
      \/ /\ IsRoom(n, "open") /\ ~NothingToSave(n)
         /\ s = WithRunning(n, SaveOf(n.rooms[n.room], w))
  BY <1>1, <1>3, <1>8, PersistStarts DEF task
<1> QED BY <1>2, <1>4, <1>5, <1>6, <1>7, <1>8, <1>9 DEF s

\* What is known of the queue when a task is taken from it.
LEMMA HeadWaits ==
    ASSUME NEW m, NEW d, MemoryTyped(m, d), OneRoomOK(m, d), m.queue # <<>>,
           NEW w, w = Head(m.queue).waiter
    PROVE  /\ Head(m.queue).type = "persist"
           /\ \A i \in DOMAIN Tail(m.queue) :
                Tail(m.queue)[i].type = "persist"
           /\ w # NoRoom =>
                /\ w = m.room /\ IsRoom(m, "open") /\ d = NoRoom
                /\ \A i \in DOMAIN Tail(m.queue) :
                     Tail(m.queue)[i].waiter = NoRoom
           /\ \A i, j \in DOMAIN Tail(m.queue) :
                Tail(m.queue)[i].waiter # NoRoom =>
                  /\ Tail(m.queue)[i].waiter = m.room
                  /\ Tail(m.queue)[j].waiter # NoRoom => i = j
           /\ d # NoRoom =>
                \A i \in DOMAIN Tail(m.queue) : Tail(m.queue)[i].waiter = NoRoom
           /\ (\E i \in DOMAIN Tail(m.queue) :
                 Tail(m.queue)[i].waiter # NoRoom) => IsRoom(m, "open")
<1> DEFINE q == m.queue
<1>1. q \in Seq(Task)
  BY TypedParts DEF QueueTyped
<1>2. /\ \A i \in DOMAIN q : q[i].type = "persist"
      /\ d # NoRoom => \A i \in DOMAIN q : q[i].waiter = NoRoom
      /\ \A i, j \in DOMAIN q :
           q[i].waiter # NoRoom =>
             /\ q[i].waiter = m.room
             /\ q[j].waiter # NoRoom => i = j
      /\ (\E i \in DOMAIN q : q[i].waiter # NoRoom) =>
           m.rooms[m.room].state = "open"
  BY DEF OneRoomOK, OneWaits
<1>3. (\E i \in DOMAIN q : q[i].waiter # NoRoom) => IsRoom(m, "open")
  BY <1>2 DEF IsRoom
<1>4. q # <<>> /\ w = Head(q).waiter
  OBVIOUS
<1> HIDE DEF q
<1>5. /\ Head(q) = q[1] /\ 1 \in DOMAIN q /\ DOMAIN Tail(q) = 1..Len(q) - 1
      /\ \A i \in DOMAIN Tail(q) : /\ i + 1 \in DOMAIN q /\ i + 1 # 1
                                   /\ Tail(q)[i] = q[i + 1]
      /\ \A i, j \in DOMAIN Tail(q) : i + 1 = j + 1 => i = j
  BY <1>1, <1>4
<1>6. /\ Head(q).type = "persist"
      /\ \A i \in DOMAIN Tail(q) : Tail(q)[i].type = "persist"
  BY <1>2, <1>5
<1>7. w # NoRoom =>
        /\ w = m.room /\ IsRoom(m, "open") /\ d = NoRoom
        /\ \A i \in DOMAIN Tail(q) : Tail(q)[i].waiter = NoRoom
  BY <1>2, <1>3, <1>4, <1>5
<1>8. \A i, j \in DOMAIN Tail(q) :
        Tail(q)[i].waiter # NoRoom =>
          /\ Tail(q)[i].waiter = m.room
          /\ Tail(q)[j].waiter # NoRoom => i = j
  BY <1>2, <1>5
<1>9. d # NoRoom => \A i \in DOMAIN Tail(q) : Tail(q)[i].waiter = NoRoom
  BY <1>2, <1>5
<1>10. (\E i \in DOMAIN Tail(q) : Tail(q)[i].waiter # NoRoom) => IsRoom(m, "open")
  BY <1>3, <1>5
<1> QED BY <1>6, <1>7, <1>8, <1>9, <1>10 DEF q

\* A task that starts leaves one room, and one that waits.
LEMMA StartOneRoom ==
    ASSUME NEW m, NEW d, MemoryTyped(m, d), OneRoomOK(m, d), m.running = Idle,
           m.queue # <<>>,
           NEW e, e = IF d = NoRoom THEN TakenDone(m) ELSE d
    PROVE  OneRoomOK(StartHead(m), e) /\ (d # NoRoom => TakenDone(m) = NoRoom)
<1> DEFINE w == Head(m.queue).waiter
           s == StartHead(m)
           t == Tail(m.queue)
<1>1. /\ Head(m.queue).type = "persist"
      /\ \A i \in DOMAIN t : t[i].type = "persist"
      /\ w # NoRoom =>
           /\ w = m.room /\ IsRoom(m, "open") /\ d = NoRoom
           /\ \A i \in DOMAIN t : t[i].waiter = NoRoom
      /\ \A i, j \in DOMAIN t :
           t[i].waiter # NoRoom =>
             t[i].waiter = m.room /\ (t[j].waiter # NoRoom => i = j)
      /\ d # NoRoom => \A i \in DOMAIN t : t[i].waiter = NoRoom
      /\ (\E i \in DOMAIN t : t[i].waiter # NoRoom) => IsRoom(m, "open")
  BY HeadWaits
<1>2. /\ s.room = m.room /\ s.rooms = m.rooms /\ s.queue = t
      /\ \/ s.running = Idle /\ NothingToSave(m)
         \/ IsRoom(m, "loading") /\ s.running = WaitTo("loadToPersist", w)
         \/ /\ IsRoom(m, "open") /\ ~NothingToSave(m)
            /\ s.running = SaveOf(m.rooms[m.room], w)
  BY <1>1, HeadStarts DEF SameRooms
<1>3. TakenDone(m) = IF s.running = Idle THEN w ELSE NoRoom
  BY DEF TakenDone
<1>4. /\ Idle.type = "none" /\ Idle.waiter = NoRoom
      /\ WaitTo("loadToPersist", w).type = "loadToPersist"
      /\ WaitTo("loadToPersist", w).waiter = w
      /\ SaveOf(m.rooms[m.room], w).type = "persist"
      /\ SaveOf(m.rooms[m.room], w).waiter = w
  <2>1. w \in 0..MaxRooms
    BY TakenTyped, TaskFields
  <2> QED BY <2>1, CanRun DEF SaveOf
<1>5. /\ \A r \in DOMAIN m.rooms :
           /\ m.rooms[r].sessions # {} /\ ~m.rooms[r].isClosed => m.room = r
           /\ m.rooms[r].state = "loading" => m.room = r
      /\ d # NoRoom => d = m.room /\ IsRoom(m, "open")
  BY DEF OneRoomOK, OneWaits, IsRoom
<1> HIDE DEF w, s, t
<1>6. d # NoRoom => TakenDone(m) = NoRoom
  BY <1>1, <1>3
<1>7. ~(IsRoom(m, "loading") /\ IsRoom(m, "open"))
  BY DEF IsRoom
<1>8. OneWaits(s, e)
  <2>1. CASE w = NoRoom
    <3>1. e = d /\ s.running.waiter = NoRoom
      BY <1>2, <1>3, <1>4, <2>1
    <3>2. /\ d # NoRoom \/ (\E i \in DOMAIN t : t[i].waiter # NoRoom)
                => m.rooms[m.room].state = "open"
          /\ d # NoRoom => d = m.room
      BY <1>1, <1>5 DEF IsRoom
    <3> QED BY <1>1, <1>2, <3>1, <3>2 DEF OneWaits
  <2>2. CASE w # NoRoom /\ s.running = Idle
    <3>1. e = m.room /\ e # NoRoom /\ m.rooms[m.room].state = "open"
      BY <1>1, <1>3, <2>2 DEF IsRoom
    <3> QED BY <1>1, <1>2, <1>4, <2>2, <3>1 DEF OneWaits
  <2>3. CASE w # NoRoom /\ s.running = SaveOf(m.rooms[m.room], w)
    <3>1. s.running # Idle
      BY <1>4, <2>3
    <3>2. e = NoRoom /\ m.rooms[m.room].state = "open" /\ w = m.room
      BY <1>1, <1>3, <2>3, <3>1 DEF IsRoom
    <3> QED BY <1>1, <1>2, <1>4, <2>3, <3>2 DEF OneWaits
  <2> QED BY <1>1, <1>2, <1>7, <2>1, <2>2, <2>3
<1>9. /\ s.running.type \in {"none", "persist", "loadToPersist"}
      /\ s.running.type = "loadToPersist" =>
           s.room # NoRoom /\ s.rooms[s.room].state = "loading"
  BY <1>2, <1>4 DEF IsRoom
<1>10. OneRoomOK(s, e)
  BY <1>1, <1>2, <1>5, <1>8, <1>9 DEF OneRoomOK
<1> QED BY <1>6, <1>10 DEF s

\* A waiter that goes on closes the one room, or leaves it alone.
LEMMA ContinueOneRoom ==
    ASSUME NEW m, NEW d, MemoryTyped(m, d), OneRoomOK(m, d)
    PROVE  OneRoomOK(Continue(m, d), NoRoom)
<1>1. m \in Memory /\ d \in 0..Len(m.rooms) /\ m.rooms \in Seq(Room)
  BY TypedParts, MemoryFields
<1>2. CASE Continue(m, d) = m
  <2>1. OneRoomOK(m, NoRoom)
    BY DEF OneRoomOK, OneWaits
  <2> QED BY <1>2, <2>1
<1>3. CASE /\ d # NoRoom /\ m.rooms[d].sessions = {}
           /\ Continue(m, d) = Closing(m, d)
  <2> DEFINE n == Closing(m, d)
             room == [m.rooms[d] EXCEPT !.isClosed = TRUE]
  <2>1. d \in 1..Len(m.rooms) /\ d \in DOMAIN m.rooms
    BY <1>1, <1>3 DEF NoRoom
  <2>2. /\ n.queue = m.queue /\ n.room = NoRoom
        /\ n.rooms = [m.rooms EXCEPT ![d] = room]
        /\ n.running = m.running
    BY <1>1, <2>1, ClosingIs
  <2>3. room.state = m.rooms[d].state /\ room.sessions = {}
    <3>1. m.rooms[d] \in Room
      BY <1>1, <2>1
    <3> QED BY <1>3, <3>1, Zenon DEF Room
  <2> HIDE DEF n, room
  <2>4. /\ d = m.room /\ m.running.waiter = NoRoom
        /\ \A i \in DOMAIN m.queue : m.queue[i].waiter = NoRoom
        /\ m.rooms[d].state = "open"
    BY <1>3 DEF OneRoomOK, OneWaits
  <2>5. \A r \in DOMAIN n.rooms : n.rooms[r].sessions = {} \/ n.rooms[r].isClosed
    <3>1. ASSUME NEW r \in DOMAIN m.rooms, r # d
          PROVE  m.rooms[r].sessions = {} \/ m.rooms[r].isClosed
      BY <2>4, <3>1 DEF OneRoomOK
    <3> QED BY <2>1, <2>2, <2>3, <3>1
  <2>6. \A r \in DOMAIN n.rooms : n.rooms[r].state # "loading"
    <3>1. ASSUME NEW r \in DOMAIN m.rooms, r # d
          PROVE  m.rooms[r].state # "loading"
      BY <2>4, <3>1 DEF OneRoomOK
    <3> QED BY <2>1, <2>2, <2>3, <2>4, <3>1
  <2>7. m.running.type # "loadToPersist"
    BY <2>4 DEF OneRoomOK
  <2>8. OneWaits(n, NoRoom)
    BY <2>2, <2>4 DEF OneWaits
  <2>9. OneRoomOK(n, NoRoom)
    <3>1. /\ m.running.type \in {"none", "persist", "loadToPersist"}
          /\ \A i \in DOMAIN m.queue : m.queue[i].type = "persist"
      BY DEF OneRoomOK
    <3> QED BY <2>2, <2>5, <2>6, <2>7, <2>8, <3>1 DEF OneRoomOK
  <2> QED BY <1>3, <2>9 DEF n
<1> QED BY <1>2, <1>3, ContinueIs

\* A save that starts contains all there is to save.
LEMMA StartSaved ==
    ASSUME NEW m, NEW d, NEW b, MemoryTyped(m, d), OneRoomOK(m, d),
           SavedOK(m, d, b), m.running = Idle, m.queue # <<>>,
           NEW e, e = IF d = NoRoom THEN TakenDone(m) ELSE d
    PROVE  SavedOK(StartHead(m), e, b)
<1> DEFINE w == Head(m.queue).waiter
           s == StartHead(m)
           room == m.rooms[m.room]
<1>1. /\ Head(m.queue).type = "persist" /\ w \in 0..MaxRooms
      /\ w # NoRoom => IsRoom(m, "open")
  BY HeadWaits, TakenTyped, TaskFields
<1>2. /\ s.room = m.room /\ s.rooms = m.rooms /\ s.isRestoring = m.isRestoring
      /\ s.lastPersistedClock = m.lastPersistedClock
      /\ \/ s.running = Idle /\ NothingToSave(m)
         \/ IsRoom(m, "loading") /\ s.running = WaitTo("loadToPersist", w)
         \/ /\ IsRoom(m, "open") /\ ~NothingToSave(m)
            /\ s.running = SaveOf(m.rooms[m.room], w)
  BY <1>1, HeadStarts DEF SameRooms
<1>3. TakenDone(m) = IF s.running = Idle THEN w ELSE NoRoom
  BY DEF TakenDone
<1>4. Idle.type = "none" /\ WaitTo("loadToPersist", w).type = "loadToPersist"
  BY <1>1, CanRun
<1>5. /\ d # NoRoom => IsRoom(m, "open")
      /\ ~m.isRestoring /\ m.lastPersistedClock <= b.clock
      /\ \A r \in DOMAIN m.rooms \ {m.room} : m.rooms[r].docs \subseteq b.docs
      /\ m.room # NoRoom =>
           /\ ~room.isClosed
           /\ room.state = "open" =>
                /\ b.docs \subseteq room.docs
                /\ m.lastPersistedClock <= room.documentClock
                /\ m.lastPersistedClock = room.documentClock =>
                     room.docs \subseteq b.docs
           /\ d # NoRoom /\ room.sessions = {} =>
                m.lastPersistedClock = room.documentClock
  BY DEF OneRoomOK, OneWaits, SavedOK, IsRoom
<1>6. IsRoom(m, "open") => room \in Room /\ room.documentClock <= room.clock
  <2>1. m \in Memory /\ m.room \in 0..Len(m.rooms)
        /\ \A r \in DOMAIN m.rooms : RoomTyped(m.rooms[r])
    BY TypedParts
  <2> QED BY <2>1, MemoryFields DEF IsRoom, NoRoom, RoomTyped
<1> HIDE DEF w, s, room
<1>7. e # NoRoom /\ s.room # NoRoom /\ room.sessions = {} =>
        m.lastPersistedClock = room.documentClock /\ s.running.type # "persist"
  <2> SUFFICES ASSUME e # NoRoom, s.room # NoRoom, room.sessions = {}
               PROVE  /\ m.lastPersistedClock = room.documentClock
                      /\ s.running.type # "persist"
    OBVIOUS
  <2>1. IsRoom(m, "open") /\ ~IsRoom(m, "loading")
    BY <1>1, <1>3, <1>5 DEF IsRoom
  <2>2. CASE d # NoRoom
    <3>1. m.lastPersistedClock = room.documentClock
      BY <1>2, <1>5, <2>2
    <3> QED BY <1>2, <1>4, <2>1, <3>1 DEF NothingToSave, IsRoom, room
  <2>3. CASE d = NoRoom
    <3>1. s.running = Idle
      BY <1>3, <2>3
    <3>2. SaveOf(m.rooms[m.room], w).type = "persist"
      BY DEF SaveOf
    <3>3. NothingToSave(m)
      BY <1>2, <1>4, <2>1, <3>1, <3>2
    <3> QED BY <1>4, <1>5, <2>1, <3>1, <3>3 DEF NothingToSave, IsRoom, room
  <2> QED BY <2>2, <2>3
<1>8. SaveIsNew(s, b)
  <2>1. CASE IsRoom(m, "open") /\ s.running = SaveOf(room, w)
    <3>1. /\ s.running.snapshot.docs = room.docs
          /\ s.running.snapshot.clock = room.clock
          /\ s.running.documentClock = room.documentClock
      BY <1>1, <1>6, <2>1, CanRun
    <3>2. room.documentClock \in Int
      BY <1>6, <2>1, RoomFields
    <3>3. /\ m.room # NoRoom /\ room.state = "open" /\ b.docs \subseteq room.docs
          /\ s.rooms[s.room] = room /\ s.room # NoRoom
      BY <1>2, <1>5, <2>1 DEF IsRoom, room
    <3> QED BY <1>6, <2>1, <3>1, <3>2, <3>3 DEF SaveIsNew
  <2>2. CASE s.running.type # "persist"
    BY <2>2 DEF SaveIsNew
  <2> QED BY <1>2, <1>4, <2>1, <2>2 DEF room
<1>9. SavedOK(s, e, b)
  BY <1>2, <1>5, <1>7, <1>8 DEF SavedOK, room
<1> QED BY <1>9 DEF s

\* A room is closed when it is saved.
LEMMA ContinueSaved ==
    ASSUME NEW m, NEW d, NEW b, MemoryTyped(m, d), OneRoomOK(m, d),
           SavedOK(m, d, b)
    PROVE  SavedOK(Continue(m, d), NoRoom, b)
<1>1. m \in Memory /\ d \in 0..Len(m.rooms) /\ m.rooms \in Seq(Room)
  BY TypedParts, MemoryFields
<1>2. CASE Continue(m, d) = m
  <2>1. SavedOK(m, NoRoom, b)
    BY DEF SavedOK
  <2> QED BY <1>2, <2>1
<1>3. CASE /\ d # NoRoom /\ m.rooms[d].sessions = {}
           /\ Continue(m, d) = Closing(m, d)
  <2> DEFINE n == Closing(m, d)
             room == [m.rooms[d] EXCEPT !.isClosed = TRUE]
  <2>1. d \in 1..Len(m.rooms) /\ d \in DOMAIN m.rooms
    BY <1>1, <1>3 DEF NoRoom
  <2>2. /\ n.isRestoring = m.isRestoring /\ n.room = NoRoom
        /\ n.rooms = [m.rooms EXCEPT ![d] = room]
        /\ n.running = m.running
        /\ n.lastPersistedClock = m.lastPersistedClock
    BY <1>1, <2>1, ClosingIs
  <2>3. room.docs = m.rooms[d].docs
    <3>1. m.rooms[d] \in Room
      BY <1>1, <2>1
    <3> QED BY <3>1, Zenon DEF Room
  <2> HIDE DEF n, room
  <2>4. d = m.room /\ m.rooms[d].state = "open"
    BY <1>3 DEF OneRoomOK, OneWaits
  <2>5. /\ m.rooms[d].docs \subseteq b.docs /\ m.running.type # "persist"
        /\ ~m.isRestoring /\ m.lastPersistedClock <= b.clock
        /\ \A r \in DOMAIN m.rooms \ {d} : m.rooms[r].docs \subseteq b.docs
    BY <1>3, <2>4 DEF SavedOK
  <2>6. \A r \in DOMAIN n.rooms : n.rooms[r].docs \subseteq b.docs
    BY <2>1, <2>2, <2>3, <2>5
  <2>7. SavedOK(n, NoRoom, b)
    BY <2>2, <2>5, <2>6 DEF SavedOK, SaveIsNew
  <2> QED BY <1>3, <2>7 DEF n
<1> QED BY <1>2, <1>3, ContinueIs

\* What is not saved when a save is done with was not to be saved.
LEMMA StartPlanned ==
    ASSUME NEW m, NEW d, NEW b, NEW al, MemoryTyped(m, d), OneRoomOK(m, d),
           SavedOK(m, d, b), Planned(m, b, al), m.running = Idle, m.queue # <<>>
    PROVE  Planned(StartHead(m), b, al)
<1> DEFINE w == Head(m.queue).waiter
           s == StartHead(m)
           room == m.rooms[m.room]
<1>1. Head(m.queue).type = "persist" /\ w \in 0..MaxRooms
  BY HeadWaits, TakenTyped, TaskFields
<1>2. /\ s.room = m.room /\ s.rooms = m.rooms
      /\ \/ s.running = Idle /\ NothingToSave(m)
         \/ IsRoom(m, "loading") /\ s.running = WaitTo("loadToPersist", w)
         \/ /\ IsRoom(m, "open") /\ ~NothingToSave(m)
            /\ s.running = SaveOf(m.rooms[m.room], w)
  BY <1>1, HeadStarts DEF SameRooms
<1>3. WaitTo("loadToPersist", w).type = "loadToPersist"
  BY <1>1, CanRun
<1>4. m.room # NoRoom => room \in Room /\ RoomTyped(room)
  <2>1. m \in Memory /\ m.room \in 0..Len(m.rooms)
        /\ \A r \in DOMAIN m.rooms : RoomTyped(m.rooms[r])
    BY TypedParts
  <2> QED BY <2>1, MemoryFields DEF NoRoom
<1>5. /\ ~m.isRestoring
      /\ m.room # NoRoom /\ room.state = "open"
           /\ m.lastPersistedClock = room.documentClock => room.docs \subseteq b.docs
  BY DEF SavedOK
<1> HIDE DEF w, s, room
<1>6. CASE m.room # NoRoom /\ s.running = Idle /\ NothingToSave(m)
  <2>1. room.docs \subseteq b.docs
    BY <1>4, <1>5, <1>6 DEF NothingToSave, RoomTyped, room
  <2> QED BY <1>2, <2>1 DEF Planned, s, room
<1>7. CASE s.running = WaitTo("loadToPersist", w)
  BY <1>3, <1>7 DEF Planned, s
<1>8. CASE m.room # NoRoom /\ s.running = SaveOf(room, w)
  <2>1. s.running.type = "persist" /\ s.running.snapshot.docs = room.docs
    BY <1>1, <1>4, <1>8, CanRun
  <2> QED BY <1>2, <2>1 DEF Planned, s, room
<1>9. CASE m.room = NoRoom
  BY <1>2, <1>9 DEF Planned, s
<1> QED BY <1>2, <1>6, <1>7, <1>8, <1>9 DEF room

\* A waiter that goes on leaves what is planned.
LEMMA ContinuePlanned ==
    ASSUME NEW m, NEW d, NEW b, NEW al, MemoryTyped(m, d), Planned(m, b, al)
    PROVE  Planned(Continue(m, d), b, al)
<1>1. CASE d # NoRoom /\ Continue(m, d) = Closing(m, d)
  <2>1. m \in Memory /\ d \in 1..Len(m.rooms)
    BY <1>1, TypedParts DEF NoRoom
  <2>2. Closing(m, d).room = NoRoom
    BY <2>1, ClosingIs
  <2> QED BY <1>1, <2>2 DEF Planned
<1> QED BY <1>1, ContinueIs

-----------------------------------------------------------------------------
(***************************************************************************)
(* Running tasks keeps a memory right.                                     *)
(***************************************************************************)
\* Neither a task that starts nor a waiter that goes on restores anything.
LEMMA RestoreKept ==
    /\ \A m, d : MemoryTyped(m, d) =>
         /\ Continue(m, d).restore = m.restore
         /\ Continue(m, d).isRestoring = m.isRestoring
    /\ \A m, d : \A task \in Task : MemoryTyped(m, d) =>
         /\ StartTask(m, task).restore = m.restore
         /\ StartTask(m, task).isRestoring = m.isRestoring
<1> DEFINE Same(n, m) == n.restore = m.restore /\ n.isRestoring = m.isRestoring
<1>1. ASSUME NEW m, NEW d, MemoryTyped(m, d)
      PROVE  Same(Continue(m, d), m)
  <2>1. m \in Memory /\ d \in 0..Len(m.rooms)
    BY <1>1, TypedParts
  <2>2. CASE Continue(m, d) = Closing(m, d) /\ d # NoRoom
    <3>1. d \in 1..Len(m.rooms)
      BY <2>1, <2>2 DEF NoRoom
    <3>2. Same(Closing(m, d), m)
      BY <2>1, <3>1, ClosingIs
    <3> HIDE DEF Same
    <3> QED BY <2>2, <3>2
  <2>3. CASE Continue(m, d) = m
    BY <2>3
  <2> HIDE DEF Same
  <2> QED BY <2>2, <2>3, ContinueIs
<1>2. ASSUME NEW m, NEW d, NEW task \in Task, MemoryTyped(m, d)
      PROVE  Same(StartTask(m, task), m)
  <2>1. /\ m \in Memory /\ m.room \in 0..Len(m.rooms)
        /\ task.type \in {"persist", "delete"} /\ task.waiter \in 0..MaxRooms
    BY <1>2, TypedParts, TaskFields
  <2>2. \A type \in {"loadToPersist", "loadToDelete", "delete"} :
          WaitTo(type, task.waiter) \in Running
    BY <2>1, CanRun
  <2>3. IsRoom(m, "open") => m.room \in 1..Len(m.rooms) /\ m.rooms[m.room] \in Room
    BY <2>1, MemoryFields DEF IsRoom, NoRoom
  <2>4. IsRoom(m, "open") => SaveOf(m.rooms[m.room], task.waiter) \in Running
    BY <2>1, <2>3, CanRun
  <2>5. ASSUME NEW x \in Running PROVE Same(WithRunning(m, x), m)
    BY <2>1, RunningIs
  <2>6. IsRoom(m, "open") => Same(CloseRoom(m), m)
    BY <2>1, <2>3, CloseRoomIs
  <2>7. Same(m, m)
    OBVIOUS
  <2> HIDE DEF Same
  <2>8. CASE task.type = "persist"
    BY <2>1, <2>2, <2>4, <2>5, <2>7, <2>8, PersistStarts
  <2>9. CASE task.type = "delete"
    BY <2>1, <2>2, <2>5, <2>6, <2>7, <2>9, DeleteStarts
  <2> QED BY <2>1, <2>8, <2>9
<1> QED BY <1>1, <1>2, Zenon

\* A waiter that goes on.
LEMMA ContinueOK ==
    ASSUME NEW m, NEW d, NEW b, NEW al, NEW w, MemoryOK(m, d, b, al, w)
    PROVE  MemoryOK(Continue(m, d), NoRoom, b, al, w)
<1> DEFINE n == Continue(m, d)
<1>1. MemoryTyped(m, d)
  BY DEF MemoryOK
<1>2. /\ MemoryTyped(n, NoRoom) /\ n.deleted = m.deleted
      /\ n.restore = m.restore /\ n.isRestoring = m.isRestoring
  BY <1>1, ContinueTyped, RestoreKept
<1>3. OneRoomOK(m, d) => OneRoomOK(n, NoRoom)
  BY <1>1, ContinueOneRoom
<1>4. OneRoomOK(m, d) /\ SavedOK(m, d, b) => SavedOK(n, NoRoom, b)
  BY <1>1, ContinueSaved
<1>5. Planned(m, b, al) => Planned(n, b, al)
  BY <1>1, ContinuePlanned
<1> HIDE DEF n
<1>6. MemoryOK(n, NoRoom, b, al, w)
  BY <1>2, <1>3, <1>4, <1>5 DEF MemoryOK
<1> QED BY <1>6 DEF n

\* A task that is taken from the queue.
LEMMA TakenOK ==
    ASSUME NEW m, NEW d, NEW b, NEW al, NEW w, MemoryOK(m, d, b, al, w),
           m.running = Idle, m.queue # <<>>
    PROVE  MemoryOK(Taken(m, d), TakenDone(m), b, al, w)
<1> DEFINE s == StartHead(m)
           t == Taken(m, d)
           done == TakenDone(m)
           e == IF d = NoRoom THEN done ELSE d
<1>1. MemoryTyped(m, d)
  BY DEF MemoryOK
<1>2. /\ MemoryTyped(s, d) /\ MemoryTyped(t, done)
      /\ s.deleted = m.deleted /\ t.deleted = m.deleted
      /\ t = Continue(s, d) /\ Len(s.rooms) = Len(m.rooms)
      /\ Head(m.queue) \in Task /\ Head(m.queue).waiter \in 0..Len(m.rooms)
  BY <1>1, TakenTyped DEF Taken
<1>3. s.restore = m.restore /\ s.isRestoring = m.isRestoring
  <2>1. /\ MemoryTyped(WithQueue(m, Tail(m.queue)), d)
        /\ WithQueue(m, Tail(m.queue)).restore = m.restore
        /\ WithQueue(m, Tail(m.queue)).isRestoring = m.isRestoring
    BY <1>1, TakenTyped, TypedParts, QueueIs
  <2> QED BY <1>2, <2>1, RestoreKept DEF StartHead
<1>4. t.restore = m.restore /\ t.isRestoring = m.isRestoring
  <2>1. MemoryTyped(s, d) => /\ Continue(s, d).restore = s.restore
                             /\ Continue(s, d).isRestoring = s.isRestoring
    BY RestoreKept, Zenon
  <2>2. MemoryTyped(s, d) /\ t = Continue(s, d)
    BY <1>2
  <2> HIDE DEF s, t
  <2> QED BY <1>3, <2>1, <2>2, Zenon
<1>5. MemoryTyped(s, e)
  <2>1. NoRoom \in 0..Len(m.rooms) /\ d \in 0..Len(m.rooms)
    BY <1>1, TypedParts, MemoryFields DEF NoRoom
  <2>2. done \in 0..Len(m.rooms)
    BY <1>2, <2>1 DEF TakenDone
  <2>3. e \in 0..Len(s.rooms)
    BY <1>2, <2>1, <2>2
  <2> HIDE DEF s, e
  <2> QED BY <1>2, <2>3, DoneTyped
<1>6. ASSUME OneRoomOK(m, d) PROVE OneRoomOK(s, e) /\ (d # NoRoom => done = NoRoom)
  BY <1>1, <1>6, StartOneRoom
<1>7. ASSUME OneRoomOK(m, d), SavedOK(m, d, b) PROVE SavedOK(s, e, b)
  BY <1>1, <1>7, StartSaved
<1>8. ASSUME OneRoomOK(m, d), SavedOK(m, d, b), Planned(m, b, al)
      PROVE  Planned(s, b, al)
  BY <1>1, <1>8, StartPlanned
<1>9. CASE d = NoRoom
  <2>1. t = s /\ e = done
    BY <1>2, <1>9, ContinueIs
  <2> HIDE DEF t, s, e, done
  <2>2. MemoryOK(t, done, b, al, w)
    BY <1>2, <1>4, <1>6, <1>7, <1>8, <2>1 DEF MemoryOK
  <2> QED BY <2>2 DEF t, done
<1>10. CASE d # NoRoom
  <2>1. e = d
    BY <1>10
  <2>2. OneRoomOK(s, d) => OneRoomOK(t, NoRoom)
    BY <1>2, ContinueOneRoom
  <2>3. OneRoomOK(s, d) /\ SavedOK(s, d, b) => SavedOK(t, NoRoom, b)
    BY <1>2, ContinueSaved
  <2>4. Planned(s, b, al) => Planned(t, b, al)
    BY <1>2, ContinuePlanned
  <2> HIDE DEF t, s, e, done
  <2>5. MemoryOK(t, done, b, al, w)
    BY <1>2, <1>4, <1>6, <1>7, <1>8, <1>10, <2>1, <2>2, <2>3, <2>4 DEF MemoryOK
  <2> QED BY <2>5 DEF t, done
<1> QED BY <1>9, <1>10

\* Tasks that run.
LEMMA RunTasksOK ==
    ASSUME NEW m, NEW d, NEW b, NEW al, NEW w, MemoryOK(m, d, b, al, w),
           m.running = Idle
    PROVE  MemoryOK(RunTasks(m, d), NoRoom, b, al, w)
<1> DEFINE U == {x \in Memory \X (0..MaxRooms) : MemoryOK(x[1], x[2], b, al, w)}
<1>1. ASSUME NEW n, NEW e, MemoryOK(n, e, b, al, w)
      PROVE  /\ n \in Memory /\ e \in 0..MaxRooms
             /\ n.room \in 0..Len(n.rooms) /\ e \in 0..Len(n.rooms)
  <2>1. /\ n \in Memory /\ n.room \in 0..Len(n.rooms) /\ e \in 0..Len(n.rooms)
        /\ Len(n.rooms) <= MaxRooms
    BY <1>1, TypedParts DEF MemoryOK
  <2>2. Len(n.rooms) \in Nat /\ MaxRooms \in Nat
    BY <2>1, MemoryFields, DurableObjectAssumption
  <2> QED BY <2>1, <2>2
<1>2. ASSUME NEW n, NEW e, MemoryOK(n, e, b, al, w) PROVE <<n, e>> \in U
  BY <1>1, <1>2
<1>3. ASSUME NEW x \in U
      PROVE  /\ x[1].room \in 0..Len(x[1].rooms) /\ x[2] \in 0..Len(x[1].rooms)
             /\ x[1].running = Idle /\ x[1].queue # <<>> =>
                  <<Taken(x[1], x[2]), TakenDone(x[1])>> \in U
  <2>1. MemoryOK(x[1], x[2], b, al, w)
    OBVIOUS
  <2> DEFINE n == x[1]
             e == x[2]
  <2> HIDE DEF U
  <2>2. MemoryOK(n, e, b, al, w)
    BY <2>1
  <2> HIDE DEF n, e
  <2>3. n.room \in 0..Len(n.rooms) /\ e \in 0..Len(n.rooms)
    BY <1>1, <2>2
  <2>4. n.running = Idle /\ n.queue # <<>> =>
          MemoryOK(Taken(n, e), TakenDone(n), b, al, w)
    BY <2>2, TakenOK
  <2>5. n.running = Idle /\ n.queue # <<>> => <<Taken(n, e), TakenDone(n)>> \in U
    BY <1>2, <2>4
  <2> QED BY <2>3, <2>5 DEF n, e
<1>4. ClosedUnderTaking(U)
  <2>1. U \subseteq Memory \X (0..MaxRooms)
    OBVIOUS
  <2> HIDE DEF U
  <2> QED BY <1>3, <2>1 DEF ClosedUnderTaking
<1>5. <<m, d>> \in U
  BY <1>2
<1>6. \A x \in U : MemoryOK(x[1], x[2], b, al, w)
  OBVIOUS
<1> HIDE DEF U
<1>7. PICK x \in U : RunTasks(m, d) = Continue(x[1], x[2])
  BY <1>4, <1>5, RunTasksKeeps
<1>8. MemoryOK(x[1], x[2], b, al, w)
  BY <1>6
<1> QED BY <1>7, <1>8, ContinueOK

-----------------------------------------------------------------------------
(***************************************************************************)
(* Pushing a task, and changing a room.                                    *)
(***************************************************************************)
\* The task that is pushed.
Pushed(m, task) == WithQueue(m, Append(m.queue, task))

\* A task is run at once if nothing runs.
LEMMA PushOK ==
    ASSUME NEW m, NEW type, NEW waiter, NEW b, NEW al, NEW w,
           MemoryOK(Pushed(m, [type |-> type, waiter |-> waiter]), NoRoom, b, al, w),
           m \in Memory, [type |-> type, waiter |-> waiter] \in Task
    PROVE  MemoryOK(Push(m, type, waiter), NoRoom, b, al, w)
<1> DEFINE task == [type |-> type, waiter |-> waiter]
           n == Pushed(m, task)
<1>1. n.running = m.running
  <2>1. Append(m.queue, task) \in Seq(Task)
    BY MemoryFields
  <2> QED BY <2>1, QueueIs DEF Pushed
<1>2. Push(m, type, waiter) = IF m.running = Idle THEN RunTasks(n, NoRoom) ELSE n
  BY DEF Push, Pushed, WithQueue
<1>3. MemoryOK(n, NoRoom, b, al, w)
  OBVIOUS
<1> HIDE DEF n
<1>4. n.running = Idle => MemoryOK(RunTasks(n, NoRoom), NoRoom, b, al, w)
  BY <1>3, RunTasksOK
<1> QED BY <1>1, <1>2, <1>3, <1>4

\* The waiters of the tasks in the queue, when one more is pushed.
LEMMA PushedWaits ==
    ASSUME NEW q \in Seq(Task), NEW task \in Task
    PROVE  /\ Append(q, task) \in Seq(Task)
           /\ \A P : (\A i \in DOMAIN q : q[i].waiter \in P) /\ task.waiter \in P =>
                \A i \in DOMAIN Append(q, task) : Append(q, task)[i].waiter \in P
           /\ \A P : (\A i \in DOMAIN q : q[i].type \in P) /\ task.type \in P =>
                \A i \in DOMAIN Append(q, task) : Append(q, task)[i].type \in P
           /\ \A i \in DOMAIN Append(q, task) :
                \/ i \in DOMAIN q /\ Append(q, task)[i] = q[i]
                \/ i = Len(q) + 1 /\ Append(q, task)[i] = task
           /\ Len(q) + 1 \in DOMAIN Append(q, task)
           /\ Append(q, task)[Len(q) + 1] = task
OBVIOUS

\* A save that is pushed: it is awaited only for the one room, and only once.
LEMMA SavePushed ==
    ASSUME NEW m, NEW b, NEW al, NEW before, NEW w,
           MemoryOK(m, NoRoom, b, before, w),
           NEW waiter \in 0..Len(m.rooms),
           waiter # NoRoom /\ w # "hasty" /\ ~m.deleted =>
             /\ waiter = m.room /\ m.rooms[m.room].state = "open"
             /\ m.running.waiter = NoRoom
             /\ \A i \in DOMAIN m.queue : m.queue[i].waiter = NoRoom
    PROVE  MemoryOK(Push(m, "persist", waiter), NoRoom, b, al, w)
<1> DEFINE task == [type |-> "persist", waiter |-> waiter]
           q == m.queue
           longer == Append(q, task)
           n == Pushed(m, task)
<1>1. /\ MemoryTyped(m, NoRoom) /\ m \in Memory /\ q \in Seq(Task)
      /\ QueueTyped(q, Len(m.rooms)) /\ waiter \in 0..MaxRooms
  <2>1. MemoryTyped(m, NoRoom)
    BY DEF MemoryOK
  <2>2. /\ m \in Memory /\ QueueTyped(q, Len(m.rooms)) /\ Len(m.rooms) <= MaxRooms
    BY <2>1, TypedParts
  <2>3. Len(m.rooms) \in Nat /\ MaxRooms \in Nat
    BY <2>2, MemoryFields, DurableObjectAssumption
  <2> QED BY <2>1, <2>2, <2>3 DEF QueueTyped
<1>2. task \in Task /\ task.type = "persist" /\ task.waiter = waiter
  BY <1>1 DEF Task
<1>3. /\ longer \in Seq(Task)
      /\ \A i \in DOMAIN longer : \/ i \in DOMAIN q /\ longer[i] = q[i]
                                  \/ i = Len(q) + 1 /\ longer[i] = task
      /\ Len(q) + 1 \in DOMAIN longer /\ longer[Len(q) + 1] = task
  <2> HIDE DEF q, task
  <2> QED BY <1>1, <1>2, PushedWaits
<1> HIDE DEF task, longer
<1>4. QueueTyped(longer, Len(m.rooms))
  BY <1>1, <1>2, <1>3 DEF QueueTyped
<1>5. /\ n = WithQueue(m, longer) /\ n.queue = longer /\ n.room = m.room
      /\ n.rooms = m.rooms /\ n.running = m.running
      /\ n.lastPersistedClock = m.lastPersistedClock
      /\ n.deleted = m.deleted /\ n.isRestoring = m.isRestoring
      /\ n.restore = m.restore
  BY <1>1, <1>3, QueueIs DEF Pushed, longer
<1>6. MemoryTyped(n, NoRoom)
  BY <1>1, <1>4, <1>5, WithQueueTyped
<1> HIDE DEF n, q
<1>7. ASSUME w # "hasty" /\ ~m.deleted, OneRoomOK(m, NoRoom)
      PROVE  OneRoomOK(n, NoRoom)
  <2>1. \A i \in DOMAIN longer : longer[i].type = "persist"
    BY <1>2, <1>3, <1>7 DEF OneRoomOK, q
  <2>2. OneWaits(m, NoRoom)
    BY <1>7 DEF OneRoomOK
  <2>3. OneWaits(n, NoRoom)
    <3>1. CASE waiter = NoRoom
      BY <1>2, <1>3, <1>5, <2>2, <3>1 DEF OneWaits, q
    <3>2. CASE waiter # NoRoom
      <4>1. /\ waiter = m.room /\ m.rooms[m.room].state = "open"
            /\ m.running.waiter = NoRoom
            /\ \A i \in DOMAIN q : q[i].waiter = NoRoom
        BY <1>7, <3>2 DEF q
      <4> QED BY <1>2, <1>3, <1>5, <4>1 DEF OneWaits
    <3> QED BY <3>1, <3>2
  <2> QED BY <1>5, <1>7, <2>1, <2>3 DEF OneRoomOK
<1>8. SavedOK(m, NoRoom, b) => SavedOK(n, NoRoom, b)
  BY <1>5 DEF SavedOK, SaveIsNew
<1>9. Planned(n, b, al)
  BY <1>2, <1>3, <1>5 DEF Planned
<1>10. MemoryOK(n, NoRoom, b, al, w)
  BY <1>5, <1>6, <1>7, <1>8, <1>9 DEF MemoryOK
<1> QED BY <1>1, <1>2, <1>10, PushOK DEF n, task

\* Another room in a place.
WithRoom(m, r, room) == [m EXCEPT !.rooms[r] = room]

\* That changes nothing else.
LEMMA WithRoomIs ==
    ASSUME NEW m \in Memory, NEW r \in 1..Len(m.rooms), NEW room \in Room
    PROVE  /\ WithRoom(m, r, room) \in Memory
           /\ WithRoom(m, r, room).rooms = [m.rooms EXCEPT ![r] = room]
           /\ Len(WithRoom(m, r, room).rooms) = Len(m.rooms)
           /\ WithRoom(m, r, room).rooms[r] = room
           /\ \A x \in 1..Len(m.rooms) : x # r =>
                WithRoom(m, r, room).rooms[x] = m.rooms[x]
           /\ WithRoom(m, r, room).room = m.room
           /\ WithRoom(m, r, room).lastPersistedClock = m.lastPersistedClock
           /\ WithRoom(m, r, room).running = m.running
           /\ WithRoom(m, r, room).queue = m.queue
           /\ WithRoom(m, r, room).throttled = m.throttled
           /\ WithRoom(m, r, room).deleted = m.deleted
           /\ WithRoom(m, r, room).isRestoring = m.isRestoring
           /\ WithRoom(m, r, room).restore = m.restore
           /\ WithRoom(m, r, room).restored = m.restored
           /\ WithRoom(m, r, room).restoreRoom = m.restoreRoom
<1> DEFINE rooms == [m.rooms EXCEPT ![r] = room]
<1>1. m.rooms \in Seq(Room)
  BY MemoryFields
<1>2. /\ rooms \in Seq(Room) /\ Len(rooms) = Len(m.rooms)
      /\ rooms[r] = room
      /\ \A x \in 1..Len(m.rooms) : x # r => rooms[x] = m.rooms[x]
  BY <1>1
<1>3. WithRoom(m, r, room) = [m EXCEPT !.rooms = rooms]
  BY DEF WithRoom, Memory
<1> HIDE DEF rooms
<1>4. LET n == [m EXCEPT !.rooms = rooms]
      IN  /\ n \in Memory /\ n.room = m.room /\ n.rooms = rooms
          /\ n.lastPersistedClock = m.lastPersistedClock
          /\ n.running = m.running /\ n.queue = m.queue
          /\ n.throttled = m.throttled
          /\ n.deleted = m.deleted /\ n.isRestoring = m.isRestoring
          /\ n.restore = m.restore /\ n.restored = m.restored
          /\ n.restoreRoom = m.restoreRoom
  BY <1>2, Zenon DEF Memory
<1> QED BY <1>2, <1>3, <1>4 DEF rooms

\* It is typed if the room is.
LEMMA WithRoomTyped ==
    ASSUME NEW m, NEW d, MemoryTyped(m, d), NEW r \in 1..Len(m.rooms),
           NEW room \in Room, RoomTyped(room)
    PROVE  MemoryTyped(WithRoom(m, r, room), d)
<1> DEFINE n == WithRoom(m, r, room)
<1>1. m \in Memory
  BY TypedParts
<1>2. /\ n \in Memory
      /\ Len(n.rooms) = Len(m.rooms)
      /\ n.queue = m.queue /\ n.room = m.room /\ n.running = m.running
      /\ n.restore = m.restore
      /\ n.restored = m.restored /\ n.restoreRoom = m.restoreRoom
  BY <1>1, WithRoomIs
<1>6. /\ n.rooms[r] = room
      /\ \A x \in 1..Len(m.rooms) : x # r => n.rooms[x] = m.rooms[x]
  BY <1>1, WithRoomIs
<1>3. \A x \in DOMAIN m.rooms : RoomTyped(m.rooms[x])
  BY TypedParts
<1> HIDE DEF n
<1>4. \A x \in DOMAIN n.rooms : RoomTyped(n.rooms[x])
  <2>1. DOMAIN n.rooms = 1..Len(m.rooms) /\ DOMAIN m.rooms = 1..Len(m.rooms)
    BY <1>1, <1>2, MemoryFields
  <2> QED BY <1>3, <1>6, <2>1
<1>5. MemoryTyped(n, d)
  BY <1>2, <1>4, TypedParts
<1> QED BY <1>5 DEF n

\* The rooms of a typed memory.
LEMMA TypedRooms ==
    ASSUME NEW m, NEW d, MemoryTyped(m, d)
    PROVE  /\ m \in Memory /\ Len(m.rooms) \in Nat /\ Len(m.rooms) <= MaxRooms
           /\ DOMAIN m.rooms = 1..Len(m.rooms) /\ NoRoom \in 0..Len(m.rooms)
           /\ NoRoom \notin 1..Len(m.rooms)
           /\ m.room \in 0..Len(m.rooms)
           /\ m.room # NoRoom => m.room \in 1..Len(m.rooms)
           /\ \A r \in 1..Len(m.rooms) : m.rooms[r] \in Room /\ RoomTyped(m.rooms[r])
<1>1. /\ m \in Memory /\ \A r \in DOMAIN m.rooms : RoomTyped(m.rooms[r])
      /\ m.room \in 0..Len(m.rooms) /\ Len(m.rooms) <= MaxRooms
  BY TypedParts
<1>2. m.rooms \in Seq(Room)
  BY <1>1, MemoryFields
<1> QED BY <1>1, <1>2 DEF NoRoom

\* A room that changes leaves the one room the one room.
LEMMA RoomChangesOne ==
    ASSUME NEW m, MemoryTyped(m, NoRoom), OneRoomOK(m, NoRoom),
           NEW r \in 1..Len(m.rooms), NEW room \in Room,
           room.state = m.rooms[r].state,
           room.sessions # {} /\ ~room.isClosed => m.room = r
    PROVE  OneRoomOK(WithRoom(m, r, room), NoRoom)
<1> DEFINE n == WithRoom(m, r, room)
<1>1. /\ m \in Memory /\ DOMAIN m.rooms = 1..Len(m.rooms)
      /\ m.room # NoRoom => m.room \in 1..Len(m.rooms)
  BY TypedRooms
<1>2. /\ n.rooms[r] = room /\ Len(n.rooms) = Len(m.rooms) /\ n \in Memory
      /\ \A x \in 1..Len(m.rooms) : x # r => n.rooms[x] = m.rooms[x]
      /\ n.queue = m.queue /\ n.room = m.room /\ n.running = m.running
  <2>1. /\ n.rooms[r] = room
        /\ \A x \in 1..Len(m.rooms) : x # r => n.rooms[x] = m.rooms[x]
    BY <1>1, WithRoomIs
  <2>2. /\ Len(n.rooms) = Len(m.rooms) /\ n \in Memory
        /\ n.queue = m.queue /\ n.room = m.room /\ n.running = m.running
    BY <1>1, WithRoomIs
  <2> QED BY <2>1, <2>2
<1>3. DOMAIN n.rooms = 1..Len(m.rooms)
  BY <1>2, MemoryFields
<1> HIDE DEF n
<1>4. \A x \in 1..Len(m.rooms) : n.rooms[x].state = m.rooms[x].state
  BY <1>2
<1>5. OneWaits(n, NoRoom)
  <2>1. OneWaits(m, NoRoom)
    BY DEF OneRoomOK
  <2>2. (\E i \in DOMAIN m.queue : m.queue[i].waiter # NoRoom)
          \/ m.running.waiter # NoRoom => n.rooms[n.room].state = "open"
    <3> SUFFICES ASSUME (\E i \in DOMAIN m.queue : m.queue[i].waiter # NoRoom)
                          \/ m.running.waiter # NoRoom
                 PROVE  n.rooms[n.room].state = "open"
      OBVIOUS
    <3>1. m.rooms[m.room].state = "open"
      BY <2>1 DEF OneWaits
    <3>2. m.room # NoRoom
      BY <2>1 DEF OneWaits
    <3> QED BY <1>1, <1>2, <1>4, <3>1, <3>2
  <2> QED BY <1>2, <2>1, <2>2 DEF OneWaits
<1>6. \A x \in DOMAIN n.rooms :
         /\ n.rooms[x].sessions # {} /\ ~n.rooms[x].isClosed => n.room = x
         /\ n.rooms[x].state = "loading" => n.room = x
  BY <1>1, <1>2, <1>3, <1>4 DEF OneRoomOK
<1>7. /\ n.running.type \in {"none", "persist", "loadToPersist"}
      /\ n.running.type = "loadToPersist" =>
           n.room # NoRoom /\ n.rooms[n.room].state = "loading"
      /\ \A i \in DOMAIN n.queue : n.queue[i].type = "persist"
  BY <1>1, <1>2, <1>4 DEF OneRoomOK
<1>8. OneRoomOK(n, NoRoom)
  BY <1>5, <1>6, <1>7 DEF OneRoomOK
<1> QED BY <1>8 DEF n

\* A change of the one room: its document grows with its clock, and nobody
\* leaves it while somebody waits for a save.
Grows(old, room, waiter) ==
    /\ old.state = "open" /\ room.state = "open" /\ ~room.isClosed
    /\ old.docs \subseteq room.docs /\ old.documentClock <= room.documentClock
    /\ old.documentClock = room.documentClock => room.docs = old.docs
    /\ waiter # NoRoom /\ room.sessions = {} =>
         old.sessions = {} /\ old.documentClock = room.documentClock

\* That leaves everything saved that was.
LEMMA RoomChangesSaved ==
    ASSUME NEW m, MemoryTyped(m, NoRoom), NEW b, SavedOK(m, NoRoom, b),
           NEW r \in 1..Len(m.rooms), r = m.room, NEW room \in Room,
           NEW old, old = m.rooms[r], Grows(old, room, m.running.waiter)
    PROVE  SavedOK(WithRoom(m, r, room), NoRoom, b)
<1> DEFINE n == WithRoom(m, r, room)
<1>1. /\ m \in Memory /\ DOMAIN m.rooms = 1..Len(m.rooms) /\ old \in Room
      /\ m.room # NoRoom
  BY TypedRooms
<1>2. /\ n.rooms[r] = room /\ Len(n.rooms) = Len(m.rooms) /\ n \in Memory
      /\ \A x \in 1..Len(m.rooms) : x # r => n.rooms[x] = m.rooms[x]
      /\ n.room = m.room /\ n.running = m.running
      /\ n.isRestoring = m.isRestoring
      /\ n.lastPersistedClock = m.lastPersistedClock
  <2>0. m \in Memory
    BY <1>1
  <2>1. /\ n.rooms[r] = room
        /\ \A x \in 1..Len(m.rooms) : x # r => n.rooms[x] = m.rooms[x]
    BY <2>0, WithRoomIs
  <2>2. /\ Len(n.rooms) = Len(m.rooms) /\ n \in Memory
        /\ n.room = m.room /\ n.running = m.running
        /\ n.isRestoring = m.isRestoring
        /\ n.lastPersistedClock = m.lastPersistedClock
    BY <2>0, WithRoomIs
  <2> HIDE DEF n
  <2> QED BY <2>1, <2>2
<1>3. DOMAIN n.rooms = 1..Len(m.rooms)
  BY <1>2, MemoryFields
<1> HIDE DEF n
<1>0. /\ old.state = "open" /\ room.state = "open" /\ ~room.isClosed
      /\ old.docs \subseteq room.docs
      /\ old.documentClock <= room.documentClock
      /\ old.documentClock = room.documentClock => room.docs = old.docs
      /\ m.running.waiter # NoRoom /\ room.sessions = {} =>
           old.sessions = {} /\ old.documentClock = room.documentClock
  BY DEF Grows
<1>4. /\ old.documentClock \in Int /\ room.documentClock \in Int
      /\ m.lastPersistedClock \in Int
      /\ m.running.documentClock \in Int
  BY <1>1, RoomFields, MemoryFields, TaskFields
<1>5. /\ ~m.isRestoring /\ m.lastPersistedClock <= b.clock
      /\ \A x \in DOMAIN m.rooms \ {m.room} : m.rooms[x].docs \subseteq b.docs
      /\ b.docs \subseteq old.docs
      /\ m.lastPersistedClock <= old.documentClock
      /\ m.lastPersistedClock = old.documentClock => old.docs \subseteq b.docs
  BY <1>0, <1>1 DEF SavedOK
<1>6. /\ b.docs \subseteq room.docs
      /\ m.lastPersistedClock <= room.documentClock
      /\ m.lastPersistedClock = room.documentClock => room.docs \subseteq b.docs
  BY <1>0, <1>4, <1>5
<1>7. SaveIsNew(n, b)
  <2> SUFFICES ASSUME m.running.type = "persist" PROVE SaveIsNew(n, b)
    BY <1>2 DEF SaveIsNew
  <2> DEFINE saved == m.running.snapshot
             at == m.running.documentClock
  <2>1. /\ b.docs \subseteq saved.docs /\ saved.docs \subseteq old.docs
        /\ at <= saved.clock /\ at <= old.documentClock
        /\ at = old.documentClock => old.docs \subseteq saved.docs
        /\ m.running.waiter # NoRoom /\ old.sessions = {} =>
             at = old.documentClock
    BY DEF SavedOK, SaveIsNew
  <2> HIDE DEF saved, at
  <2>2. /\ b.docs \subseteq saved.docs /\ saved.docs \subseteq room.docs
        /\ at <= saved.clock
        /\ m.running.waiter # NoRoom /\ room.sessions = {} =>
             at = room.documentClock
    BY <1>0, <2>1
  <2>3. /\ at <= room.documentClock
        /\ at = room.documentClock => room.docs \subseteq saved.docs
    BY <1>0, <1>4, <2>1 DEF at
  <2> QED BY <1>0, <1>1, <1>2, <2>2, <2>3 DEF SaveIsNew, saved, at
<1>8. \A x \in DOMAIN n.rooms \ {n.room} : n.rooms[x].docs \subseteq b.docs
  BY <1>1, <1>2, <1>3, <1>5
<1>9. SavedOK(n, NoRoom, b)
  BY <1>0, <1>2, <1>5, <1>6, <1>7, <1>8 DEF SavedOK
<1> QED BY <1>9 DEF n

-----------------------------------------------------------------------------
(***************************************************************************)
(* A room that has loaded, and the task that waited for it.                *)
(***************************************************************************)
\* The task that waited for the room, back at the head of the queue.
TaskOf(m) == [type |-> IF m.running.type = "loadToPersist" THEN "persist" ELSE "delete",
              waiter |-> m.running.waiter]

Requeued(m) == WithQueue(WithRunning(m, Idle), <<TaskOf(m)>> \o m.queue)

\* What is in the memory with the task in the queue.
LEMMA RequeuedIs ==
    ASSUME NEW m \in Memory, m.running.waiter \in 0..Len(m.rooms)
    PROVE  /\ TaskOf(m) \in Task /\ Requeued(m) \in Memory
           /\ Requeued(m).queue = <<TaskOf(m)>> \o m.queue
           /\ Requeued(m).queue \in Seq(Task) /\ Requeued(m).queue # <<>>
           /\ Head(Requeued(m).queue) = TaskOf(m)
           /\ WithQueue(Requeued(m), Tail(Requeued(m).queue)) = WithRunning(m, Idle)
           /\ Requeued(m).running = Idle
           /\ Requeued(m).room = m.room /\ Requeued(m).rooms = m.rooms
           /\ Requeued(m).lastPersistedClock = m.lastPersistedClock
           /\ Requeued(m).throttled = m.throttled
           /\ Requeued(m).deleted = m.deleted
           /\ Requeued(m).isRestoring = m.isRestoring
           /\ Requeued(m).restore = m.restore
           /\ Requeued(m).restored = m.restored
           /\ Requeued(m).restoreRoom = m.restoreRoom
<1> DEFINE q == m.queue
           t == TaskOf(m)
           longer == <<t>> \o q
           idle == WithRunning(m, Idle)
<1>1. q \in Seq(Task) /\ m.running \in Running /\ Idle \in Running
  BY MemoryFields, CanRun
<1>2. t \in Task
  BY <1>1, TaskFields DEF TaskOf, Task
<1>3. /\ longer \in Seq(Task) /\ longer # <<>> /\ Head(longer) = t
      /\ Tail(longer) = q
  <2> HIDE DEF q, t
  <2> QED BY <1>1, <1>2
<1>4. /\ idle \in Memory /\ idle.running = Idle /\ idle.queue = q
      /\ idle.room = m.room /\ idle.rooms = m.rooms
      /\ idle.lastPersistedClock = m.lastPersistedClock
      /\ idle.throttled = m.throttled /\ idle.deleted = m.deleted
      /\ idle.isRestoring = m.isRestoring /\ idle.restore = m.restore
      /\ idle.restored = m.restored /\ idle.restoreRoom = m.restoreRoom
  BY <1>1, RunningIs
<1> HIDE DEF longer, idle, q, t
<1> DEFINE n == WithQueue(idle, longer)
<1>5. /\ n \in Memory /\ n.running = Idle /\ n.queue = longer
      /\ n.room = m.room /\ n.rooms = m.rooms
      /\ n.lastPersistedClock = m.lastPersistedClock
      /\ n.throttled = m.throttled /\ n.deleted = m.deleted
      /\ n.isRestoring = m.isRestoring /\ n.restore = m.restore
      /\ n.restored = m.restored /\ n.restoreRoom = m.restoreRoom
  BY <1>3, <1>4, QueueIs
<1>6. WithQueue(n, Tail(longer)) = idle
  <2>1. WithQueue(n, q) = WithQueue(idle, q)
    BY <1>1, <1>3, <1>4, QueueTwice
  <2>2. WithQueue(idle, idle.queue) = idle
    BY <1>4, QueueTwice
  <2> HIDE DEF n
  <2> QED BY <1>3, <1>4, <2>1, <2>2
<1> HIDE DEF n
<1>7. n = Requeued(m)
  BY DEF n, Requeued, idle, longer, t, q
<1> QED BY <1>2, <1>3, <1>5, <1>6, <1>7 DEF idle, longer, t, q

\* It goes on as if it were taken from the queue.
LEMMA TaskGoesOnOK ==
    ASSUME NEW m \in Memory, NEW b, NEW al, NEW w,
           m.running.waiter \in 0..Len(m.rooms),
           IF m.running.type \in {"loadToPersist", "loadToDelete"}
             THEN MemoryOK(Requeued(m), NoRoom, b, al, w)
             ELSE MemoryOK(m, NoRoom, b, al, w)
    PROVE  MemoryOK(TaskGoesOn(m), NoRoom, b, al, w)
<1>1. CASE m.running.type \notin {"loadToPersist", "loadToDelete"}
  BY <1>1 DEF TaskGoesOn
<1>2. CASE m.running.type \in {"loadToPersist", "loadToDelete"}
  <2> DEFINE n == Requeued(m)
             started == StartTask(WithRunning(m, Idle), TaskOf(m))
  <2>1. /\ n.running = Idle /\ n.queue # <<>> /\ Head(n.queue) = TaskOf(m)
        /\ WithQueue(n, Tail(n.queue)) = WithRunning(m, Idle)
    BY RequeuedIs
  <2>2. StartHead(n) = started
    BY <2>1 DEF StartHead
  <2>3. Taken(n, NoRoom) = started
    BY <2>2, ContinueIs DEF Taken
  <2>4. TakenDone(n) = IF started.running = Idle THEN m.running.waiter ELSE NoRoom
    <3>1. TaskOf(m).waiter = m.running.waiter
      BY DEF TaskOf
    <3> QED BY <2>1, <2>2, <3>1 DEF TakenDone
  <2>5. TaskGoesOn(m) = IF started.running = Idle
                          THEN RunTasks(started, m.running.waiter) ELSE started
    BY <1>2 DEF TaskGoesOn, TaskOf, WithRunning
  <2>6. MemoryOK(n, NoRoom, b, al, w)
    BY <1>2
  <2> HIDE DEF n, started
  <2>7. MemoryOK(Taken(n, NoRoom), TakenDone(n), b, al, w)
    BY <2>1, <2>6, TakenOK
  <2>8. CASE started.running = Idle
    BY <2>3, <2>4, <2>5, <2>7, <2>8, RunTasksOK
  <2>9. CASE started.running # Idle
    BY <2>3, <2>4, <2>5, <2>7, <2>9
  <2> QED BY <2>8, <2>9
<1> QED BY <1>1, <1>2

\* What a room is that was loading when the file was b: open with what is in the
\* file, or failed.
Loaded(old, room, b) ==
    /\ room.state # "loading" /\ room.isClosed = old.isClosed
    /\ room.docs \subseteq b.docs
    /\ room.state = "open" => b.docs \subseteq room.docs /\ room.documentClock = b.clock

\* A task before others.
LEMMA TaskBefore ==
    ASSUME NEW q \in Seq(Task), NEW task \in Task
    PROVE  /\ <<task>> \o q \in Seq(Task)
           /\ \A i \in DOMAIN (<<task>> \o q) :
                \/ (<<task>> \o q)[i] = task
                \/ i - 1 \in DOMAIN q /\ (<<task>> \o q)[i] = q[i - 1]
OBVIOUS

\* A room has loaded: it goes on, as does the task that waited for it.
LEMMA RoomLoaded ==
    ASSUME NEW m, NEW b, NEW al, NEW w, MemoryOK(m, NoRoom, b, al, w),
           NEW r \in 1..Len(m.rooms), NEW room \in Room, RoomTyped(room),
           NEW old, old = m.rooms[r], old.state = "loading", Loaded(old, room, b)
    PROVE  MemoryOK(TaskGoesOn(WithRoom(m, r, room)), NoRoom, b, al, w)
<1> DEFINE n == WithRoom(m, r, room)
           waits == n.running.type \in {"loadToPersist", "loadToDelete"}
           v == IF waits THEN Requeued(n) ELSE n
<1>1. /\ MemoryTyped(m, NoRoom) /\ MemoryTyped(n, NoRoom)
      /\ w # "restored" => m.restore = "idle" /\ ~m.isRestoring
  BY WithRoomTyped DEF MemoryOK
<1>2. /\ m \in Memory
      /\ m.room # NoRoom => m.room \in 1..Len(m.rooms)
      /\ DOMAIN m.rooms = 1..Len(m.rooms) /\ old \in Room
      /\ m.running \in Running
  BY <1>1, TypedRooms, MemoryFields
<1>3. /\ n.rooms[r] = room
      /\ \A x \in 1..Len(m.rooms) : x # r => n.rooms[x] = m.rooms[x]
  <2>1. m \in Memory
    BY <1>2
  <2> QED BY <2>1, WithRoomIs
<1>4. /\ Len(n.rooms) = Len(m.rooms) /\ n \in Memory
      /\ n.room = m.room /\ n.running = m.running /\ n.queue = m.queue
      /\ n.deleted = m.deleted /\ n.restore = m.restore
      /\ n.isRestoring = m.isRestoring
      /\ n.lastPersistedClock = m.lastPersistedClock
  <2>1. m \in Memory
    BY <1>2
  <2> QED BY <2>1, WithRoomIs
<1> HIDE DEF n
<1>5. n.running.waiter \in 0..Len(n.rooms) /\ QueueTyped(n.queue, Len(n.rooms))
  BY <1>1, TypedParts DEF RunningTyped
<1>6. /\ TaskOf(n) \in Task /\ TaskOf(n).waiter = n.running.waiter
      /\ n.running.type = "loadToPersist" => TaskOf(n).type = "persist"
      /\ n.queue \in Seq(Task)
  BY <1>4, <1>5, RequeuedIs DEF TaskOf, QueueTyped
<1>7. /\ <<TaskOf(n)>> \o n.queue \in Seq(Task)
      /\ \A i \in DOMAIN (<<TaskOf(n)>> \o n.queue) :
           \/ (<<TaskOf(n)>> \o n.queue)[i] = TaskOf(n)
           \/ \E j \in DOMAIN n.queue : (<<TaskOf(n)>> \o n.queue)[i] = n.queue[j]
  <2> DEFINE q == n.queue
             t == TaskOf(n)
  <2>1. q \in Seq(Task) /\ t \in Task
    BY <1>6
  <2> HIDE DEF q, t
  <2>2. /\ <<t>> \o q \in Seq(Task)
        /\ \A i \in DOMAIN (<<t>> \o q) :
             \/ (<<t>> \o q)[i] = t
             \/ i - 1 \in DOMAIN q /\ (<<t>> \o q)[i] = q[i - 1]
    BY <2>1, TaskBefore
  <2> QED BY <2>2 DEF q, t
<1> DEFINE longer == <<TaskOf(n)>> \o n.queue
<1>8. /\ v \in Memory /\ v.room = m.room /\ v.rooms = n.rooms
      /\ v.deleted = m.deleted /\ v.restore = m.restore
      /\ v.isRestoring = m.isRestoring
      /\ v.lastPersistedClock = m.lastPersistedClock
  BY <1>4, <1>5, RequeuedIs
<1>9. IF waits THEN v.running = Idle /\ v.queue = longer
               ELSE v.running = m.running /\ v.queue = m.queue
  BY <1>4, <1>5, RequeuedIs
<1>10. MemoryTyped(v, NoRoom)
  <2>1. CASE waits
    <3>1. QueueTyped(longer, Len(n.rooms))
      BY <1>5, <1>6, <1>7 DEF QueueTyped
    <3>2. RunningTyped(Idle, Len(n.rooms))
      BY <1>1, CanRun, TypedRooms DEF RunningTyped
    <3> HIDE DEF longer
    <3> DEFINE idle == WithRunning(n, Idle)
    <3>3. MemoryTyped(idle, NoRoom)
      BY <1>1, <3>2, WithRunningTyped
    <3>4. idle.rooms = n.rooms
      BY <1>4, CanRun, RunningIs
    <3>5. v = WithQueue(idle, longer)
      BY <2>1 DEF Requeued, longer
    <3> HIDE DEF idle, v
    <3> QED BY <3>1, <3>3, <3>4, <3>5, WithQueueTyped
  <2>2. CASE ~waits
    BY <1>1, <2>2
  <2> QED BY <2>1, <2>2
<1> HIDE DEF v, longer
<1>11. ASSUME OneRoomOK(m, NoRoom)
       PROVE  /\ r = m.room /\ OneRoomOK(v, NoRoom)
              /\ v.running.type \in {"none", "persist"}
              /\ v.running.type = "persist" => m.running.type = "persist"
  <2>1. r = m.room
    BY <1>2, <1>11 DEF OneRoomOK
  <2>2. /\ m.running.waiter = NoRoom
        /\ \A i \in DOMAIN m.queue : m.queue[i].waiter = NoRoom
    BY <1>11, <2>1 DEF OneRoomOK, OneWaits
  <2>3. /\ m.running.type \in {"none", "persist", "loadToPersist"}
        /\ \A i \in DOMAIN m.queue : m.queue[i].type = "persist"
    BY <1>11 DEF OneRoomOK
  <2>4. \A i \in DOMAIN v.queue :
          v.queue[i].type = "persist" /\ v.queue[i].waiter = NoRoom
    <3>1. CASE waits
      <4>1. TaskOf(n).type = "persist" /\ TaskOf(n).waiter = NoRoom
        BY <1>4, <1>6, <2>2, <2>3, <3>1
      <4>2. \A i \in DOMAIN longer :
              \/ longer[i] = TaskOf(n)
              \/ \E j \in DOMAIN m.queue : longer[i] = m.queue[j]
        BY <1>4, <1>7 DEF longer
      <4>3. v.queue = longer
        BY <1>9, <3>1
      <4> QED BY <2>2, <2>3, <4>1, <4>2, <4>3
    <3>2. CASE ~waits
      BY <1>9, <2>2, <2>3, <3>2
    <3> QED BY <3>1, <3>2
  <2>5. /\ v.running.waiter = NoRoom /\ v.running.type \in {"none", "persist"}
        /\ v.running.type = "persist" => m.running.type = "persist"
    BY <1>4, <1>9, <2>2, <2>3, CanRun
  <2>6. OneWaits(v, NoRoom)
    BY <2>4, <2>5 DEF OneWaits
  <2>7. DOMAIN v.rooms = 1..Len(m.rooms)
    BY <1>4, <1>8, MemoryFields
  <2>8. \A x \in DOMAIN v.rooms :
          /\ v.rooms[x].sessions # {} /\ ~v.rooms[x].isClosed => v.room = x
          /\ v.rooms[x].state = "loading" => v.room = x
    BY <1>2, <1>3, <1>8, <1>11, <2>1, <2>7 DEF OneRoomOK
  <2>9. OneRoomOK(v, NoRoom)
    BY <2>4, <2>5, <2>6, <2>8 DEF OneRoomOK
  <2> QED BY <2>1, <2>5, <2>9
<1>12. /\ room.state # "loading" /\ room.isClosed = old.isClosed
       /\ room.docs \subseteq b.docs
       /\ room.state = "open" =>
            b.docs \subseteq room.docs /\ room.documentClock = b.clock
  BY DEF Loaded
<1>13. ASSUME OneRoomOK(m, NoRoom), SavedOK(m, NoRoom, b)
       PROVE  SavedOK(v, NoRoom, b) /\ Planned(v, b, al)
  <2>1. r = m.room /\ m.room # NoRoom /\ m.rooms[m.room].state = "loading"
    BY <1>1, <1>11, <1>13, TypedRooms
  <2>2. /\ ~m.isRestoring /\ m.lastPersistedClock <= b.clock
        /\ \A x \in DOMAIN m.rooms \ {m.room} : m.rooms[x].docs \subseteq b.docs
        /\ ~old.isClosed /\ m.running.type # "persist"
    BY <1>13, <2>1 DEF SavedOK, SaveIsNew
  <2>3. DOMAIN v.rooms = 1..Len(m.rooms)
    BY <1>4, <1>8, MemoryFields
  <2>4. \A x \in DOMAIN v.rooms : v.rooms[x].docs \subseteq b.docs
    BY <1>2, <1>3, <1>8, <1>12, <2>1, <2>2, <2>3
  <2>5. v.running.type # "persist"
    BY <1>11, <1>13, <2>2
  <2>6. v.rooms[v.room] = room /\ v.room \in DOMAIN v.rooms
    BY <1>3, <1>8, <2>1, <2>3
  <2>7. SaveIsNew(v, b)
    BY <2>5 DEF SaveIsNew
  <2>8. ~room.isClosed
    BY <1>12, <2>2
  <2>9. SavedOK(v, NoRoom, b)
    BY <1>8, <1>12, <2>2, <2>4, <2>6, <2>7, <2>8 DEF SavedOK
  <2>10. Planned(v, b, al)
    BY <2>4, <2>6 DEF Planned
  <2> QED BY <2>9, <2>10
<1>14. MemoryOK(v, NoRoom, b, al, w)
  <2>1. w # "hasty" /\ ~m.deleted => OneRoomOK(m, NoRoom)
    BY DEF MemoryOK
  <2>2. w = "evicted" /\ ~m.deleted => OneRoomOK(m, NoRoom) /\ SavedOK(m, NoRoom, b)
    BY DEF MemoryOK
  <2> QED BY <1>1, <1>8, <1>10, <1>11, <1>13, <2>1, <2>2 DEF MemoryOK
<1>15. MemoryOK(TaskGoesOn(n), NoRoom, b, al, w)
  BY <1>4, <1>5, <1>14, TaskGoesOnOK DEF v
<1> QED BY <1>15 DEF n

-----------------------------------------------------------------------------
(***************************************************************************)
(* The room that the object has: making it, and changing it.               *)
(***************************************************************************)
\* A new room is typed.
LEMMA NewRoomTyped ==
    /\ NewRoom \in Room /\ RoomTyped(NewRoom) /\ NewRoom.state = "loading"
    /\ NewRoom.docs = {} /\ NewRoom.sessions = {} /\ ~NewRoom.isClosed
<1>1. 0 \in 0..MaxClock
  BY DurableObjectAssumption
<1>2. NewRoom \in Room
  BY <1>1 DEF NewRoom, Room
<1>3. /\ NewRoom.state = "loading" /\ NewRoom.docs = {} /\ NewRoom.sessions = {}
      /\ ~NewRoom.isClosed /\ NewRoom.documentClock = 0 /\ NewRoom.clock = 0
  BY DEF NewRoom
<1> QED BY <1>2, <1>3 DEF RoomTyped

\* A room after others.
LEMMA RoomAfter ==
    ASSUME NEW q \in Seq(Room), NEW room \in Room
    PROVE  /\ Append(q, room) \in Seq(Room) /\ Len(Append(q, room)) = Len(q) + 1
           /\ DOMAIN Append(q, room) = 1..Len(q) + 1
           /\ Append(q, room)[Len(q) + 1] = room
           /\ \A i \in 1..Len(q) : Append(q, room)[i] = q[i]
           /\ \A i \in 1..Len(q) + 1 : i \in 1..Len(q) \/ i = Len(q) + 1
           /\ Len(q) + 1 \notin 1..Len(q) /\ Len(q) + 1 # 0
OBVIOUS

\* What it does to make a room.
LEMMA GetRoomIs ==
    ASSUME NEW m \in Memory, m.room = NoRoom, Len(m.rooms) < MaxRooms
    PROVE  /\ GetRoom(m) \in Memory /\ GetRoom(m).room = Len(m.rooms) + 1
           /\ GetRoom(m).rooms = Append(m.rooms, NewRoom)
           /\ GetRoom(m).lastPersistedClock = m.lastPersistedClock
           /\ GetRoom(m).running = m.running
           /\ GetRoom(m).queue = m.queue
           /\ GetRoom(m).throttled = m.throttled
           /\ GetRoom(m).deleted = m.deleted
           /\ GetRoom(m).isRestoring = m.isRestoring
           /\ GetRoom(m).restore = m.restore
           /\ GetRoom(m).restored = m.restored
           /\ GetRoom(m).restoreRoom = m.restoreRoom
<1> DEFINE rooms == Append(m.rooms, NewRoom)
           r == Len(m.rooms) + 1
<1>1. rooms \in Seq(Room) /\ r \in 0..MaxRooms
  <2>1. m.rooms \in Seq(Room)
    BY MemoryFields
  <2> QED BY <2>1, NewRoomTyped, RoomAfter, DurableObjectAssumption
<1>2. GetRoom(m) = [m EXCEPT !.rooms = rooms, !.room = r]
  BY DEF GetRoom, Memory
<1> HIDE DEF rooms, r
<1>3. LET n == [m EXCEPT !.rooms = rooms, !.room = r]
      IN  /\ n \in Memory /\ n.room = r /\ n.rooms = rooms
          /\ n.lastPersistedClock = m.lastPersistedClock
          /\ n.running = m.running /\ n.queue = m.queue
          /\ n.throttled = m.throttled
          /\ n.deleted = m.deleted /\ n.isRestoring = m.isRestoring
          /\ n.restore = m.restore /\ n.restored = m.restored
          /\ n.restoreRoom = m.restoreRoom
  BY <1>1, Zenon DEF Memory
<1> QED BY <1>2, <1>3 DEF rooms, r

\* getRoom: the room that is made is the one room.
LEMMA GetRoomOK ==
    ASSUME NEW m, NEW b, NEW al, NEW w, MemoryOK(m, NoRoom, b, al, w),
           CanGetRoom(m)
    PROVE  /\ MemoryOK(GetRoom(m), NoRoom, b, al, w)
           /\ GetRoom(m).room \in 1..Len(GetRoom(m).rooms)
           /\ GetRoom(m).deleted = m.deleted
           /\ GetRoom(m).restore = m.restore
           /\ GetRoom(m).restored = m.restored
<1>1. /\ MemoryTyped(m, NoRoom)
      /\ w # "restored" => m.restore = "idle" /\ ~m.isRestoring
  BY DEF MemoryOK
<1>2. /\ m \in Memory /\ m.rooms \in Seq(Room) /\ Len(m.rooms) \in Nat
      /\ Len(m.rooms) <= MaxRooms /\ DOMAIN m.rooms = 1..Len(m.rooms)
      /\ m.room # NoRoom => m.room \in 1..Len(m.rooms)
  BY <1>1, TypedRooms, MemoryFields
<1>3. CASE m.room # NoRoom
  <2>1. GetRoom(m) = m
    BY <1>3 DEF GetRoom
  <2> QED BY <1>2, <1>3, <2>1
<1>4. CASE m.room = NoRoom
  <2> DEFINE n == GetRoom(m)
             many == Len(m.rooms)
  <2>1. Len(m.rooms) < MaxRooms
    BY <1>4 DEF CanGetRoom
  <2>2. /\ n \in Memory /\ n.room = many + 1 /\ n.rooms = Append(m.rooms, NewRoom)
        /\ n.lastPersistedClock = m.lastPersistedClock
        /\ n.running = m.running /\ n.queue = m.queue
        /\ n.deleted = m.deleted /\ n.isRestoring = m.isRestoring
        /\ n.restore = m.restore /\ n.restored = m.restored
        /\ n.restoreRoom = m.restoreRoom
    BY <1>2, <1>4, <2>1, GetRoomIs
  <2> HIDE DEF n
  <2>3. /\ Len(n.rooms) = many + 1 /\ DOMAIN n.rooms = 1..many + 1
        /\ n.rooms[many + 1] = NewRoom
        /\ \A i \in 1..many : n.rooms[i] = m.rooms[i]
        /\ \A i \in 1..many + 1 : i \in 1..many \/ i = many + 1
        /\ many + 1 \notin 1..many /\ many + 1 # NoRoom
    BY <1>2, <2>2, NewRoomTyped, RoomAfter DEF NoRoom
  <2>4. /\ RunningTyped(m.running, many) /\ QueueTyped(m.queue, many)
        /\ m.restoreRoom \in 0..many
        /\ m.restore \in {"put", "load"} => m.restored.clock >= 0
        /\ m.restore = "load" => m.restoreRoom # NoRoom
        /\ \A r \in DOMAIN m.rooms : RoomTyped(m.rooms[r])
    BY <1>1, TypedParts
  <2>5. 0..many \subseteq 0..many + 1 /\ NoRoom \in 0..many + 1
        /\ many + 1 \in 0..many + 1 /\ many + 1 \in 1..many + 1 /\ many + 1 <= MaxRooms
    BY <1>2, <2>1, DurableObjectAssumption DEF NoRoom
  <2> HIDE DEF many
  <2>6. MemoryTyped(n, NoRoom)
    <3>1. RunningTyped(n.running, many + 1) /\ QueueTyped(n.queue, many + 1)
      BY <2>2, <2>4, <2>5 DEF RunningTyped, QueueTyped
    <3>2. \A r \in DOMAIN n.rooms : RoomTyped(n.rooms[r])
      BY <1>2, <2>3, <2>4, NewRoomTyped DEF many
    <3>3. /\ n \in Memory /\ Len(n.rooms) <= MaxRooms
          /\ n.room \in 0..Len(n.rooms) /\ n.restoreRoom \in 0..Len(n.rooms)
          /\ NoRoom \in 0..Len(n.rooms)
      BY <2>2, <2>3, <2>4, <2>5
    <3> QED BY <2>2, <2>3, <2>4, <3>1, <3>2, <3>3, TypedParts
  <2>7. ASSUME OneRoomOK(m, NoRoom) PROVE OneRoomOK(n, NoRoom)
    <3>1. /\ m.running.waiter = NoRoom
          /\ \A i \in DOMAIN m.queue : m.queue[i].waiter = NoRoom
      BY <1>4, <2>7 DEF OneRoomOK, OneWaits
    <3>2. /\ m.running.type \in {"none", "persist"}
          /\ \A i \in DOMAIN m.queue : m.queue[i].type = "persist"
      BY <1>4, <2>7 DEF OneRoomOK
    <3>3. OneWaits(n, NoRoom)
      BY <2>2, <3>1 DEF OneWaits
    <3>4. \A r \in 1..many :
            /\ m.rooms[r].sessions = {} \/ m.rooms[r].isClosed
            /\ m.rooms[r].state # "loading"
      <4>1. NoRoom \notin 1..many
        BY <1>1, TypedRooms DEF many
      <4> QED BY <1>2, <1>4, <2>7, <4>1 DEF OneRoomOK, many
    <3>5. \A r \in DOMAIN n.rooms :
            /\ n.rooms[r].sessions # {} /\ ~n.rooms[r].isClosed => n.room = r
            /\ n.rooms[r].state = "loading" => n.room = r
      BY <2>2, <2>3, <3>4
    <3> QED BY <2>2, <3>2, <3>3, <3>5 DEF OneRoomOK
  <2>8. ASSUME SavedOK(m, NoRoom, b)
        PROVE  SavedOK(n, NoRoom, b) /\ Planned(n, b, al)
    <3>1. /\ ~m.isRestoring /\ m.lastPersistedClock <= b.clock
          /\ \A r \in DOMAIN m.rooms \ {m.room} : m.rooms[r].docs \subseteq b.docs
          /\ m.running.type # "persist"
      BY <1>4, <2>8 DEF SavedOK, SaveIsNew
    <3>2. NoRoom \notin 1..many
      BY <1>1, TypedRooms DEF many
    <3>3. \A r \in 1..many : m.rooms[r].docs \subseteq b.docs
      BY <1>2, <1>4, <3>1, <3>2 DEF many
    <3>4. \A r \in DOMAIN n.rooms : n.rooms[r].docs \subseteq b.docs
      BY <2>3, <3>3, NewRoomTyped
    <3>5. n.room \in DOMAIN n.rooms /\ n.rooms[n.room] = NewRoom
      BY <2>2, <2>3, <2>5
    <3>6. SaveIsNew(n, b)
      BY <2>2, <3>1 DEF SaveIsNew
    <3>7. SavedOK(n, NoRoom, b)
      BY <2>2, <3>1, <3>4, <3>5, <3>6, NewRoomTyped DEF SavedOK
    <3>8. Planned(n, b, al)
      BY <3>4, <3>5 DEF Planned
    <3> QED BY <3>7, <3>8
  <2>9. MemoryOK(n, NoRoom, b, al, w)
    BY <1>1, <2>2, <2>6, <2>7, <2>8 DEF MemoryOK
  <2>10. n.room \in 1..Len(n.rooms)
    BY <2>2, <2>3, <2>5
  <2> QED BY <2>2, <2>9, <2>10 DEF n
<1> QED BY <1>3, <1>4

\* A room that changes while it is open.
LEMMA RoomChanges ==
    ASSUME NEW m, NEW b, NEW al, NEW before, NEW w,
           MemoryOK(m, NoRoom, b, before, w),
           NEW r \in 1..Len(m.rooms), NEW room \in Room, RoomTyped(room),
           NEW old, old = m.rooms[r], room.state = old.state,
           w # "hasty" /\ ~m.deleted /\ room.sessions # {} /\ ~room.isClosed =>
             m.room = r,
           w = "evicted" /\ ~m.deleted =>
             /\ m.room = r /\ Grows(old, room, m.running.waiter)
             /\ al \/ (before = al /\ room.docs = old.docs)
    PROVE  MemoryOK(WithRoom(m, r, room), NoRoom, b, al, w)
<1> DEFINE n == WithRoom(m, r, room)
<1>1. /\ MemoryTyped(m, NoRoom) /\ MemoryTyped(n, NoRoom) /\ m \in Memory
      /\ w # "restored" => m.restore = "idle" /\ ~m.isRestoring
      /\ w # "hasty" /\ ~m.deleted => OneRoomOK(m, NoRoom)
      /\ w = "evicted" /\ ~m.deleted =>
           SavedOK(m, NoRoom, b) /\ Planned(m, b, before)
  BY TypedParts, WithRoomTyped DEF MemoryOK
<1>2. /\ n.deleted = m.deleted /\ n.restore = m.restore
      /\ n.isRestoring = m.isRestoring
  BY <1>1, WithRoomIs
<1>3. /\ n.rooms[r] = room /\ n.room = m.room /\ n.throttled = m.throttled
      /\ n.queue = m.queue /\ n.running = m.running
  BY <1>1, WithRoomIs
<1>4. w # "hasty" /\ ~m.deleted => OneRoomOK(n, NoRoom)
  BY <1>1, RoomChangesOne
<1>5. w = "evicted" /\ ~m.deleted => SavedOK(n, NoRoom, b)
  BY <1>1, RoomChangesSaved
<1> HIDE DEF n
<1>6. w = "evicted" /\ ~m.deleted => Planned(n, b, al)
  BY <1>1, <1>3 DEF Planned
<1>7. MemoryOK(n, NoRoom, b, al, w)
  BY <1>1, <1>2, <1>4, <1>5, <1>6 DEF MemoryOK
<1> QED BY <1>7 DEF n

\* A memory with another timer.
WithTimer(m, x) == [m EXCEPT !.throttled = x]

\* A timer or an alarm that is set is a plan.
LEMMA TimerSet ==
    ASSUME NEW m, NEW b, NEW al, NEW before, NEW w,
           MemoryOK(m, NoRoom, b, before, w), NEW x \in BOOLEAN, x \/ al
    PROVE  MemoryOK(WithTimer(m, x), NoRoom, b, al, w)
<1> DEFINE n == WithTimer(m, x)
<1>1. m \in Memory /\ MemoryTyped(m, NoRoom)
  BY TypedParts DEF MemoryOK
<1>2. /\ n \in Memory /\ n.throttled = x /\ n.room = m.room /\ n.rooms = m.rooms
      /\ n.lastPersistedClock = m.lastPersistedClock
      /\ n.running = m.running /\ n.queue = m.queue /\ n.deleted = m.deleted
      /\ n.isRestoring = m.isRestoring /\ n.restore = m.restore
      /\ n.restored = m.restored /\ n.restoreRoom = m.restoreRoom
  BY <1>1, Zenon DEF WithTimer, Memory
<1> HIDE DEF n
<1>3. MemoryTyped(n, NoRoom)
  BY <1>1, <1>2, TypedParts
<1>4. OneRoomOK(m, NoRoom) => OneRoomOK(n, NoRoom)
  BY <1>2 DEF OneRoomOK, OneWaits
<1>5. SavedOK(m, NoRoom, b) => SavedOK(n, NoRoom, b)
  BY <1>2 DEF SavedOK, SaveIsNew
<1>6. Planned(n, b, al)
  BY <1>2 DEF Planned
<1>7. MemoryOK(n, NoRoom, b, al, w)
  BY <1>2, <1>3, <1>4, <1>5, <1>6 DEF MemoryOK
<1> QED BY <1>7 DEF n

-----------------------------------------------------------------------------
(***************************************************************************)
(* The steps, one by one.                                                  *)
(***************************************************************************)
\* A step of the memory.
LEMMA MemoryStep ==
    ASSUME ObjectInv, UNCHANGED <<bucket, versions, requests, edits, world>>,
           MemoryOK(memory', NoRoom, bucket, alarm', world)
    PROVE  ObjectInv'
BY DEF ObjectInv

\* What is known of the memory.
LEMMA MemoryNow ==
    ASSUME ObjectInv
    PROVE  /\ MemoryOK(memory, NoRoom, bucket, alarm, world)
           /\ MemoryTyped(memory, NoRoom) /\ memory \in Memory
           /\ DOMAIN memory.rooms = 1..Len(memory.rooms)
           /\ \A r \in 1..Len(memory.rooms) :
                memory.rooms[r] \in Room /\ RoomTyped(memory.rooms[r])
           /\ world # "hasty" /\ ~memory.deleted => OneRoomOK(memory, NoRoom)
           /\ world = "evicted" /\ ~memory.deleted =>
                SavedOK(memory, NoRoom, bucket) /\ Planned(memory, bucket, alarm)
           /\ world # "restored" => memory.restore = "idle" /\ ~memory.isRestoring
<1>1. MemoryOK(memory, NoRoom, bucket, alarm, world)
  BY DEF ObjectInv
<1>2. MemoryTyped(memory, NoRoom)
  BY <1>1 DEF MemoryOK
<1> QED BY <1>1, <1>2, TypedRooms DEF MemoryOK

\* A request that comes.
LEMMA RequestOK ==
    ASSUME ObjectInv, NEW s \in SessionIds, Request(s)
    PROVE  ObjectInv'
<1>1. requests' \in [SessionIds -> {NoRequest, Checked} \cup RoomIds]
  BY DEF ObjectInv, Request
<1> QED BY <1>1 DEF ObjectInv, Request

\* A room with other sessions.
WithSessions(room, S) == [room EXCEPT !.sessions = S]

\* That changes nothing else.
LEMMA WithSessionsIs ==
    ASSUME NEW room \in Room, NEW S \in SUBSET SessionIds
    PROVE  /\ WithSessions(room, S) \in Room /\ WithSessions(room, S).sessions = S
           /\ WithSessions(room, S).state = room.state
           /\ WithSessions(room, S).isClosed = room.isClosed
           /\ WithSessions(room, S).docs = room.docs
           /\ WithSessions(room, S).clock = room.clock
           /\ WithSessions(room, S).documentClock = room.documentClock
           /\ RoomTyped(room) /\ (room.state # "open" => S = {}) =>
                RoomTyped(WithSessions(room, S))
<1>1. /\ WithSessions(room, S) \in Room /\ WithSessions(room, S).sessions = S
      /\ WithSessions(room, S).state = room.state
      /\ WithSessions(room, S).isClosed = room.isClosed
      /\ WithSessions(room, S).docs = room.docs
      /\ WithSessions(room, S).clock = room.clock
      /\ WithSessions(room, S).documentClock = room.documentClock
  BY Zenon DEF WithSessions, Room
<1> QED BY <1>1 DEF RoomTyped

\* A request comes to the room.
LEMMA AskForRoomOK ==
    ASSUME ObjectInv, NEW s \in SessionIds, AskForRoom(s)
    PROVE  ObjectInv'
<1> DEFINE m == GetRoom(memory)
           r == m.room
           old == m.rooms[r]
           room == WithSessions(old, old.sessions \cup {s})
<1>1. /\ MemoryOK(m, NoRoom, bucket, alarm, world) /\ r \in 1..Len(m.rooms)
  BY MemoryNow, GetRoomOK DEF AskForRoom
<1>2. /\ UNCHANGED <<bucket, versions, alarm, edits, world>>
      /\ \/ /\ old.state = "open"
            /\ memory' = [m EXCEPT !.rooms[r].sessions = @ \cup {s}]
            /\ requests' = [requests EXCEPT ![s] = NoRequest]
         \/ /\ old.state # "open" /\ memory' = m
            /\ \/ requests' = [requests EXCEPT ![s] = NoRequest]
               \/ requests' = [requests EXCEPT ![s] = r]
  <2>1. MemoryTyped(m, NoRoom)
    BY <1>1 DEF MemoryOK
  <2>2. m.rooms[r] \in Room
    BY <1>1, <2>1, TypedRooms
  <2>3. old.state \in {"loading", "open", "failed"}
    BY <2>2, RoomFields
  <2> QED BY <2>3 DEF AskForRoom
<1> HIDE DEF m
<1>3. /\ MemoryTyped(m, NoRoom) /\ m \in Memory /\ old \in Room /\ RoomTyped(old)
      /\ r \in RoomIds
  <2>1. MemoryTyped(m, NoRoom)
    BY <1>1 DEF MemoryOK
  <2>2. m \in Memory /\ Len(m.rooms) \in Nat /\ Len(m.rooms) <= MaxRooms
    BY <2>1, TypedRooms
  <2> QED BY <1>1, <2>1, <2>2, TypedRooms, DurableObjectAssumption DEF RoomIds
<1>4. requests' \in [SessionIds -> {NoRequest, Checked} \cup RoomIds]
  BY <1>2, <1>3 DEF ObjectInv
<1>5. CASE old.state = "open"
  <2>1. memory' = WithRoom(m, r, room)
    <3>1. memory' = [m EXCEPT !.rooms[r].sessions = @ \cup {s}]
      BY <1>2, <1>5
    <3> QED BY <3>1 DEF WithRoom, WithSessions
  <2>2. old.sessions \cup {s} \in SUBSET SessionIds
    BY <1>3, RoomFields
  <2> DEFINE S == old.sessions \cup {s}
  <2>3. /\ room \in Room /\ RoomTyped(room) /\ room.sessions # {}
        /\ room.state = old.state /\ room.isClosed = old.isClosed
        /\ room.docs = old.docs /\ room.documentClock = old.documentClock
    <3>1. S \in SUBSET SessionIds /\ S # {} /\ room = WithSessions(old, S)
      BY <2>2
    <3> HIDE DEF S, room, old
    <3> QED BY <1>3, <1>5, <3>1, WithSessionsIs
  <2>4. ASSUME world = "evicted" /\ ~m.deleted
        PROVE  Grows(old, room, m.running.waiter)
    <3>1. ~old.isClosed
      <4>1. SavedOK(m, NoRoom, bucket)
        BY <1>1, <2>4 DEF MemoryOK
      <4>2. r # NoRoom
        BY <1>1, <1>3, TypedRooms
      <4> QED BY <4>1, <4>2 DEF SavedOK
    <3>2. old.documentClock <= room.documentClock
      BY <1>3, <2>3, RoomFields
    <3> HIDE DEF room, old
    <3> QED BY <1>5, <2>3, <3>1, <3>2 DEF Grows
  <2> HIDE DEF room
  <2>5. MemoryOK(WithRoom(m, r, room), NoRoom, bucket, alarm, world)
    BY <1>1, <2>3, <2>4, RoomChanges
  <2> QED BY <1>2, <1>4, <2>1, <2>5 DEF ObjectInv
<1>6. CASE old.state # "open"
  BY <1>1, <1>2, <1>4, <1>6 DEF ObjectInv
<1> QED BY <1>5, <1>6

\* A room that has loaded, or failed to.
LEMMA RoomLoadsOK ==
    ASSUME ObjectInv, NEW r \in DOMAIN memory.rooms, RoomLoads(r)
    PROVE  ObjectInv'
<1> DEFINE old == memory.rooms[r]
           waiting == {s \in SessionIds : requests[s] = r}
           found == [old EXCEPT !.state = "open", !.docs = bucket.docs,
                                !.clock = bucket.clock,
                                !.documentClock = bucket.clock,
                                !.sessions = waiting]
           failed == [old EXCEPT !.state = "failed"]
<1>1. /\ MemoryOK(memory, NoRoom, bucket, alarm, world) /\ memory \in Memory
      /\ r \in 1..Len(memory.rooms) /\ old \in Room /\ RoomTyped(old)
      /\ old.state = "loading"
  BY MemoryNow DEF RoomLoads
<1>2. requests' \in [SessionIds -> {NoRequest, Checked} \cup RoomIds]
  BY DEF ObjectInv, RoomLoads
<1>3. UNCHANGED <<bucket, versions, alarm, edits, world>>
  BY DEF RoomLoads
<1>4. \/ bucket # NoFile /\ memory' = TaskGoesOn(WithRoom(memory, r, found))
      \/ memory' = TaskGoesOn(WithRoom(memory, r, failed))
  BY DEF RoomLoads, WithRoom
<1>5. CASE bucket # NoFile /\ memory' = TaskGoesOn(WithRoom(memory, r, found))
  <2>1. bucket.docs \in SUBSET Edits /\ bucket.clock \in 0..MaxClock
    <3>1. bucket \in Snapshot /\ bucket.clock >= 0
      BY <1>5 DEF ObjectInv, IsFile
    <3> QED BY <3>1, TaskFields, DurableObjectAssumption
  <2>2. waiting \in SUBSET SessionIds
    OBVIOUS
  <2> HIDE DEF waiting, old
  <2>3. /\ found \in Room /\ found.state = "open" /\ found.docs = bucket.docs
        /\ found.documentClock = bucket.clock /\ found.clock = bucket.clock
        /\ found.isClosed = old.isClosed
    <3>1. old \in Room
      BY <1>1
    <3> QED BY <2>1, <2>2, <3>1, Zenon DEF Room
  <2> HIDE DEF found
  <2>4. RoomTyped(found) /\ Loaded(old, found, bucket)
    BY <2>1, <2>3 DEF RoomTyped, Loaded
  <2>5. MemoryOK(memory', NoRoom, bucket, alarm, world)
    BY <1>1, <1>5, <2>3, <2>4, RoomLoaded DEF old
  <2> QED BY <1>2, <1>3, <2>5 DEF ObjectInv
<1>6. CASE memory' = TaskGoesOn(WithRoom(memory, r, failed))
  <2> HIDE DEF old
  <2>1. /\ failed \in Room /\ failed.state = "failed" /\ failed.docs = old.docs
        /\ failed.documentClock = old.documentClock /\ failed.clock = old.clock
        /\ failed.isClosed = old.isClosed /\ failed.sessions = old.sessions
    <3>1. old \in Room
      BY <1>1
    <3> QED BY <3>1, Zenon DEF Room
  <2> HIDE DEF failed
  <2>2. RoomTyped(failed) /\ Loaded(old, failed, bucket)
    BY <1>1, <2>1 DEF RoomTyped, Loaded
  <2>3. MemoryOK(memory', NoRoom, bucket, alarm, world)
    BY <1>1, <1>6, <2>1, <2>2, RoomLoaded DEF old
  <2> QED BY <1>2, <1>3, <2>3 DEF ObjectInv
<1> QED BY <1>4, <1>5, <1>6

\* A room whose clock goes on.
Moved(room) == [room EXCEPT !.clock = @ + 1]

Edited(room, e) == [room EXCEPT !.docs = @ \cup {e}, !.clock = @ + 1,
                                !.documentClock = room.clock + 1]

\* What else changes when a session changes the document or moves.
LEMMA ChangedIs ==
    ASSUME NEW room \in Room, room.clock < MaxClock, NEW e \in Edits
    PROVE  /\ Moved(room) \in Room /\ Edited(room, e) \in Room
           /\ Moved(room).docs = room.docs /\ Moved(room).clock = room.clock + 1
           /\ Moved(room).documentClock = room.documentClock
           /\ Moved(room).state = room.state
           /\ Moved(room).sessions = room.sessions
           /\ Moved(room).isClosed = room.isClosed
           /\ Edited(room, e).docs = room.docs \cup {e}
           /\ Edited(room, e).clock = room.clock + 1
           /\ Edited(room, e).documentClock = room.clock + 1
           /\ Edited(room, e).state = room.state
           /\ Edited(room, e).sessions = room.sessions
           /\ Edited(room, e).isClosed = room.isClosed
<1>1. /\ room.clock \in 0..MaxClock /\ room.docs \in SUBSET Edits
      /\ MaxClock \in Nat
  BY RoomFields, DurableObjectAssumption
<1> DEFINE c == room.clock + 1
           docs == room.docs \cup {e}
<1>2. c \in 0..MaxClock /\ docs \in SUBSET Edits
  BY <1>1
<1>3. /\ Moved(room) = [room EXCEPT !.clock = c]
      /\ Edited(room, e) = [room EXCEPT !.docs = docs, !.clock = c,
                                        !.documentClock = c]
  BY DEF Moved, Edited, Room
<1> HIDE DEF c, docs
<1>4. LET moved == [room EXCEPT !.clock = c]
      IN  /\ moved \in Room /\ moved.docs = room.docs /\ moved.clock = c
          /\ moved.documentClock = room.documentClock
          /\ moved.state = room.state /\ moved.sessions = room.sessions
          /\ moved.isClosed = room.isClosed
  BY <1>2, Zenon DEF Room
<1>5. LET edited == [room EXCEPT !.docs = docs, !.clock = c, !.documentClock = c]
      IN  /\ edited \in Room /\ edited.docs = docs /\ edited.clock = c
          /\ edited.documentClock = c
          /\ edited.state = room.state /\ edited.sessions = room.sessions
          /\ edited.isClosed = room.isClosed
  BY <1>2, Zenon DEF Room
<1> QED BY <1>3, <1>4, <1>5 DEF c, docs

\* A room that can be changed is the one room.
LEMMA EditedRoom ==
    ASSUME ObjectInv, NEW r \in DOMAIN memory.rooms, CanEdit(r),
           NEW old, old = memory.rooms[r]
    PROVE  /\ r \in 1..Len(memory.rooms) /\ old \in Room /\ RoomTyped(old)
           /\ old.state = "open" /\ ~old.isClosed /\ old.sessions # {}
           /\ old.clock < MaxClock
           /\ old.clock \in Int /\ old.documentClock \in Int
           /\ world # "hasty" /\ ~memory.deleted => memory.room = r
<1>1. /\ r \in 1..Len(memory.rooms) /\ old \in Room /\ RoomTyped(old)
      /\ world # "hasty" /\ ~memory.deleted => OneRoomOK(memory, NoRoom)
  BY MemoryNow
<1>2. /\ old.state = "open" /\ ~old.isClosed /\ old.sessions # {}
      /\ old.clock < MaxClock
  BY DEF CanEdit
<1>3. old.clock \in Int /\ old.documentClock \in Int
  BY <1>1, RoomFields
<1>4. OneRoomOK(memory, NoRoom) => memory.room = r
  BY <1>2 DEF OneRoomOK
<1> QED BY <1>1, <1>2, <1>3, <1>4

\* A session changes the document.
LEMMA EditOK ==
    ASSUME ObjectInv, NEW r \in DOMAIN memory.rooms, Edit(r)
    PROVE  ObjectInv'
<1> DEFINE old == memory.rooms[r]
           e == edits + 1
           room == Edited(old, e)
           yes == TRUE
<1>1. CanEdit(r) /\ edits' = e /\ memory' = DataChanged(memory, r, e)
      /\ UNCHANGED <<bucket, versions, alarm, requests, world>>
      /\ edits < MaxEdits
  BY DEF Edit
<1>2. /\ r \in 1..Len(memory.rooms) /\ old \in Room /\ RoomTyped(old)
      /\ old.state = "open" /\ ~old.isClosed /\ old.sessions # {}
      /\ old.clock < MaxClock
      /\ old.clock \in Int /\ old.documentClock \in Int
      /\ world # "hasty" /\ ~memory.deleted => memory.room = r
  BY <1>1, EditedRoom
<1>3. e \in Edits /\ e \in 0..MaxEdits
  BY <1>1, DurableObjectAssumption DEF ObjectInv, Edits
<1>4. /\ memory \in Memory
      /\ MemoryOK(memory, NoRoom, bucket, alarm, world)
  BY MemoryNow
<1>5. memory' = WithTimer(WithRoom(memory, r, room), yes)
  <2> DEFINE rooms == [memory.rooms EXCEPT ![r] = room]
             all == [memory.rooms EXCEPT ![r].docs = @ \cup {e},
                                         ![r].clock = @ + 1,
                                         ![r].documentClock = old.clock + 1]
  <2>1. memory.rooms \in Seq(Room)
    BY <1>4, MemoryFields
  <2>2. all = rooms
    BY <1>2, <2>1 DEF Edited
  <2>3. memory' = [memory EXCEPT !.rooms = all, !.throttled = TRUE]
    <3>1. memory' = [memory EXCEPT !.rooms[r].docs = @ \cup {e},
                                   !.rooms[r].clock = @ + 1,
                                   !.rooms[r].documentClock = old.clock + 1,
                                   !.throttled = TRUE]
      BY <1>1 DEF DataChanged
    <3> HIDE DEF e
    <3> QED BY <1>4, <3>1 DEF Memory
  <2>4. WithRoom(memory, r, room) = [memory EXCEPT !.rooms = rooms]
    BY <1>4 DEF WithRoom, Memory
  <2> HIDE DEF all, rooms
  <2> QED BY <1>4, <2>2, <2>3, <2>4 DEF WithTimer, Memory
<1> HIDE DEF e, old
<1>6. /\ room \in Room /\ room.docs = old.docs \cup {e}
      /\ room.clock = old.clock + 1 /\ room.documentClock = old.clock + 1
      /\ room.state = old.state /\ room.sessions = old.sessions
      /\ room.isClosed = old.isClosed
  BY <1>2, <1>3, ChangedIs
<1> HIDE DEF room
<1>7. RoomTyped(room) /\ old.documentClock <= old.clock
  BY <1>2, <1>6 DEF RoomTyped
<1>8. Grows(old, room, memory.running.waiter)
  BY <1>2, <1>6, <1>7 DEF Grows
<1>9. yes /\ yes \in BOOLEAN
  OBVIOUS
<1> HIDE DEF yes
<1>10. MemoryOK(WithRoom(memory, r, room), NoRoom, bucket, yes, world)
  BY <1>2, <1>4, <1>6, <1>7, <1>8, <1>9, RoomChanges DEF old
<1>11. MemoryOK(memory', NoRoom, bucket, alarm, world)
  BY <1>5, <1>9, <1>10, TimerSet
<1> QED BY <1>1, <1>3, <1>11 DEF ObjectInv

\* A session moves.
LEMMA MoveOK ==
    ASSUME ObjectInv, NEW r \in DOMAIN memory.rooms, Move(r)
    PROVE  ObjectInv'
<1> DEFINE old == memory.rooms[r]
           room == Moved(old)
<1>1. CanEdit(r) /\ memory' = WithRoom(memory, r, room)
      /\ UNCHANGED <<bucket, versions, alarm, requests, edits, world>>
  BY DEF Move, WithRoom, Moved
<1>2. /\ r \in 1..Len(memory.rooms) /\ old \in Room /\ RoomTyped(old)
      /\ old.state = "open" /\ ~old.isClosed /\ old.sessions # {}
      /\ old.clock < MaxClock
      /\ old.clock \in Int /\ old.documentClock \in Int
      /\ world # "hasty" /\ ~memory.deleted => memory.room = r
  BY <1>1, EditedRoom
<1>3. MemoryOK(memory, NoRoom, bucket, alarm, world)
  BY MemoryNow
<1>4. 1 \in Edits
  BY DurableObjectAssumption DEF Edits
<1> HIDE DEF old
<1>5. /\ room \in Room /\ room.docs = old.docs
      /\ room.clock = old.clock + 1 /\ room.documentClock = old.documentClock
      /\ room.state = old.state /\ room.sessions = old.sessions
      /\ room.isClosed = old.isClosed
  BY <1>2, <1>4, ChangedIs
<1> HIDE DEF room
<1>6. RoomTyped(room)
  BY <1>2, <1>5 DEF RoomTyped
<1>7. Grows(old, room, memory.running.waiter)
  BY <1>2, <1>5 DEF Grows
<1>8. MemoryOK(WithRoom(memory, r, room), NoRoom, bucket, alarm, world)
  BY <1>2, <1>3, <1>5, <1>6, <1>7, RoomChanges DEF old
<1> QED BY <1>1, <1>8, MemoryStep

\* A session is removed: a save is pushed that nobody waits for yet.
LEMMA SessionRemovedOK ==
    ASSUME ObjectInv, NEW r \in DOMAIN memory.rooms, NEW s \in SessionIds,
           SessionRemoved(r, s)
    PROVE  ObjectInv'
<1> DEFINE old == memory.rooms[r]
           S == old.sessions \ {s}
           room == WithSessions(old, S)
           m == WithRoom(memory, r, room)
<1>1. /\ memory' = Push(m, "persist", r) \/ memory' = m
      /\ UNCHANGED <<bucket, versions, alarm, requests, edits, world>>
      /\ s \in old.sessions /\ ~old.isClosed
      /\ SavedForLast(r) => world = "hasty"
  BY DEF SessionRemoved, WithRoom, WithSessions
<1>2. /\ MemoryOK(memory, NoRoom, bucket, alarm, world) /\ memory \in Memory
      /\ r \in 1..Len(memory.rooms) /\ old \in Room /\ RoomTyped(old)
      /\ world # "hasty" /\ ~memory.deleted => OneRoomOK(memory, NoRoom)
  BY MemoryNow
<1>3. S \in SUBSET SessionIds
  BY <1>2, RoomFields
<1>4. old.state = "open"
  BY <1>1, <1>2 DEF RoomTyped
<1> HIDE DEF old, S
<1>5. /\ room \in Room /\ RoomTyped(room) /\ room.sessions = S
      /\ room.state = old.state /\ room.isClosed = old.isClosed
      /\ room.docs = old.docs /\ room.documentClock = old.documentClock
  BY <1>2, <1>3, <1>4, WithSessionsIs
<1> HIDE DEF room
<1>6. ASSUME world # "hasty" /\ ~memory.deleted
      PROVE  /\ memory.room = r /\ memory.running.waiter = NoRoom
             /\ \A i \in DOMAIN memory.queue : memory.queue[i].waiter = NoRoom
  <2>1. OneRoomOK(memory, NoRoom)
    BY <1>2, <1>6
  <2>2. memory.room = r
    BY <1>1, <2>1 DEF OneRoomOK, old
  <2>3. /\ memory.running.waiter # r
        /\ \A i \in DOMAIN memory.queue : memory.queue[i].waiter # r
    BY <1>1, <1>6 DEF SavedForLast
  <2> QED BY <2>1, <2>2, <2>3 DEF OneRoomOK, OneWaits
<1>7. ASSUME world = "evicted" /\ ~memory.deleted
      PROVE  Grows(old, room, memory.running.waiter)
  <2>1. memory.running.waiter = NoRoom
    BY <1>6, <1>7
  <2>2. old.documentClock <= room.documentClock
    BY <1>2, <1>5, RoomFields
  <2> QED BY <1>1, <1>4, <1>5, <2>1, <2>2 DEF Grows
<1>8. MemoryOK(m, NoRoom, bucket, alarm, world)
  <2> HIDE DEF m
  <2> QED BY <1>2, <1>5, <1>6, <1>7, RoomChanges DEF old, m
<1>9. /\ m.room = memory.room /\ Len(m.rooms) = Len(memory.rooms)
      /\ m.running = memory.running /\ m.queue = memory.queue
      /\ m.deleted = memory.deleted
  BY <1>2, <1>5, WithRoomIs
<1>10. m.rooms[r] = room
  BY <1>2, <1>5, WithRoomIs
<1> HIDE DEF m
<1>11. MemoryOK(Push(m, "persist", r), NoRoom, bucket, alarm, world)
  <2>1. r \in 0..Len(m.rooms)
    BY <1>2, <1>9
  <2>2. world # "hasty" /\ ~m.deleted =>
          /\ r = m.room /\ m.rooms[m.room].state = "open"
          /\ m.running.waiter = NoRoom
          /\ \A i \in DOMAIN m.queue : m.queue[i].waiter = NoRoom
    BY <1>4, <1>5, <1>6, <1>9, <1>10
  <2> QED BY <1>8, <2>1, <2>2, SavePushed
<1> QED BY <1>1, <1>8, <1>11, MemoryStep

\* The alarm is set, at last.
LEMMA SchedulePersistOK ==
    ASSUME ObjectInv, SchedulePersist
    PROVE  ObjectInv'
<1> DEFINE no == FALSE
<1>1. /\ MemoryOK(memory, NoRoom, bucket, alarm, world)
      /\ memory' = WithTimer(memory, no) /\ alarm'
      /\ UNCHANGED <<bucket, versions, requests, edits, world>>
  BY MemoryNow DEF SchedulePersist, WithTimer
<1>2. no \in BOOLEAN
  OBVIOUS
<1> HIDE DEF no
<1>3. MemoryOK(memory', NoRoom, bucket, alarm', world)
  BY <1>1, <1>2, TimerSet
<1> QED BY <1>1, <1>3, MemoryStep

\* The alarm goes off.
LEMMA AlarmOK ==
    ASSUME ObjectInv, Alarm
    PROVE  ObjectInv'
<1>1. /\ MemoryOK(memory, NoRoom, bucket, alarm, world)
      /\ memory' = Push(memory, "persist", NoRoom)
      /\ UNCHANGED <<bucket, versions, requests, edits, world>>
  BY MemoryNow DEF Alarm
<1>2. NoRoom \in 0..Len(memory.rooms)
  BY MemoryNow, TypedRooms
<1>3. MemoryOK(memory', NoRoom, bucket, alarm', world)
  BY <1>1, <1>2, SavePushed
<1> QED BY <1>1, <1>3, MemoryStep

\* Tasks that run delete nothing.
LEMMA RunTasksDeleted ==
    ASSUME NEW m, NEW d, MemoryTyped(m, d), m.running = Idle
    PROVE  RunTasks(m, d).deleted = m.deleted
<1> DEFINE was == m.deleted
           U == {x \in Memory \X (0..MaxRooms) :
                   MemoryTyped(x[1], x[2]) /\ x[1].deleted = was}
<1>0. m.deleted = was
  OBVIOUS
<1> HIDE DEF was
<1>1. ASSUME NEW n, NEW e, MemoryTyped(n, e)
      PROVE  /\ n \in Memory /\ e \in 0..MaxRooms
             /\ n.room \in 0..Len(n.rooms) /\ e \in 0..Len(n.rooms)
  <2>1. /\ n \in Memory /\ n.room \in 0..Len(n.rooms) /\ e \in 0..Len(n.rooms)
        /\ Len(n.rooms) <= MaxRooms
    BY <1>1, TypedParts
  <2>2. Len(n.rooms) \in Nat /\ MaxRooms \in Nat
    BY <2>1, MemoryFields, DurableObjectAssumption
  <2> QED BY <2>1, <2>2
<1>2. ASSUME NEW n, NEW e, MemoryTyped(n, e), n.deleted = was PROVE <<n, e>> \in U
  BY <1>1, <1>2
<1>3. ASSUME NEW x \in U
      PROVE  /\ x[1].room \in 0..Len(x[1].rooms) /\ x[2] \in 0..Len(x[1].rooms)
             /\ x[1].running = Idle /\ x[1].queue # <<>> =>
                  <<Taken(x[1], x[2]), TakenDone(x[1])>> \in U
  <2> DEFINE n == x[1]
             e == x[2]
  <2>1. MemoryTyped(n, e) /\ n.deleted = was
    OBVIOUS
  <2> HIDE DEF n, e, U
  <2>2. n.room \in 0..Len(n.rooms) /\ e \in 0..Len(n.rooms)
    BY <1>1, <2>1
  <2>3. n.queue # <<>> =>
          MemoryTyped(Taken(n, e), TakenDone(n)) /\ Taken(n, e).deleted = was
    BY <2>1, TakenTyped
  <2>4. n.queue # <<>> => <<Taken(n, e), TakenDone(n)>> \in U
    BY <1>2, <2>3
  <2> QED BY <2>2, <2>4 DEF n, e
<1>4. ClosedUnderTaking(U)
  <2>1. U \subseteq Memory \X (0..MaxRooms)
    OBVIOUS
  <2> HIDE DEF U
  <2> QED BY <1>3, <2>1 DEF ClosedUnderTaking
<1>5. <<m, d>> \in U
  BY <1>0, <1>2
<1>6. \A x \in U : MemoryTyped(x[1], x[2]) /\ x[1].deleted = was
  OBVIOUS
<1> HIDE DEF U
<1>7. PICK x \in U : RunTasks(m, d) = Continue(x[1], x[2])
  BY <1>4, <1>5, RunTasksKeeps
<1>8. MemoryTyped(x[1], x[2]) /\ x[1].deleted = was
  BY <1>6
<1>9. Continue(x[1], x[2]).deleted = was
  BY <1>8, ContinueTyped
<1> QED BY <1>0, <1>7, <1>9

\* A save that is done with, and what it has saved.
Ended(m, clock) == [m EXCEPT !.running = Idle, !.lastPersistedClock = clock]

\* That changes nothing else.
LEMMA EndedIs ==
    ASSUME NEW m \in Memory, NEW clock \in -1..MaxClock
    PROVE  /\ Ended(m, clock) \in Memory /\ Ended(m, clock).running = Idle
           /\ Ended(m, clock).lastPersistedClock = clock
           /\ Ended(m, clock).room = m.room
           /\ Ended(m, clock).rooms = m.rooms
           /\ Ended(m, clock).queue = m.queue
           /\ Ended(m, clock).throttled = m.throttled
           /\ Ended(m, clock).deleted = m.deleted
           /\ Ended(m, clock).isRestoring = m.isRestoring
           /\ Ended(m, clock).restore = m.restore
           /\ Ended(m, clock).restored = m.restored
           /\ Ended(m, clock).restoreRoom = m.restoreRoom
<1>1. Idle \in Running
  BY CanRun
<1> QED BY <1>1, Zenon DEF Ended, Memory

\* Whoever waited for the task that has ended is still to go on.
LEMMA EndedTyped ==
    ASSUME NEW m, MemoryTyped(m, NoRoom), NEW clock \in -1..MaxClock,
           NEW d, d = m.running.waiter
    PROVE  /\ MemoryTyped(Ended(m, clock), d)
           /\ OneRoomOK(m, NoRoom) => OneRoomOK(Ended(m, clock), d)
<1> DEFINE n == Ended(m, clock)
<1>1. /\ n \in Memory /\ n.running = Idle /\ n.lastPersistedClock = clock
      /\ n.room = m.room /\ n.rooms = m.rooms /\ n.queue = m.queue
      /\ n.restore = m.restore /\ n.restored = m.restored
      /\ n.restoreRoom = m.restoreRoom
  BY TypedParts, EndedIs
<1> HIDE DEF n
<1>2. Idle.type = "none" /\ Idle.waiter = NoRoom /\ Idle \in Running
  BY CanRun
<1>3. MemoryTyped(n, d)
  <2>1. RunningTyped(Idle, Len(m.rooms)) /\ d \in 0..Len(m.rooms)
    BY <1>2, TypedRooms, TypedParts DEF RunningTyped
  <2> QED BY <1>1, <2>1, TypedParts
<1>4. ASSUME OneRoomOK(m, NoRoom) PROVE OneRoomOK(n, d)
  <2>1. OneWaits(n, d)
    <3>1. OneWaits(m, NoRoom)
      BY <1>4 DEF OneRoomOK
    <3> QED BY <1>1, <1>2, <3>1 DEF OneWaits
  <2> QED BY <1>1, <1>2, <1>4, <2>1 DEF OneRoomOK
<1> QED BY <1>3, <1>4 DEF n

\* A snapshot that is put makes a file.
LEMMA SnapshotIsFile ==
    ASSUME ObjectInv, memory.running.type = "persist"
    PROVE  /\ memory.running.snapshot \in Snapshot
           /\ memory.running.snapshot.clock >= 0
           /\ IsFile(memory.running.snapshot)
           /\ \A v \in WithVersion(memory.running.snapshot) :
                v \in Snapshot /\ v.clock >= 0
           /\ memory.running.documentClock \in -1..MaxClock
<1>1. memory.running \in Running /\ memory.running.snapshot.clock >= 0
  BY MemoryNow, TypedParts DEF RunningTyped
<1>2. /\ memory.running.snapshot \in Snapshot
      /\ memory.running.documentClock \in 0..MaxClock
  BY <1>1, TaskFields
<1>3. memory.running.documentClock \in -1..MaxClock
  BY <1>2, DurableObjectAssumption
<1>4. \A v \in versions : v \in Snapshot /\ v.clock >= 0
  BY DEF ObjectInv
<1> QED BY <1>1, <1>2, <1>3, <1>4 DEF IsFile, WithVersion

\* A save is done: the bucket has all that the room had.
LEMMA PersistedOK ==
    ASSUME ObjectInv, Persisted
    PROVE  /\ ObjectInv' /\ memory'.deleted = memory.deleted
           /\ world = "evicted" /\ ~memory.deleted => bucket.docs \subseteq bucket'.docs
<1> DEFINE m == memory
           d == m.running.waiter
           at == m.running.documentClock
           b == m.running.snapshot
           n == Ended(m, at)
<1>1. /\ memory' = RunTasks(n, d) /\ bucket' = b /\ m.running.type = "persist"
      /\ versions' = WithVersion(b)
      /\ UNCHANGED <<alarm, requests, edits, world>>
  BY DEF Persisted, Ended
<1>2. /\ IsFile(b) /\ at \in -1..MaxClock
      /\ \A v \in WithVersion(b) : v \in Snapshot /\ v.clock >= 0
  BY <1>1, SnapshotIsFile
<1>3. /\ MemoryTyped(m, NoRoom) /\ m \in Memory
      /\ DOMAIN m.rooms = 1..Len(m.rooms)
      /\ world # "hasty" /\ ~m.deleted => OneRoomOK(m, NoRoom)
      /\ world = "evicted" /\ ~m.deleted =>
           SavedOK(m, NoRoom, bucket) /\ Planned(m, bucket, alarm)
      /\ world # "restored" => m.restore = "idle" /\ ~m.isRestoring
  BY MemoryNow
<1>4. /\ MemoryTyped(n, d) /\ (OneRoomOK(m, NoRoom) => OneRoomOK(n, d))
  BY <1>2, <1>3, EndedTyped
<1>5. /\ n.running = Idle /\ n.lastPersistedClock = at
      /\ n.room = m.room /\ n.rooms = m.rooms /\ n.queue = m.queue
      /\ n.throttled = m.throttled /\ n.deleted = m.deleted
      /\ n.isRestoring = m.isRestoring /\ n.restore = m.restore
  BY <1>2, <1>3, EndedIs
<1> HIDE DEF n, at, b, d, m
<1>6. Idle.type = "none"
  BY CanRun
<1>7. ASSUME SavedOK(m, NoRoom, bucket), Planned(m, bucket, alarm)
      PROVE  /\ SavedOK(n, d, b) /\ Planned(n, b, alarm)
             /\ bucket.docs \subseteq b.docs
  <2> DEFINE room == m.rooms[m.room]
  <2>1. /\ ~m.isRestoring
        /\ \A r \in DOMAIN m.rooms \ {m.room} :
             m.rooms[r].docs \subseteq bucket.docs
        /\ m.room # NoRoom => ~room.isClosed
    BY <1>7 DEF SavedOK
  <2>2. /\ m.room # NoRoom /\ room.state = "open"
        /\ bucket.docs \subseteq b.docs /\ b.docs \subseteq room.docs
        /\ at <= b.clock /\ at <= room.documentClock
        /\ at = room.documentClock => room.docs \subseteq b.docs
        /\ d # NoRoom /\ room.sessions = {} => at = room.documentClock
    BY <1>1, <1>7 DEF SavedOK, SaveIsNew, b, at, d
  <2>3. \A r \in DOMAIN m.rooms \ {m.room} : m.rooms[r].docs \subseteq b.docs
    BY <2>1, <2>2
  <2>4. SavedOK(n, d, b)
    BY <1>5, <1>6, <2>1, <2>2, <2>3 DEF SavedOK, SaveIsNew
  <2>5. Planned(n, b, alarm)
    <3>1. m.running.type # "loadToPersist"
      BY <1>1 DEF m
    <3> QED BY <1>5, <1>7, <2>2, <3>1 DEF Planned, b
  <2> QED BY <2>2, <2>4, <2>5
<1>8. MemoryOK(n, d, b, alarm, world)
  BY <1>3, <1>4, <1>5, <1>7 DEF MemoryOK
<1>9. MemoryOK(memory', NoRoom, bucket', alarm, world)
  BY <1>1, <1>5, <1>8, RunTasksOK
<1>10. memory'.deleted = m.deleted
  BY <1>1, <1>4, <1>5, RunTasksDeleted
<1>11. ObjectInv'
  BY <1>1, <1>2, <1>9 DEF ObjectInv
<1> QED BY <1>1, <1>3, <1>7, <1>10, <1>11 DEF m

\* A task that ends and changes nothing.
LEMMA RestedIs ==
    ASSUME NEW m \in Memory
    PROVE  /\ [m EXCEPT !.running = Idle] = Ended(m, m.lastPersistedClock)
           /\ m.lastPersistedClock \in -1..MaxClock
BY MemoryFields DEF Ended, Memory

\* A save fails.
LEMMA PersistFailsOK ==
    ASSUME ObjectInv, PersistFails
    PROVE  ObjectInv'
<1> DEFINE m == memory
           d == m.running.waiter
           n == Ended(m, m.lastPersistedClock)
<1>1. /\ MemoryTyped(m, NoRoom) /\ m \in Memory
      /\ world # "hasty" /\ ~m.deleted => OneRoomOK(m, NoRoom)
      /\ world # "restored" => m.restore = "idle" /\ ~m.isRestoring
  BY MemoryNow
<1>2. /\ world = "faulty" /\ memory' = RunTasks(n, d)
      /\ UNCHANGED <<alarm, requests, edits, world>>
      /\ bucket' \in {bucket, m.running.snapshot}
      /\ versions' \in {versions, WithVersion(m.running.snapshot)}
      /\ m.running.type = "persist"
  BY <1>1, RestedIs DEF PersistFails
<1>3. /\ IsFile(bucket')
      /\ \A v \in versions' : v \in Snapshot /\ v.clock >= 0
  BY <1>2, SnapshotIsFile DEF ObjectInv
<1>4. /\ MemoryTyped(n, d) /\ (OneRoomOK(m, NoRoom) => OneRoomOK(n, d))
  BY <1>1, RestedIs, EndedTyped
<1>5. /\ n.running = Idle /\ n.deleted = m.deleted
      /\ n.isRestoring = m.isRestoring /\ n.restore = m.restore
  BY <1>1, RestedIs, EndedIs
<1> HIDE DEF n, d, m
<1>6. MemoryOK(n, d, bucket', alarm, world)
  BY <1>1, <1>2, <1>4, <1>5 DEF MemoryOK
<1>7. MemoryOK(memory', NoRoom, bucket', alarm, world)
  BY <1>2, <1>5, <1>6, RunTasksOK
<1> QED BY <1>2, <1>3, <1>7 DEF ObjectInv

\* The file is deleted: the task is pushed.
LEMMA FileDeletedOK ==
    ASSUME ObjectInv, FileDeleted
    PROVE  ObjectInv'
<1> DEFINE n == [memory EXCEPT !.deleted = TRUE]
           task == [type |-> "delete", waiter |-> NoRoom]
<1>1. /\ MemoryTyped(memory, NoRoom) /\ memory \in Memory
      /\ world # "restored" => memory.restore = "idle" /\ ~memory.isRestoring
  BY MemoryNow
<1>2. memory' = Push(n, "delete", NoRoom)
      /\ UNCHANGED <<bucket, versions, alarm, requests, edits, world>>
  BY DEF FileDeleted
<1>3. /\ n \in Memory /\ n.deleted /\ n.room = memory.room /\ n.rooms = memory.rooms
      /\ n.queue = memory.queue /\ n.running = memory.running
      /\ n.isRestoring = memory.isRestoring /\ n.restore = memory.restore
      /\ n.restored = memory.restored /\ n.restoreRoom = memory.restoreRoom
  BY <1>1, Zenon DEF Memory
<1> HIDE DEF n
<1>4. MemoryTyped(n, NoRoom)
  BY <1>1, <1>3, TypedParts
<1>5. task \in Task /\ task.waiter = NoRoom
  <2>1. NoRoom \in 0..MaxRooms
    BY DurableObjectAssumption DEF NoRoom
  <2> QED BY <2>1 DEF Task
<1> DEFINE q == n.queue
           longer == Append(q, task)
<1>6. QueueTyped(longer, Len(n.rooms)) /\ longer \in Seq(Task)
  <2>1. /\ q \in Seq(Task) /\ NoRoom \in 0..Len(n.rooms)
        /\ \A i \in DOMAIN q : q[i].waiter \in 0..Len(n.rooms)
    BY <1>4, TypedParts, TypedRooms DEF QueueTyped
  <2> HIDE DEF q, task
  <2>2. /\ longer \in Seq(Task)
        /\ \A i \in DOMAIN longer : \/ i \in DOMAIN q /\ longer[i] = q[i]
                                    \/ i = Len(q) + 1 /\ longer[i] = task
    BY <1>5, <2>1, PushedWaits
  <2> HIDE DEF longer
  <2> QED BY <1>5, <2>1, <2>2 DEF QueueTyped
<1>7. Pushed(n, task) = WithQueue(n, longer)
  BY DEF Pushed
<1> HIDE DEF longer
<1>8. /\ MemoryTyped(Pushed(n, task), NoRoom) /\ Pushed(n, task).deleted
      /\ Pushed(n, task).restore = n.restore
      /\ Pushed(n, task).isRestoring = n.isRestoring
  BY <1>3, <1>4, <1>6, <1>7, WithQueueTyped, QueueIs
<1>9. MemoryOK(Pushed(n, task), NoRoom, bucket, alarm, world)
  <2> HIDE DEF task
  <2> QED BY <1>1, <1>3, <1>8 DEF MemoryOK
<1>10. MemoryOK(memory', NoRoom, bucket, alarm, world)
  BY <1>2, <1>3, <1>5, <1>9, PushOK
<1> QED BY <1>2, <1>10, MemoryStep

\* The file is gone.
LEMMA DeletedOK ==
    ASSUME ObjectInv, Deleted
    PROVE  /\ ObjectInv' /\ memory'.deleted = memory.deleted
           /\ world = "hasty" \/ memory.deleted
<1> DEFINE m == memory
           n == Ended(m, m.lastPersistedClock)
<1>1. /\ MemoryTyped(m, NoRoom) /\ m \in Memory
      /\ world # "hasty" /\ ~m.deleted => OneRoomOK(m, NoRoom)
      /\ world # "restored" => m.restore = "idle" /\ ~m.isRestoring
  BY MemoryNow
<1>2. /\ memory' = RunTasks(n, NoRoom) /\ bucket' = NoFile /\ versions' = {}
      /\ UNCHANGED <<requests, edits, world>>
      /\ m.running.type = "delete"
  BY <1>1, RestedIs DEF Deleted
<1>3. world = "hasty" \/ m.deleted
  BY <1>1, <1>2 DEF OneRoomOK
<1>4. IsFile(NoFile)
  <2>1. -1 \in -2..MaxClock
    BY DurableObjectAssumption
  <2> QED BY <2>1 DEF IsFile, NoFile, Snapshot
<1>5. MemoryTyped(n, NoRoom)
  <2>1. Len(n.rooms) = Len(m.rooms) /\ MemoryTyped(n, m.running.waiter)
    BY <1>1, RestedIs, EndedTyped, EndedIs
  <2>2. NoRoom \in 0..Len(n.rooms)
    BY <1>1, <2>1, TypedRooms
  <2> HIDE DEF n
  <2> QED BY <2>1, <2>2, DoneTyped
<1>6. /\ n.running = Idle /\ n.deleted = m.deleted
      /\ n.isRestoring = m.isRestoring /\ n.restore = m.restore
  BY <1>1, RestedIs, EndedIs
<1> HIDE DEF n, m
<1>7. MemoryOK(n, NoRoom, bucket', alarm', world)
  BY <1>1, <1>3, <1>5, <1>6 DEF MemoryOK
<1>8. MemoryOK(memory', NoRoom, bucket', alarm', world)
  BY <1>2, <1>6, <1>7, RunTasksOK
<1>9. memory'.deleted = m.deleted
  BY <1>2, <1>5, <1>6, RunTasksDeleted
<1>10. ObjectInv'
  BY <1>2, <1>4, <1>8 DEF ObjectInv
<1> QED BY <1>3, <1>9, <1>10 DEF m

\* An object that wakes up is as it should be, whatever there is in the bucket.
LEMMA AwakeOK ==
    ASSUME NEW m, NEW x \in BOOLEAN, m = [Awake EXCEPT !.deleted = x],
           NEW b, IsFile(b), NEW al, NEW w
    PROVE  MemoryOK(m, NoRoom, b, al, w) /\ m.deleted = x
<1>1. NoSnapshot \in Snapshot
  <2>1. -2 \in -2..MaxClock
    BY DurableObjectAssumption
  <2> QED BY <2>1 DEF NoSnapshot, Snapshot
<1>2. /\ NoRoom \in 0..MaxRooms /\ -1 \in -1..MaxClock /\ NoRoom = 0
      /\ MaxRooms >= 0
  BY DurableObjectAssumption DEF NoRoom
<1>3. Idle \in Running /\ Idle.type = "none" /\ Idle.waiter = NoRoom
  BY CanRun
<1>4. /\ m.room = NoRoom /\ m.rooms = <<>> /\ m.lastPersistedClock = -1
      /\ m.queue = <<>> /\ m.running = Idle /\ m.deleted = x
      /\ m.isRestoring = FALSE /\ m.restore = "idle"
      /\ m.restored = NoSnapshot /\ m.restoreRoom = NoRoom
  BY DEF Awake
<1>5. m \in Memory
  <2>1. <<>> \in Seq(Room) /\ <<>> \in Seq(Task)
    OBVIOUS
  <2>2. Awake \in Memory
    BY <1>1, <1>2, <1>3, <2>1, Zenon DEF Awake, Memory
  <2> QED BY <2>2, Zenon DEF Memory
<1>6. /\ Len(m.rooms) = 0 /\ DOMAIN m.rooms = {} /\ DOMAIN m.queue = {}
      /\ m.queue \in Seq(Task)
  <2>1. Len(<<>>) = 0 /\ DOMAIN <<>> = {} /\ <<>> \in Seq(Task)
    OBVIOUS
  <2>2. m.rooms = <<>> /\ m.queue = <<>>
    BY <1>4
  <2> QED BY <2>1, <2>2
<1>7. MemoryTyped(m, NoRoom)
  <2>1. RunningTyped(m.running, 0) /\ QueueTyped(m.queue, 0)
    BY <1>2, <1>3, <1>4, <1>6 DEF RunningTyped, QueueTyped
  <2>2. /\ 0 \in 0..0 /\ m.room = 0 /\ m.restoreRoom = 0
        /\ m.restore \notin {"put", "load"}
    BY <1>2, <1>4
  <2> QED BY <1>2, <1>5, <1>6, <2>1, <2>2, TypedParts
<1>8. OneRoomOK(m, NoRoom)
  BY <1>3, <1>4, <1>6 DEF OneRoomOK, OneWaits
<1>9. SavedOK(m, NoRoom, b)
  <2>1. -1 <= b.clock
    <3>1. CASE b = NoFile
      BY <3>1 DEF NoFile
    <3>2. CASE b.clock >= 0
      <4>1. b.clock \in Int
        BY TaskFields, DurableObjectAssumption DEF IsFile
      <4> QED BY <3>2, <4>1
    <3> QED BY <3>1, <3>2 DEF IsFile
  <2> QED BY <1>3, <1>4, <1>6, <2>1 DEF SavedOK, SaveIsNew
<1>10. Planned(m, b, al)
  BY <1>4 DEF Planned
<1> QED BY <1>4, <1>7, <1>8, <1>9, <1>10 DEF MemoryOK

\* The object is evicted.
LEMMA EvictedOK ==
    ASSUME ObjectInv, Evicted
    PROVE  /\ ObjectInv'
           /\ ~memory'.deleted => bucket.docs \subseteq bucket'.docs
<1> DEFINE x == memory.deleted /\ bucket # NoFile
<1>1. /\ memory' = [Awake EXCEPT !.deleted = x]
      /\ requests' = [s \in SessionIds |-> NoRequest] /\ world = "evicted"
      /\ UNCHANGED <<versions, alarm, edits, world>>
      /\ \/ bucket' = bucket
         \/ /\ memory.running.type = "persist"
            /\ bucket' = memory.running.snapshot
  BY DEF Evicted
<1>2. x \in BOOLEAN
  OBVIOUS
<1>3. IsFile(bucket')
  BY <1>1, SnapshotIsFile DEF ObjectInv
<1>4. MemoryOK(memory', NoRoom, bucket', alarm', world') /\ memory'.deleted = x
  <2> HIDE DEF x
  <2> QED BY <1>1, <1>2, <1>3, AwakeOK
<1>5. ObjectInv'
  BY <1>1, <1>3, <1>4 DEF ObjectInv
<1>6. ASSUME ~memory'.deleted PROVE bucket.docs \subseteq bucket'.docs
  <2>1. ~memory.deleted \/ bucket = NoFile
    BY <1>4, <1>6
  <2>2. CASE bucket = NoFile
    BY <2>2 DEF NoFile
  <2>3. CASE ~memory.deleted
    <3>1. SavedOK(memory, NoRoom, bucket)
      BY <1>1, <2>3, MemoryNow
    <3>2. memory.running.type = "persist" =>
            bucket.docs \subseteq memory.running.snapshot.docs
      BY <3>1 DEF SavedOK, SaveIsNew
    <3> QED BY <1>1, <3>2
  <2> QED BY <2>1, <2>2, <2>3
<1> QED BY <1>5, <1>6

\* A memory in which a restore has gone on.
WithRestore(m, restoring, state, snapshot, r) ==
    [m EXCEPT !.isRestoring = restoring, !.restore = state,
              !.restored = snapshot, !.restoreRoom = r]

\* That disturbs nothing else, where versions may be restored.
LEMMA RestoreGoesOn ==
    ASSUME NEW m, NEW b, NEW al, MemoryOK(m, NoRoom, b, al, "restored"),
           NEW restoring \in BOOLEAN, NEW state \in {"idle", "put", "load", "done"},
           NEW snapshot \in Snapshot, NEW r \in 0..Len(m.rooms),
           state \in {"put", "load"} => snapshot.clock >= 0,
           state = "load" => r # NoRoom,
           NEW c
    PROVE  /\ MemoryOK(WithRestore(m, restoring, state, snapshot, r), NoRoom, c,
                       al, "restored")
           /\ WithRestore(m, restoring, state, snapshot, r).rooms = m.rooms
           /\ WithRestore(m, restoring, state, snapshot, r).room = m.room
<1> DEFINE n == WithRestore(m, restoring, state, snapshot, r)
           w == "restored"
<1>1. /\ MemoryTyped(m, NoRoom) /\ m \in Memory /\ r \in 0..MaxRooms
  <2>1. MemoryTyped(m, NoRoom)
    BY DEF MemoryOK
  <2>2. m \in Memory /\ Len(m.rooms) \in Nat /\ Len(m.rooms) <= MaxRooms
    BY <2>1, TypedRooms
  <2> QED BY <2>1, <2>2, DurableObjectAssumption
<1>2. /\ n \in Memory /\ n.room = m.room /\ n.rooms = m.rooms
      /\ n.running = m.running /\ n.queue = m.queue /\ n.deleted = m.deleted
      /\ n.restore = state /\ n.restored = snapshot /\ n.restoreRoom = r
  BY <1>1, Zenon DEF WithRestore, Memory
<1> HIDE DEF n
<1>3. MemoryTyped(n, NoRoom)
  BY <1>1, <1>2, TypedParts
<1>4. OneRoomOK(m, NoRoom) => OneRoomOK(n, NoRoom)
  BY <1>2 DEF OneRoomOK, OneWaits
<1>5. ~m.deleted => OneRoomOK(m, NoRoom)
  BY DEF MemoryOK
<1>6. MemoryOK(n, NoRoom, c, al, w)
  BY <1>2, <1>3, <1>4, <1>5 DEF MemoryOK
<1> QED BY <1>2, <1>6 DEF n

\* A version to restore has been found.
LEMMA RestoreStartsOK ==
    ASSUME ObjectInv, RestoreStarts
    PROVE  ObjectInv'
<1>1. PICK v \in versions :
        memory' = [memory EXCEPT !.isRestoring = TRUE, !.restore = "put",
                                 !.restored = v]
  BY DEF RestoreStarts
<1>2. /\ MemoryOK(memory, NoRoom, bucket, alarm, world) /\ memory \in Memory
      /\ world = "restored" /\ memory.restoreRoom \in 0..Len(memory.rooms)
      /\ v \in Snapshot /\ v.clock >= 0
      /\ UNCHANGED <<bucket, versions, alarm, requests, edits, world>>
  BY MemoryNow, TypedParts DEF RestoreStarts, ObjectInv
<1> DEFINE yes == TRUE
           state == "put"
           k == memory.restoreRoom
<1>3. memory' = WithRestore(memory, yes, state, v, k)
  BY <1>1, <1>2 DEF WithRestore, Memory
<1>4. yes \in BOOLEAN /\ state = "put"
  OBVIOUS
<1> HIDE DEF yes, state, k
<1>5. MemoryOK(memory', NoRoom, bucket, alarm, world)
  BY <1>2, <1>3, <1>4, RestoreGoesOn DEF k
<1> QED BY <1>2, <1>5, MemoryStep

\* The restore has ended.
EndOf(m, r) == [m EXCEPT !.isRestoring = FALSE, !.restore = "done",
                         !.restored = NoSnapshot, !.restoreRoom = r]

\* It leaves nothing to restore.
LEMMA RestoreEnds ==
    ASSUME NEW m, NEW b, NEW al, MemoryOK(m, NoRoom, b, al, "restored"),
           NEW r \in 0..Len(m.rooms)
    PROVE  /\ MemoryOK(EndOf(m, r), NoRoom, b, al, "restored")
           /\ EndOf(m, r).rooms = m.rooms /\ EndOf(m, r).room = m.room
<1> DEFINE no == FALSE
           state == "done"
           w == "restored"
<1>1. NoSnapshot \in Snapshot
  <2>1. -2 \in -2..MaxClock
    BY DurableObjectAssumption
  <2> QED BY <2>1 DEF NoSnapshot, Snapshot
<1>2. EndOf(m, r) = WithRestore(m, no, state, NoSnapshot, r)
  BY DEF EndOf, WithRestore
<1>3. no \in BOOLEAN /\ state = "done" /\ w = "restored"
  OBVIOUS
<1>4. MemoryOK(m, NoRoom, b, al, w)
  OBVIOUS
<1> HIDE DEF no, state
<1>5. /\ MemoryOK(EndOf(m, r), NoRoom, b, al, w)
      /\ EndOf(m, r).rooms = m.rooms /\ EndOf(m, r).room = m.room
  BY <1>1, <1>2, <1>3, <1>4, RestoreGoesOn
<1> QED BY <1>5

\* The put of the version fails, or there is no such version.
LEMMA RestoreFailsOK ==
    ASSUME ObjectInv, RestoreFails
    PROVE  ObjectInv'
<1> DEFINE k == memory.restoreRoom
<1>1. /\ MemoryOK(memory, NoRoom, bucket, alarm, world) /\ memory \in Memory
      /\ world = "restored" /\ k \in 0..Len(memory.rooms)
      /\ UNCHANGED <<bucket, versions, alarm, requests, edits, world>>
  BY MemoryNow, TypedParts DEF RestoreFails
<1>2. memory' = EndOf(memory, k)
  BY <1>1 DEF RestoreFails, EndOf, Memory
<1> HIDE DEF k
<1>3. MemoryOK(memory', NoRoom, bucket, alarm, world)
  BY <1>1, <1>2, RestoreEnds
<1> QED BY <1>1, <1>3, MemoryStep

\* The version has been put, and the room that it goes to has been got.
LEMMA RestorePutsOK ==
    ASSUME ObjectInv, RestorePuts
    PROVE  ObjectInv' /\ world = "restored"
<1> DEFINE m == GetRoom(memory)
           restoring == m.isRestoring
           v == m.restored
           r == m.room
           state == "load"
<1>1. /\ MemoryOK(memory, NoRoom, bucket, alarm, world) /\ memory \in Memory
      /\ memory.restored.clock >= 0 /\ memory.restored \in Snapshot
      /\ memory.restore = "put" /\ CanGetRoom(memory)
      /\ world = "restored"
      /\ UNCHANGED <<versions, alarm, requests, edits, world>>
      /\ bucket' = memory.restored
  BY MemoryNow, TypedParts, MemoryFields DEF RestorePuts
<1>2. /\ MemoryOK(m, NoRoom, bucket, alarm, world) /\ r \in 1..Len(m.rooms)
      /\ v = memory.restored /\ m.restore = "put"
  BY <1>1, GetRoomOK
<1>3. memory' = [m EXCEPT !.restore = state, !.restoreRoom = r]
  BY DEF RestorePuts
<1> HIDE DEF m
<1>4. /\ MemoryTyped(m, NoRoom) /\ m \in Memory /\ restoring \in BOOLEAN
      /\ v \in Snapshot /\ v.clock >= 0
  <2>1. MemoryTyped(m, NoRoom)
    BY <1>2 DEF MemoryOK
  <2>2. m \in Memory
    BY <2>1, TypedParts
  <2> QED BY <1>1, <1>2, <2>1, <2>2, MemoryFields
<1>5. memory' = WithRestore(m, restoring, state, v, r)
  BY <1>3, <1>4 DEF WithRestore, Memory
<1>6. r \in 0..Len(m.rooms) /\ r # NoRoom /\ state = "load"
  BY <1>2, <1>4, TypedRooms
<1> HIDE DEF restoring, v, r, state
<1>7. MemoryOK(memory', NoRoom, bucket', alarm, world)
  BY <1>1, <1>2, <1>4, <1>5, <1>6, RestoreGoesOn
<1>8. IsFile(bucket')
  BY <1>1 DEF IsFile
<1>9. ObjectInv'
  BY <1>1, <1>7, <1>8 DEF ObjectInv
<1> QED BY <1>1, <1>9

\* The room has got the version, or there is no room.
LEMMA RestoreLoadsOK ==
    ASSUME ObjectInv, RestoreLoads
    PROVE  ObjectInv'
<1> DEFINE r == memory.restoreRoom
           n == EndOf(memory, NoRoom)
           old == memory.rooms[r]
           v == memory.restored
           c == old.clock + 1
           room == [old EXCEPT !.docs = v.docs, !.clock = c, !.documentClock = c,
                               !.sessions = {}, !.listening = FALSE,
                               !.isClosed = FALSE]
<1>1. /\ MemoryOK(memory, NoRoom, bucket, alarm, world) /\ memory \in Memory
      /\ MemoryTyped(memory, NoRoom)
      /\ DOMAIN memory.rooms = 1..Len(memory.rooms)
      /\ memory.restore = "load" /\ world = "restored"
      /\ UNCHANGED <<bucket, versions, alarm, requests, edits, world>>
  BY MemoryNow DEF RestoreLoads
<1>2. /\ r \in 1..Len(memory.rooms) /\ v \in Snapshot /\ v.docs \in SUBSET Edits
      /\ NoRoom \in 0..Len(memory.rooms)
  <2>1. r \in 0..Len(memory.rooms) /\ r # NoRoom
    BY <1>1, TypedParts
  <2>2. v \in Snapshot
    BY <1>1, MemoryFields
  <2> QED BY <1>1, <2>1, <2>2, TypedRooms, TaskFields DEF NoRoom
<1>3. /\ old \in Room /\ old.clock \in 0..MaxClock /\ old.clock < MaxClock
      /\ old.state \in {"open", "failed"} /\ c \in 0..MaxClock
  <2>1. old \in Room
    BY <1>1, <1>2, TypedRooms
  <2>2. /\ old.clock \in 0..MaxClock /\ old.state \in {"loading", "open", "failed"}
    BY <2>1, RoomFields
  <2>3. old.state # "loading" /\ old.clock < MaxClock
    BY DEF RestoreLoads
  <2> QED BY <2>1, <2>2, <2>3, DurableObjectAssumption
<1>4. /\ MemoryOK(n, NoRoom, bucket, alarm, world) /\ n.rooms = memory.rooms
      /\ n.room = memory.room
  BY <1>1, <1>2, RestoreEnds
<1>5. \/ memory' = n
      \/ old.state = "open" /\ memory' = WithRoom(n, r, room)
  <2>1. CASE old.state = "failed"
    BY <2>1 DEF RestoreLoads, EndOf
  <2>2. CASE old.state = "open"
    <3>1. memory' = LoadSnapshot(n, r, v)
      BY <2>2 DEF RestoreLoads, EndOf
    <3> HIDE DEF n
    <3>2. LoadSnapshot(n, r, v) = WithRoom(n, r, room)
      <4> DEFINE now == n.rooms[r]
                 loaded == [now EXCEPT !.docs = v.docs, !.clock = now.clock + 1,
                                       !.documentClock = now.clock + 1,
                                       !.sessions = {}, !.listening = FALSE,
                                       !.isClosed = FALSE]
      <4>1. LoadSnapshot(n, r, v) = WithRoom(n, r, loaded)
        <5>1. now \in Room
          BY <1>3, <1>4
        <5> HIDE DEF r, v
        <5> QED BY <5>1 DEF LoadSnapshot, WithRoom, Room
      <4>2. loaded = room
        BY <1>3, <1>4 DEF Room
      <4> HIDE DEF loaded, room
      <4> QED BY <4>1, <4>2
    <3> QED BY <2>2, <3>1, <3>2
  <2> QED BY <1>3, <2>1, <2>2
<1>6. CASE memory' = n
  BY <1>1, <1>4, <1>6, MemoryStep
<1>7. CASE old.state = "open" /\ memory' = WithRoom(n, r, room)
  <2> HIDE DEF n, old, v, c
  <2>1. /\ room \in Room /\ room.state = old.state /\ room.sessions = {}
        /\ room.clock = c /\ room.documentClock = c
    <3>1. {} \in SUBSET SessionIds
      OBVIOUS
    <3> QED BY <1>2, <1>3, <3>1, Zenon DEF Room
  <2> HIDE DEF room
  <2>2. RoomTyped(room)
    <3>1. c <= c
      BY <1>3
    <3> QED BY <1>7, <2>1, <3>1 DEF RoomTyped
  <2>3. r \in 1..Len(n.rooms) /\ old = n.rooms[r]
    BY <1>2, <1>4 DEF old
  <2>4. MemoryOK(WithRoom(n, r, room), NoRoom, bucket, alarm, world)
    BY <1>1, <1>4, <2>1, <2>2, <2>3, RoomChanges
  <2> QED BY <1>1, <1>7, <2>4, MemoryStep
<1> QED BY <1>5, <1>6, <1>7

\* The object as it is made.
LEMMA InitOK == ObjectInit => ObjectInv
<1> SUFFICES ASSUME ObjectInit PROVE ObjectInv
  OBVIOUS
<1> DEFINE no == FALSE
<1>1. IsFile(bucket) /\ bucket.clock = 0
  <2>1. 0 \in -2..MaxClock /\ {} \in SUBSET Edits
    BY DurableObjectAssumption
  <2> QED BY <2>1 DEF ObjectInit, IsFile, Snapshot
<1>2. versions \subseteq Snapshot /\ \A v \in versions : v.clock >= 0
  BY <1>1 DEF ObjectInit, IsFile
<1>3. MemoryOK(memory, NoRoom, bucket, alarm, world)
  <2>1. Awake.deleted = no /\ no \in BOOLEAN
    BY Zenon DEF Awake
  <2>2. memory = Awake
    BY DEF ObjectInit
  <2> HIDE DEF no
  <2>3. memory = [Awake EXCEPT !.deleted = no]
    BY <2>1, <2>2 DEF Awake
  <2> QED BY <1>1, <2>1, <2>3, AwakeOK
<1>4. /\ requests \in [SessionIds -> {NoRequest, Checked} \cup RoomIds]
      /\ edits \in 0..MaxEdits /\ world \in World
  BY DurableObjectAssumption DEF ObjectInit
<1> QED BY <1>1, <1>2, <1>3, <1>4 DEF ObjectInv

\* Every step.
LEMMA NextOK == ObjectInv /\ [ObjectNext]_objectVars => ObjectInv'
<1> SUFFICES ASSUME ObjectInv, [ObjectNext]_objectVars PROVE ObjectInv'
  OBVIOUS
<1>1. ASSUME NEW s \in SessionIds, Request(s) \/ AskForRoom(s)
      PROVE  ObjectInv'
  BY <1>1, RequestOK, AskForRoomOK
<1>2. ASSUME NEW r \in DOMAIN memory.rooms,
             \/ RoomLoads(r) \/ Edit(r) \/ Move(r)
             \/ \E s \in SessionIds : SessionRemoved(r, s)
      PROVE  ObjectInv'
  BY <1>2, RoomLoadsOK, EditOK, MoveOK, SessionRemovedOK
<1>3. CASE SchedulePersist
  BY <1>3, SchedulePersistOK
<1>4. CASE Alarm
  BY <1>4, AlarmOK
<1>5. CASE Persisted
  BY <1>5, PersistedOK
<1>6. CASE PersistFails
  BY <1>6, PersistFailsOK
<1>7. CASE RestoreStarts
  BY <1>7, RestoreStartsOK
<1>8. CASE RestoreFails
  BY <1>8, RestoreFailsOK
<1>9. CASE RestorePuts
  BY <1>9, RestorePutsOK
<1>10. CASE RestoreLoads
  BY <1>10, RestoreLoadsOK
<1>11. CASE FileDeleted
  BY <1>11, FileDeletedOK
<1>12. CASE Deleted
  BY <1>12, DeletedOK
<1>13. CASE Evicted
  BY <1>13, EvictedOK
<1>14. CASE UNCHANGED objectVars
  BY <1>14 DEF objectVars, ObjectInv
<1> QED BY <1>1, <1>2, <1>3, <1>4, <1>5, <1>6, <1>7, <1>8, <1>9, <1>10, <1>11,
           <1>12, <1>13, <1>14 DEF ObjectNext

\* The invariant holds always.
LEMMA ObjectInvariant == ObjectSpec => []ObjectInv
BY InitOK, NextOK, PTL DEF ObjectSpec

-----------------------------------------------------------------------------
\* Whatever the order in which the bucket and the other services answer, the
\* object's memory, its task queue and its bucket are what TLDrawDurableObject
\* takes them for; no clock of a room passes its bound.
THEOREM ObjectTypeCorrect == ObjectSpec => []ObjectTypeOK
<1>1. ObjectInv => ObjectTypeOK
  BY MemoryNow DEF ObjectInv, ObjectTypeOK, IsFile
<1> QED BY <1>1, ObjectInvariant, PTL

\* getRoom and onSessionRemoved: as long as no session leaves while the save
\* for the last one is under way, all who have the file open are in the one room
\* that the object has, and so in the one that is saved.
THEOREM OneRoomCorrect == ObjectSpec => []OneRoom
<1>1. ObjectInv => OneRoom
  <2> SUFFICES ASSUME ObjectInv, world # "hasty", ~memory.deleted
               PROVE  AllInOneRoom
    BY DEF OneRoom
  <2>1. OneRoomOK(memory, NoRoom)
    BY MemoryNow
  <2> QED BY <2>1 DEF OneRoomOK, AllInOneRoom, IsServing
<1> QED BY <1>1, ObjectInvariant, PTL

\* onSessionRemoved closes the room after the save that it awaited: what the
\* room has is in the bucket then, and so it stays through evictions.
THEOREM SavedWhenClosedCorrect == ObjectSpec => []SavedWhenClosed
<1>1. ObjectInv => SavedWhenClosed
  <2> SUFFICES ASSUME ObjectInv, Undisturbed, NEW r \in DOMAIN memory.rooms,
                      memory.rooms[r].isClosed
               PROVE  Saved(r)
    BY DEF SavedWhenClosed
  <2>1. SavedOK(memory, NoRoom, bucket)
    BY MemoryNow DEF Undisturbed
  <2>2. memory.room # r
    <3>1. r # NoRoom
      BY MemoryNow, TypedRooms DEF NoRoom
    <3> QED BY <2>1, <3>1 DEF SavedOK
  <2> QED BY <2>1, <2>2 DEF SavedOK, Saved
<1> QED BY <1>1, ObjectInvariant, PTL

\* persistToDatabase, its schedule and its alarm: a room with changes that are
\* not in the bucket always has a save ahead of it that will contain them.
THEOREM SaveIsPlannedCorrect == ObjectSpec => []SaveIsPlanned
<1>1. ObjectInv => SaveIsPlanned
  <2> SUFFICES ASSUME ObjectInv, Undisturbed, NEW r \in DOMAIN memory.rooms
               PROVE  SaveIsPlannedFor(r)
    BY DEF SaveIsPlanned
  <2>1. SavedOK(memory, NoRoom, bucket) /\ Planned(memory, bucket, alarm)
    BY MemoryNow DEF Undisturbed
  <2>2. CASE memory.room = r
    <3>1. r # NoRoom
      BY MemoryNow, TypedRooms DEF NoRoom
    <3> QED BY <2>1, <2>2, <3>1 DEF Planned, SaveIsPlannedFor, Saved
  <2>3. CASE memory.room # r
    BY <2>1, <2>3 DEF SavedOK, SaveIsPlannedFor, Saved
  <2> QED BY <2>2, <2>3
<1> QED BY <1>1, ObjectInvariant, PTL

\* persistToDatabase replaces the file: no save takes from the bucket what an
\* earlier one brought there, in this life of the object or in one before.
THEOREM SavesAddUpCorrect == ObjectSpec => SavesAddUp
<1> DEFINE AddsUp == Undisturbed' => bucket.docs \subseteq bucket'.docs
<1>1. ObjectInv /\ [ObjectNext]_objectVars => [AddsUp]_objectVars
  <2> SUFFICES ASSUME ObjectInv, ObjectNext, Undisturbed'
               PROVE  bucket.docs \subseteq bucket'.docs
    OBVIOUS
  <2>1. world' = "evicted" /\ ~memory'.deleted
    BY DEF Undisturbed
  <2>2. CASE Persisted
    <3>1. world = "evicted" /\ ~memory.deleted
      BY <2>1, <2>2, PersistedOK DEF Persisted
    <3> QED BY <2>2, <3>1, PersistedOK
  <2>3. CASE PersistFails
    BY <2>1, <2>3 DEF PersistFails
  <2>4. CASE RestorePuts
    <3>1. world' = world
      BY <2>4 DEF RestorePuts
    <3>2. world = "restored"
      BY <2>4, RestorePutsOK
    <3> QED BY <2>1, <3>1, <3>2
  <2>5. CASE Deleted
    <3>1. world' = world
      BY <2>5 DEF Deleted
    <3> QED BY <2>1, <2>5, <3>1, DeletedOK
  <2>6. CASE Evicted
    BY <2>1, <2>6, EvictedOK
  <2>7. CASE \/ \E s \in SessionIds : Request(s) \/ AskForRoom(s)
             \/ \E r \in DOMAIN memory.rooms :
                  \/ RoomLoads(r) \/ Edit(r) \/ Move(r)
                  \/ \E s \in SessionIds : SessionRemoved(r, s)
    <3>1. UNCHANGED bucket
      BY <2>7 DEF Request, AskForRoom, RoomLoads, Edit, Move, SessionRemoved
    <3> QED BY <3>1
  <2>8. CASE \/ SchedulePersist \/ Alarm \/ RestoreStarts \/ RestoreFails
             \/ RestoreLoads \/ FileDeleted
    <3>1. UNCHANGED bucket
      BY <2>8 DEF SchedulePersist, Alarm, RestoreStarts, RestoreFails,
                  RestoreLoads, FileDeleted
    <3> QED BY <3>1
  <2> QED BY <2>2, <2>3, <2>4, <2>5, <2>6, <2>7, <2>8 DEF ObjectNext
<1>2. ObjectSpec => [][AddsUp]_objectVars
  BY <1>1, ObjectInvariant, PTL DEF ObjectSpec
<1> QED BY <1>2 DEF SavesAddUp
=============================================================================
