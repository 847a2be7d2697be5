----------------------------- MODULE DataFetch -----------------------------
(***************************************************************************)
(* Data-fetch tasks: their creation, and what the consumer of              *)
(* coreservice.tasks.status does with a result (handleTaskStatusMessage,   *)
(* createFilesFromMessage, handleDataFetchTaskResult): one file document   *)
(* per stored file, and the files recorded in the payload of the task.     *)
(*                                                                         *)
(* The data-service reports for the dataIds it was told, and may add files *)
(* of its own, with or without a dataId of its own making.                 *)
(***************************************************************************)
EXTENDS Naturals, Sequences, FiniteSetsExt, SequencesExt

CONSTANTS Task,        \* ids of tasks
          Known,       \* those that calls of POST /tasks create here
          Sensor,      \* the sensor documents
          GroupSensor, \* the sensors of the group a task may be made for
          Name,        \* file names
          NoName,      \* a file name that is not given
          SharedNames, \* may two files of one result have one name?
          MaxEntities, \* bound on the entities of a call
          MaxItems,    \* bound on the items of a result
          MaxSent,     \* bound on the items of all results
          MaxCrashes   \* bound on restarts of the service

ASSUME TaskAssumption  == Known \subseteq Task
ASSUME GroupAssumption == GroupSensor \subseteq Sensor /\ IsFiniteSet(GroupSensor)
ASSUME NameAssumption  == NoName \notin Name
ASSUME BoundAssumption == /\ SharedNames \in BOOLEAN
                          /\ MaxEntities \in Nat /\ MaxItems \in Nat
                          /\ MaxSent \in Nat /\ MaxCrashes \in Nat

VARIABLES
  stored,  \* the tasks in the collection
  status,  \* their status
  data,    \* their payload.data
  sched,   \* the tasks the data-service was told of
  told,    \* the dataIds the data-service knows for a task
  files,   \* the file documents results have created, by _id
  ids,     \* the _ids and dataIds handed out so far
  sent,    \* the items of the results so far
  queue,   \* results in coreservice.tasks.status
  handler, \* what became of the delivery of Head(queue), and the files it made
  crashes, \* restarts so far
  retried  \* history: paths delivered again after files were made for them

vars == <<stored, status, data, sched, told, files, ids, sent, queue,
          handler, crashes, retried>>

----------------------------------------------------------------------------
\* 0 is no dataId, no fileId and no path.  A path names a stored object, and
\* every item of every result has an object of its own.

\* An entry of payload.data.
SensorData == [dataId : Nat \ {0}, sensor : Sensor, fileName : Name \cup {NoName},
               path : Nat, fileId : Nat]

\* TaskResultSensor: without a path nothing was stored for it.
ResultItem == [dataId : Nat, sensor : Sensor, fileName : Name, path : Nat]
ResultMsg  == [task : Task, items : Seq(ResultItem)]

FileDoc == [name : Name, path : Nat \ {0}]

NewEntry(id, sensor, name) ==
  [dataId |-> id, sensor |-> sensor, fileName |-> name, path |-> 0, fileId |-> 0]

Idle == [phase |-> "idle", created |-> {}]

pathsOf(m) == {m.items[i].path : i \in DOMAIN m.items} \ {0}

----------------------------------------------------------------------------
(* The definitions named ...Wrong are slips a change of the code could     *)
(* make; no action uses them, and a property notices each.                 *)

\* A file document for an item that has no path, too.
pathlessKeptWrong(m) == DOMAIN m.items

\* createFilesFromMessage: the items a file document is made for.
filesOf(m) == {i \in DOMAIN m.items : m.items[i].path # 0}

\* The first file of the name found, of all files.
anyFileWrong(created, name) ==
  LET same == {i \in DOMAIN files : files[i].name = name}
  IN  IF same = {} THEN 0 ELSE Min(same)

\* createdFilesByFileNameMap: of files of one name the last one stays.
fileNamed(created, name) ==
  LET same == {i \in created : files[i].name = name}
  IN  IF same = {} THEN 0 ELSE Max(same)

\* The fields of the entry kept as they were.
notUpdatedWrong(item, sensor, id, file) ==
  [NewEntry(id, sensor, item.fileName) EXCEPT !.fileId = file]

\* A dataId drawn for every entry.
redrawnWrong(item, sensor, id, file) ==
  [dataId |-> ids + 1, sensor |-> sensor, fileName |-> item.fileName,
   path |-> item.path, fileId |-> file]

\* The sensor of the item, whatever the entry had.
sensorTakenWrong(item, sensor, id, file) ==
  [dataId |-> id, sensor |-> item.sensor, fileName |-> item.fileName,
   path |-> item.path, fileId |-> file]

\* mapFileToSensorData
mapFileToSensorData(item, sensor, id, file) ==
  [dataId |-> id, sensor |-> sensor, fileName |-> item.fileName,
   path |-> item.path, fileId |-> file]

\* The entry of an item, if its dataId is that of one.
itemsOf(e, m) == {i \in DOMAIN m.items : m.items[i].dataId = e.dataId}

\* The loop of handleDataFetchTaskResult over one message: an entry of no item stays;
untouched(entries, m) == {e \in entries : itemsOf(e, m) = {}}

\* the item of an entry rewrites it, but for the sensor;
rewritten(entries, m, created) ==
  UNION {{mapFileToSensorData(m.items[i], e.sensor, e.dataId,
                              fileNamed(created, m.items[i].fileName)) :
            i \in itemsOf(e, m)} : e \in entries}

\* An item that has rewritten an entry adds one as well.
addedTooWrong(entries, m, created) ==
  {mapFileToSensorData(m.items[i], m.items[i].sensor, ids + i,
                       fileNamed(created, m.items[i].fileName)) :
     i \in {k \in DOMAIN m.items : fileNamed(created, m.items[k].fileName) # 0}}

\* an item of no entry adds one, if a file was made for its name.
added(entries, m, created) ==
  {mapFileToSensorData(m.items[i], m.items[i].sensor,
                       IF m.items[i].dataId = 0 THEN ids + i ELSE m.items[i].dataId,
                       fileNamed(created, m.items[i].fileName)) :
     i \in {k \in DOMAIN m.items : /\ fileNamed(created, m.items[k].fileName) # 0
                                   /\ \A e \in entries : k \notin itemsOf(e, m)}}

merged(entries, m, created) ==
  untouched(entries, m) \cup rewritten(entries, m, created) \cup added(entries, m, created)

----------------------------------------------------------------------------
Init ==
  /\ stored = {}
  /\ status = [t \in Task |-> "NOT_STARTED"]
  /\ data = [t \in Task |-> {}]
  /\ sched = {}
  /\ told = [t \in Task |-> {}]
  /\ files = <<>>
  /\ ids = 0 /\ sent = 0
  /\ queue = <<>>
  /\ handler = Idle
  /\ crashes = 0 /\ retried = {}

----------------------------------------------------------------------------
(* createDataFetchTaskEntity.                                              *)

Create(t, entries, count) ==
  /\ t \in Known \ stored
  /\ stored' = stored \cup {t}
  /\ data' = [data EXCEPT ![t] = entries]
  /\ ids' = ids + count
  /\ UNCHANGED <<status, sched, told, files, sent, queue, handler, crashes,
                 retried>>

\* entityType SENSOR: one entry per entity, a sensor may be named repeatedly.
CreateForSensors(t, entities) ==
  Create(t, {NewEntry(ids + i, entities[i].sensor, entities[i].fileName) :
               i \in DOMAIN entities},
         Len(entities))

\* entityType GROUP: one entry per sensor of the group.  The file name is given
\* as filename, which the schema does not know.
CreateForGroup(t, order) ==
  Create(t, {NewEntry(ids + i, order[i], NoName) : i \in DOMAIN order}, Len(order))

\* populate and mapDataFetchTask: the data-service is told of the entries whose
\* sensor is still there; gone are the sensors that were deleted.
ScheduleTask(t, gone) ==
  /\ t \in stored \ sched
  /\ sched' = sched \cup {t}
  /\ told' = [told EXCEPT ![t] = {e.dataId : e \in {d \in data[t] : d.sensor \notin gone}}]
  /\ UNCHANGED <<stored, status, data, files, ids, sent, queue, handler,
                 crashes, retried>>

----------------------------------------------------------------------------
(* The data-service: a DONE message on a task it was told of, or on one    *)
(* that is not of this service.  The dataIds of a message differ; own says *)
(* which items get one of the data-service's own.                          *)

SendResult(t, items, own) ==
  LET item(i) == [dataId |-> IF i \in own THEN ids + i ELSE items[i].dataId,
                  sensor |-> items[i].sensor, fileName |-> items[i].fileName,
                  path |-> IF items[i].kept THEN sent + i ELSE 0]
  IN
  /\ \A i, j \in DOMAIN items : i # j =>
       /\ items[i].dataId = items[j].dataId => items[i].dataId = 0
       /\ SharedNames \/ items[i].fileName # items[j].fileName
  /\ \A i \in own : items[i].dataId = 0
  /\ sent' = sent + Len(items)
  /\ ids' = ids + Len(items)
  /\ told' = [told EXCEPT ![t] = @ \cup {item(i).dataId : i \in own}]
  /\ queue' = Append(queue, [task |-> t, items |-> [i \in DOMAIN items |-> item(i)]])
  /\ UNCHANGED <<stored, status, data, sched, files, handler, crashes,
                 retried>>

----------------------------------------------------------------------------
(* handleTaskStatusMessage for a data-fetch task that is DONE.             *)

UpdateStatus ==
  LET t == Head(queue).task IN
  /\ handler.phase = "idle" /\ queue # <<>>
  /\ status' = IF t \in stored THEN [status EXCEPT ![t] = "DONE"] ELSE status
  /\ handler' = [phase |-> "updated", created |-> {}]
  /\ UNCHANGED <<stored, data, sched, told, files, ids, sent, queue, crashes,
                 retried>>

\* createFilesFromMessage: insertMany, for known and unknown tasks alike; the
\* _ids are in the order of the items.
CreateFiles ==
  LET items == Head(queue).items
      new   == {ids + i : i \in filesOf(Head(queue))}
      doc(k) == [name |-> items[k - ids].fileName, path |-> items[k - ids].path]
  IN
  /\ handler.phase = "updated"
  /\ files' = [k \in DOMAIN files \cup new |-> IF k \in new THEN doc(k) ELSE files[k]]
  /\ handler' = [phase |-> "created", created |-> new]
  /\ ids' = ids + Len(items)
  /\ UNCHANGED <<stored, status, data, sched, told, sent, queue, crashes, retried>>

\* handleDataFetchTaskResult.  Results are the only writers of payload.data and
\* are handled one by one, so that loading and saving need no steps of their own.
SaveResult ==
  LET m == Head(queue) IN
  /\ handler.phase = "created"
  /\ data' = IF m.task \in stored
             THEN [data EXCEPT ![m.task] = merged(@, m, handler.created)]
             ELSE data
  /\ status' = IF m.task \in stored THEN [status EXCEPT ![m.task] = "DONE"] ELSE status
  /\ ids' = ids + Len(m.items)
  /\ handler' = [handler EXCEPT !.phase = "applied"]
  /\ UNCHANGED <<stored, sched, told, files, sent, queue, crashes, retried>>

Ack ==
  /\ handler.phase = "applied"
  /\ queue' = Tail(queue)
  /\ handler' = Idle
  /\ UNCHANGED <<stored, status, data, sched, told, files, ids, sent, crashes,
                 retried>>

\* errorHandler only logs: the message stays in front and nothing follows it.
Fail ==
  /\ \/ handler.phase = "idle" /\ queue # <<>>
     \/ handler.phase \in {"updated", "created"}
  /\ handler' = [handler EXCEPT !.phase = "blocked"]
  /\ UNCHANGED <<stored, status, data, sched, told, files, ids, sent, queue,
                 crashes, retried>>

\* The broker delivers the unacknowledged message again.
Crash ==
  /\ crashes < MaxCrashes
  /\ crashes' = crashes + 1
  /\ handler' = Idle
  /\ retried' = IF handler.created # {} THEN retried \cup pathsOf(Head(queue))
                                        ELSE retried
  /\ UNCHANGED <<stored, status, data, sched, told, files, ids, sent, queue>>

----------------------------------------------------------------------------
Entity == [sensor : Sensor, fileName : Name \cup {NoName}]

\* What the data-service may put into a result for t.
Report(t) == [dataId : told[t] \cup {0}, sensor : Sensor, fileName : Name,
              kept : BOOLEAN]

Next ==
  \/ \E t \in Task, count \in 1 .. MaxEntities :
       \E entities \in [1 .. count -> Entity] : CreateForSensors(t, entities)
  \/ \E t \in Task, order \in SetToSeqs(GroupSensor) : CreateForGroup(t, order)
  \/ \E t \in Task, gone \in SUBSET Sensor : ScheduleTask(t, gone)
  \/ \E t \in sched \cup (Task \ Known), count \in 1 .. MaxItems :
       /\ sent + count <= MaxSent
       /\ \E items \in [1 .. count -> Report(t)], own \in SUBSET (1 .. count) :
            SendResult(t, items, own)
  \/ UpdateStatus
  \/ CreateFiles
  \/ SaveResult
  \/ Ack
  \/ Fail
  \/ Crash

Spec == Init /\ [][Next]_vars

----------------------------------------------------------------------------
(* Properties.                                                             *)

TypeOK ==
  /\ stored \subseteq Known
  /\ status \in [Task -> {"NOT_STARTED", "DONE"}]
  /\ data \in [Task -> SUBSET SensorData]
  /\ sched \subseteq stored
  /\ told \in [Task -> SUBSET (1 .. ids)]
  /\ ids \in Nat
  /\ DOMAIN files \subseteq 1 .. ids /\ \A i \in DOMAIN files : files[i] \in FileDoc
  /\ sent \in 0 .. MaxSent
  /\ queue \in Seq(ResultMsg)
  /\ handler \in [phase : {"idle", "updated", "created", "applied", "blocked"},
                  created : SUBSET DOMAIN files]
  /\ handler # Idle => queue # <<>>
  /\ crashes \in 0 .. MaxCrashes
  /\ retried \subseteq 1 .. sent

(* A dataId names one entry of a task, after merged, repeated and redelivered *)
(* results: the id is what tells entries that exist from files that are new.  *)
EntriesDistinct ==
  \A t \in Task : \A d, e \in data[t] : d.dataId = e.dataId => d = e

(* The file an entry links is the one made of the entry's own stored object:  *)
(* fileId, path and name of an entry come from one item of one result.        *)
LinkedFileIsOwn ==
  \A t \in Task : \A e \in data[t] : e.fileId # 0 =>
    /\ e.fileId \in DOMAIN files
    /\ files[e.fileId] = [name |-> e.fileName, path |-> e.path]

(* When a result is applied, every file it reports as stored is in the        *)
(* payload of its task, linked to a file document made by this delivery.      *)
AppliedResultIsRecorded ==
  handler.phase = "applied" /\ Head(queue).task \in stored =>
    \A i \in DOMAIN Head(queue).items :
      LET item == Head(queue).items[i] IN
      item.path # 0 =>
        \E e \in data[Head(queue).task] :
          /\ e.path = item.path /\ e.fileName = item.fileName
          /\ e.fileId \in handler.created

(* No stored object gets two file documents or two entries, unless a restart  *)
(* made the broker deliver its result again after files had been made.        *)
RecordedOnce ==
  /\ \A i, j \in DOMAIN files :
       files[i].path = files[j].path => i = j \/ files[i].path \in retried
  /\ \A t \in Task : \A d, e \in data[t] :
       d.path = e.path => d = e \/ d.path = 0 \/ d.path \in retried

(* Handling results never takes an entry from a task, nor another sensor.     *)
EntriesKept ==
  [][\A t \in Task : \A d \in data[t] :
       \E e \in data'[t] : e.dataId = d.dataId /\ e.sensor = d.sensor]_vars
=============================================================================
