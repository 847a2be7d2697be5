---------------------------- MODULE TaskService ----------------------------
(***************************************************************************)
(* The tasks part of the core service: creating and scheduling a task      *)
(* (TasksService, TaskCreationService, TaskMessageMapperService), changing *)
(* its mode, and the consumers of coreservice.tasks.status and             *)
(* coreservice.tasks.mode.changed, with the data-service that runs the     *)
(* tasks.  A task is known by the call that created it.                    *)
(*                                                                         *)
(* Upload and object-sync tasks are created here.  What the consumer does  *)
(* with the results of data-fetch and object-sync tasks is in DataFetch    *)
(* and ObjectSync.                                                         *)
(***************************************************************************)
EXTENDS Naturals, Sequences, FiniteSets

CONSTANTS Call,        \* calls of POST /tasks
          ModeCall,    \* calls of PUT /tasks/mode
          File,        \* the file documents
          Name,        \* task names given by the callers
          Unusable,    \* files without a sensor, managed object or fragment
          Undescribed, \* files whose value fragment has no description
          MaxRuns,     \* bound on the runs of a task
          MaxCrashes   \* bound on restarts of the service

ASSUME FilesAssumption == Unusable \subseteq File /\ Undescribed \subseteq File
ASSUME NameAssumption  == Name # {}
ASSUME BoundAssumption == MaxRuns \in Nat /\ MaxCrashes \in Nat

VARIABLES
  call,        \* createAndScheduleTask in progress
  stored,      \* the tasks in the collection
  task,        \* their documents
  exposed,     \* files with CKAN in visibilityState.exposedToPlatforms
  outbox,      \* published messages the connection has not yet written out
  service,     \* messages the data-service has received and not handled
  job,         \* what the data-service knows of a task
  statusQueue, \* queue coreservice.tasks.status
  status,      \* what became of the delivery of Head(statusQueue)
  modeQueue,   \* queue coreservice.tasks.mode.changed
  mode,        \* what became of the delivery of Head(modeQueue)
  modeCall,    \* the mode calls that were made
  crashes,     \* restarts so far
  lost,        \* history: tasks stored whose message was never sent, or lost
  crossed,     \* history: tasks with answers about their mode in both queues
  raced,       \* history: files given to a task while another was on its way
               \* with them: not finished, or a report on it not yet applied
  contested    \* history: names looked up for a task while another was on its way
               \* with them, not yet stored

vars == <<call, stored, task, exposed, outbox, service, job, statusQueue, status,
          modeQueue, mode, modeCall, crashes, lost, crossed, raced, contested>>

----------------------------------------------------------------------------
TaskType   == {"DATA_UPLOAD", "OBJECT_SYNC"}
TaskStatus == {"NOT_STARTED", "PROCESSING", "DONE", "FAILED"}
TaskMode   == {"ENABLED", "DISABLED"}

CallState == [pc : {"idle", "checked", "found", "suitable", "stored", "done"},
              type : TaskType, name : Name, fileIds : SUBSET File,
              found : SUBSET File]

Task == [type : TaskType, name : Name, status : TaskStatus, mode : TaskMode,
         files : SUBSET File]

\* last is the status the data-service has reported last.
Job == [state : {"unknown", "waiting", "running"}, files : SUBSET File,
        mode : TaskMode, last : TaskStatus, uploaded : BOOLEAN,
        runs : 0 .. MaxRuns]

ScheduledMsg == [kind : {"scheduled"}, task : Call, files : SUBSET File]
ModeMsg      == [kind : {"mode"}, by : ModeCall, tasks : SUBSET Call, type : TaskMode]
StatusMsg    == [task : Call, status : TaskStatus, mode : TaskMode \cup {"absent"}]

CallAt(pc) == [pc |-> pc, type |-> "OBJECT_SYNC", name |-> CHOOSE n \in Name : TRUE,
               fileIds |-> {}, found |-> {}]

NewTask(type, name, files) ==
  [type |-> type, name |-> name, status |-> "NOT_STARTED", mode |-> "ENABLED",
   files |-> files]

NewJob == [state |-> "unknown", files |-> {}, mode |-> "ENABLED",
           last |-> "NOT_STARTED", uploaded |-> FALSE, runs |-> 0]

\* A report on t is still to be applied.
ReportPending(t) ==
  \E i \in DOMAIN statusQueue :
    statusQueue[i].task = t /\ ~(i = 1 /\ status.phase = "applied")

\* A report on t that carries a mode, or a notice of a changed mode, is in its
\* queue; applied and not acknowledged counts, for it may be delivered again.
ModeReportQueued(t) ==
  \E i \in DOMAIN statusQueue :
    statusQueue[i].task = t /\ statusQueue[i].mode # "absent"

ModeNoticeQueued(t) == \E i \in DOMAIN modeQueue : t \in modeQueue[i].tasks

\* A call that found name free has not stored its task yet.
OnItsWay(c, name) ==
  call[c].pc \in {"checked", "found", "suitable"} /\ call[c].name = name

----------------------------------------------------------------------------
(* Documents and messages.  The definitions named ...Wrong are slips a change *)
(* of the code could make; no action uses them, and a property notices each.  *)

\* Tasks that are done left out of the search.
openIsTakenWrong(name) == \E t \in stored : task[t].name = name /\ task[t].status # "DONE"

\* findOne({name})
isTaken(name) == \E t \in stored : task[t].name = name

\* The filter on the state of the files forgotten.
markedTooWrong(fileIds) == fileIds

\* The filter of the search of createDataUploadTask.
unexposed(fileIds) == fileIds \ exposed

\* createDataUploadTask skips a file nothing is known about.
taskFiles(found) == found \ Unusable

\* mapDataUploadTask leaves out a file without a description.
mapDataUploadTask(files) == files \ Undescribed

\* A task none of whose files is left is not announced.
emptyUnsentWrong(t) ==
  IF mapDataUploadTask(task[t].files) = {} THEN {}
  ELSE {[kind |-> "scheduled", task |-> t, files |-> mapDataUploadTask(task[t].files)]}

\* What sendTaskScheduledMessage publishes for task t.
scheduledMessages(t) ==
  {[kind |-> "scheduled", task |-> t, files |-> mapDataUploadTask(task[t].files)]}

\* A mode that is not given written as it is.
absentWrittenWrong(d, m) == [d EXCEPT !.status = m.status, !.mode = m.mode]

\* A mode that is not given written as the default.
absentEnablesWrong(d, m) ==
  [d EXCEPT !.status = m.status,
            !.mode = IF m.mode = "absent" THEN "ENABLED" ELSE m.mode]

\* updateTaskStatus: a mode that is not given is not written.
updateTaskStatus(d, m) ==
  [d EXCEPT !.status = m.status,
            !.mode = IF m.mode = "absent" THEN d.mode ELSE m.mode]

\* The reason recorded and the status forgotten.
statusKeptWrong(d, m) == d

\* setFailedTaskInfo
setFailedTaskInfo(d, m) == [d EXCEPT !.status = m.status]

\* The files of a failed upload marked as well.
anyEndMarksWrong(m) == m.status # "PROCESSING" /\ task[m.task].type = "DATA_UPLOAD"

\* The reports after which handleTaskStatusMessage marks files.
marksFiles(m) == m.status = "DONE" /\ task[m.task].type = "DATA_UPLOAD"

\* A task that is looked up in the wrong collection is not found.
notFoundWrong(t) == {}

\* getDataUploadTaskFileIds
getDataUploadTaskFileIds(t) == IF t \in stored THEN task[t].files ELSE {}

----------------------------------------------------------------------------
Init ==
  /\ call = [c \in Call |-> CallAt("idle")]
  /\ stored = {}
  /\ task = [c \in Call |-> NewTask("OBJECT_SYNC", CHOOSE n \in Name : TRUE, {})]
  /\ exposed = {}
  /\ outbox = {} /\ service = {}
  /\ job = [c \in Call |-> NewJob]
  /\ statusQueue = <<>> /\ status = [phase |-> "idle", ids |-> {}]
  /\ modeQueue = <<>> /\ mode = "idle"
  /\ modeCall = {}
  /\ crashes = 0
  /\ lost = {} /\ crossed = {} /\ raced = {} /\ contested = {}

----------------------------------------------------------------------------
(* createAndScheduleTask.                                                  *)

\* An existing name is refused.
CheckName(c, type, name, fileIds) ==
  /\ call[c].pc = "idle"
  /\ type = "OBJECT_SYNC" => fileIds = {}
  /\ call' = [call EXCEPT ![c] =
       IF isTaken(name)
       THEN CallAt("done")
       ELSE [pc |-> IF type = "DATA_UPLOAD" THEN "checked" ELSE "suitable",
             type |-> type, name |-> name, fileIds |-> fileIds, found |-> {}]]
  /\ contested' = contested \cup {n \in {name} : \E d \in Call : OnItsWay(d, n)}
  /\ UNCHANGED <<stored, task, exposed, outbox, service, job, statusQueue,
                 status, modeQueue, mode, modeCall, crashes, lost, crossed, raced>>

\* createDataUploadTask: the files of the call not yet exposed; none is a 400.
FindUnexposed(c) ==
  LET found == unexposed(call[c].fileIds) IN
  /\ call[c].pc = "checked"
  /\ call' = [call EXCEPT ![c] = IF found = {} THEN CallAt("done")
                                 ELSE [@ EXCEPT !.pc = "found", !.found = found]]
  /\ raced' = raced \cup {f \in found \ exposed :
       \/ \E d \in Call \ {c} : f \in call[d].found
       \/ \E t \in stored :
            f \in task[t].files /\ (~job[t].uploaded \/ ReportPending(t))}
  /\ UNCHANGED <<stored, task, exposed, outbox, service, job, statusQueue,
                 status, modeQueue, mode, modeCall, crashes, lost, crossed, contested>>

\* getFilesUnsuitableForUpload, over the sensors as they now are.
CheckSuitable(c, suitable) ==
  /\ call[c].pc = "found"
  /\ call' = [call EXCEPT ![c] = IF suitable THEN [@ EXCEPT !.pc = "suitable"]
                                             ELSE CallAt("done")]
  /\ UNCHANGED <<stored, task, exposed, outbox, service, job, statusQueue,
                 status, modeQueue, mode, modeCall, crashes, lost, crossed, raced, contested>>

\* Model.create with the defaults of the schema.
StoreTask(c) ==
  /\ call[c].pc = "suitable"
  /\ stored' = stored \cup {c}
  /\ task' = [task EXCEPT ![c] =
       NewTask(call[c].type, call[c].name, taskFiles(call[c].found))]
  /\ call' = [call EXCEPT ![c].pc = "stored"]
  /\ UNCHANGED <<exposed, outbox, service, job, statusQueue, status, modeQueue,
                 mode, modeCall, crashes, lost, crossed, raced, contested>>

\* mapTaskToMessage and sendTaskScheduledMessage.  An upload message may fail its
\* runtype check (customAttributes of a file that are not nested strings): then
\* the caller gets a 400 and the task stays in the collection.
ScheduleTask(c, wellFormed) ==
  /\ call[c].pc = "stored"
  /\ wellFormed \/ task[c].type = "DATA_UPLOAD"
  /\ IF wellFormed
     THEN /\ outbox' = outbox \cup scheduledMessages(c)
          /\ UNCHANGED lost
     ELSE /\ lost' = lost \cup {c}
          /\ UNCHANGED outbox
  /\ call' = [call EXCEPT ![c] = CallAt("done")]
  /\ UNCHANGED <<stored, task, exposed, service, job, statusQueue, status,
                 modeQueue, mode, modeCall, crashes, crossed, raced, contested>>

----------------------------------------------------------------------------
\* sendTaskMode: nothing is sent if one of the ids is unknown, and nothing is
\* stored in either case.
SendTaskMode(k, taskIds, type) ==
  /\ k \notin modeCall
  /\ modeCall' = modeCall \cup {k}
  /\ outbox' = IF taskIds \subseteq stored
               THEN outbox \cup {[kind |-> "mode", by |-> k, tasks |-> taskIds,
                                  type |-> type]}
               ELSE outbox
  /\ UNCHANGED <<call, stored, task, exposed, service, job, statusQueue, status,
                 modeQueue, mode, crashes, lost, crossed, raced, contested>>

----------------------------------------------------------------------------
(* The environment: the broker and the data-service.                       *)

\* The connection writes out a message; the queues of the data-service are its
\* own, so that it may handle them in any order.
Deliver(m) ==
  /\ m \in outbox
  /\ outbox' = outbox \ {m}
  /\ service' = service \cup {m}
  /\ UNCHANGED <<call, stored, task, exposed, job, statusQueue, status, modeQueue,
                 mode, modeCall, crashes, lost, crossed, raced, contested>>

AcceptTask(m) ==
  /\ m \in service /\ m.kind = "scheduled"
  /\ service' = service \ {m}
  /\ job' = [job EXCEPT ![m.task] = [@ EXCEPT !.state = "waiting", !.files = m.files]]
  /\ UNCHANGED <<call, stored, task, exposed, outbox, statusQueue, status,
                 modeQueue, mode, modeCall, crashes, lost, crossed, raced, contested>>

\* A report on task t goes to the status queue, with or without its mode.
Report(t, newStatus, withMode) ==
  /\ statusQueue' = Append(statusQueue,
       [task |-> t, status |-> newStatus,
        mode |-> IF withMode THEN job[t].mode ELSE "absent"])
  /\ crossed' = IF withMode /\ ModeNoticeQueued(t) THEN crossed \cup {t}
                                                    ELSE crossed

StartRun(t, withMode) ==
  /\ job[t].state = "waiting" /\ job[t].mode = "ENABLED" /\ job[t].runs < MaxRuns
  /\ job' = [job EXCEPT ![t] = [@ EXCEPT !.state = "running", !.last = "PROCESSING",
                                         !.runs = job[t].runs + 1]]
  /\ Report(t, "PROCESSING", withMode)
  /\ UNCHANGED <<call, stored, task, exposed, outbox, service, status, modeQueue,
                 mode, modeCall, crashes, lost, raced, contested>>

EndRun(t, newStatus, withMode) ==
  /\ job[t].state = "running"
  /\ job' = [job EXCEPT ![t] = [@ EXCEPT !.state = "waiting", !.last = newStatus,
                                         !.uploaded = job[t].uploaded \/ newStatus = "DONE"]]
  /\ Report(t, newStatus, withMode)
  /\ UNCHANGED <<call, stored, task, exposed, outbox, service, status, modeQueue,
                 mode, modeCall, crashes, lost, raced, contested>>

ChangeMode(m) ==
  /\ m \in service /\ m.kind = "mode"
  /\ \A t \in m.tasks : job[t].state # "unknown"
  /\ service' = service \ {m}
  /\ job' = [t \in Call |-> IF t \in m.tasks THEN [job[t] EXCEPT !.mode = m.type]
                                             ELSE job[t]]
  /\ modeQueue' = Append(modeQueue, m)
  /\ crossed' = crossed \cup {t \in m.tasks : ModeReportQueued(t)}
  /\ UNCHANGED <<call, stored, task, exposed, outbox, statusQueue, status, mode,
                 modeCall, crashes, lost, raced, contested>>

----------------------------------------------------------------------------
(* The consumer of coreservice.tasks.status.  prefetchCount is 1.          *)

\* handleGeneralTaskStatusMessage, or setFailedTaskInfo for task.status.failed;
\* an upload that is done goes on to mark its files.
UpdateStatus ==
  LET m == Head(statusQueue) IN
  /\ status.phase = "idle" /\ statusQueue # <<>>
  /\ task' = IF m.task \in stored
             THEN [task EXCEPT ![m.task] = IF m.status = "FAILED"
                                           THEN setFailedTaskInfo(@, m)
                                           ELSE updateTaskStatus(@, m)]
             ELSE task
  /\ status' = [phase |-> IF marksFiles(m) THEN "updated" ELSE "applied", ids |-> {}]
  /\ UNCHANGED <<call, stored, exposed, outbox, service, job, statusQueue,
                 modeQueue, mode, modeCall, crashes, lost, crossed, raced, contested>>

ReadTaskFiles ==
  LET ids == getDataUploadTaskFileIds(Head(statusQueue).task) IN
  /\ status.phase = "updated"
  /\ status' = [phase |-> IF ids = {} THEN "applied" ELSE "exposing", ids |-> ids]
  /\ UNCHANGED <<call, stored, task, exposed, outbox, service, job, statusQueue,
                 modeQueue, mode, modeCall, crashes, lost, crossed, raced, contested>>

\* setFileExposedToPlatform: updateMany updates document by document.
ExposeFile(f) ==
  /\ status.phase = "exposing" /\ f \in status.ids
  /\ exposed' = exposed \cup {f}
  /\ status' = [phase |-> IF status.ids = {f} THEN "applied" ELSE "exposing",
                ids |-> status.ids \ {f}]
  /\ UNCHANGED <<call, stored, task, outbox, service, job, statusQueue, modeQueue,
                 mode, modeCall, crashes, lost, crossed, raced, contested>>

AckStatus ==
  /\ status.phase = "applied"
  /\ statusQueue' = Tail(statusQueue)
  /\ status' = [phase |-> "idle", ids |-> {}]
  /\ UNCHANGED <<call, stored, task, exposed, outbox, service, job, modeQueue,
                 mode, modeCall, crashes, lost, crossed, raced, contested>>

\* A database call that fails ends the handler; errorHandler only logs, and the
\* message stays unacknowledged in front of the queue.
FailStatus ==
  /\ \/ status.phase = "idle" /\ statusQueue # <<>>
     \/ status.phase \in {"updated", "exposing"}
  /\ status' = [phase |-> "blocked", ids |-> {}]
  /\ UNCHANGED <<call, stored, task, exposed, outbox, service, job, statusQueue,
                 modeQueue, mode, modeCall, crashes, lost, crossed, raced, contested>>

----------------------------------------------------------------------------
(* The consumer of coreservice.tasks.mode.changed.                         *)

\* changeTasksModes
ChangeTasksModes ==
  LET m == Head(modeQueue) IN
  /\ mode = "idle" /\ modeQueue # <<>>
  /\ task' = [t \in Call |-> IF t \in m.tasks \cap stored
                             THEN [task[t] EXCEPT !.mode = m.type] ELSE task[t]]
  /\ mode' = "applied"
  /\ UNCHANGED <<call, stored, exposed, outbox, service, job, statusQueue, status,
                 modeQueue, modeCall, crashes, lost, crossed, raced, contested>>

AckMode ==
  /\ mode = "applied"
  /\ modeQueue' = Tail(modeQueue)
  /\ mode' = "idle"
  /\ UNCHANGED <<call, stored, task, exposed, outbox, service, job, statusQueue,
                 status, modeCall, crashes, lost, crossed, raced, contested>>

FailMode ==
  /\ mode = "idle" /\ modeQueue # <<>>
  /\ mode' = "blocked"
  /\ UNCHANGED <<call, stored, task, exposed, outbox, service, job, statusQueue,
                 status, modeQueue, modeCall, crashes, lost, crossed, raced, contested>>

----------------------------------------------------------------------------
\* A restart loses the calls in progress and the publish buffer; the broker
\* delivers the unacknowledged messages again.
Crash ==
  /\ crashes < MaxCrashes
  /\ crashes' = crashes + 1
  /\ call' = [c \in Call |-> IF call[c].pc = "idle" THEN call[c] ELSE CallAt("done")]
  /\ outbox' = {}
  /\ lost' = lost \cup {c \in Call : call[c].pc = "stored"}
       \cup {m.task : m \in {o \in outbox : o.kind = "scheduled"}}
  /\ status' = [phase |-> "idle", ids |-> {}]
  /\ mode' = "idle"
  /\ UNCHANGED <<stored, task, exposed, service, job, statusQueue, modeQueue,
                 modeCall, crossed, raced, contested>>

----------------------------------------------------------------------------
Next ==
  \/ \E c \in Call, type \in TaskType, name \in Name, fileIds \in SUBSET File :
       CheckName(c, type, name, fileIds)
  \/ \E c \in Call : FindUnexposed(c)
  \/ \E c \in Call, suitable \in BOOLEAN : CheckSuitable(c, suitable)
  \/ \E c \in Call : StoreTask(c)
  \/ \E c \in Call, wellFormed \in BOOLEAN : ScheduleTask(c, wellFormed)
  \/ \E k \in ModeCall, taskIds \in (SUBSET Call) \ {{}}, type \in TaskMode :
       SendTaskMode(k, taskIds, type)
  \/ \E m \in outbox : Deliver(m)
  \/ \E m \in service : AcceptTask(m)
  \/ \E t \in Call, withMode \in BOOLEAN : StartRun(t, withMode)
  \/ \E t \in Call, newStatus \in {"DONE", "FAILED"}, withMode \in BOOLEAN :
       EndRun(t, newStatus, withMode)
  \/ \E m \in service : ChangeMode(m)
  \/ UpdateStatus
  \/ ReadTaskFiles
  \/ \E f \in File : ExposeFile(f)
  \/ AckStatus
  \/ FailStatus
  \/ ChangeTasksModes
  \/ AckMode
  \/ FailMode
  \/ Crash

\* The event loop runs what is ready and the broker delivers.
Fairness ==
  /\ WF_vars(UpdateStatus)
  /\ WF_vars(ReadTaskFiles)
  /\ WF_vars(\E f \in File : ExposeFile(f))
  /\ WF_vars(AckStatus)

Spec == Init /\ [][Next]_vars
FairSpec == Spec /\ Fairness

----------------------------------------------------------------------------
(* Properties.                                                             *)

TypeOK ==
  /\ call \in [Call -> CallState]
  /\ stored \subseteq Call
  /\ task \in [Call -> Task]
  /\ exposed \subseteq File
  /\ outbox \subseteq ScheduledMsg \cup ModeMsg
  /\ service \subseteq ScheduledMsg \cup ModeMsg
  /\ job \in [Call -> Job]
  /\ statusQueue \in Seq(StatusMsg)
  /\ status \in [phase : {"idle", "updated", "exposing", "applied", "blocked"},
                 ids : SUBSET File]
  /\ status.phase \in {"updated", "exposing", "applied"} => statusQueue # <<>>
  /\ modeQueue \in Seq(ModeMsg)
  /\ mode \in {"idle", "applied", "blocked"}
  /\ mode = "applied" => modeQueue # <<>>
  /\ modeCall \subseteq ModeCall
  /\ crashes \in 0 .. MaxCrashes
  /\ lost \subseteq Call /\ crossed \subseteq Call /\ raced \subseteq File
  /\ contested \subseteq Name

(* A task that is in the collection has reached the data-service, or is on  *)
(* its way there, unless its message failed the runtype check or was lost   *)
(* in a restart: storing comes before sending and is never undone.          *)
StoredTaskIsScheduled ==
  \A t \in stored \ lost :
    \/ call[t].pc = "stored"
    \/ \E m \in outbox \cup service : m.kind = "scheduled" /\ m.task = t
    \/ job[t].state # "unknown"

(* The look-up of a name and the creation of the task are two steps, without *)
(* a unique index: two tasks have one name only if one was looked up while   *)
(* the other was being created, and never by a call made after that.         *)
NamesDiffer ==
  \A t, u \in stored : t # u /\ task[t].name = task[u].name => task[t].name \in contested

(* When no report on a task is outstanding, its status is the one the       *)
(* data-service reported last, through failed handlers, restarts and        *)
(* redelivered reports: the queue is applied in order, by one consumer.     *)
SettledStatusAgrees ==
  \A t \in stored : ~ReportPending(t) => task[t].status = job[t].last

(* When nothing about the mode of a task is queued, the stored mode is the  *)
(* one the data-service acts on.  Reports may carry the mode too, and come  *)
(* through another queue: exempt are only tasks that had a report with a    *)
(* mode and a notice of a changed one in both queues at once.               *)
SettledModeAgrees ==
  \A t \in stored \ crossed :
    ~ModeReportQueued(t) /\ ~ModeNoticeQueued(t) => task[t].mode = job[t].mode

(* When no report on a finished upload is outstanding, all its files are    *)
(* marked as exposed to CKAN: a restart or an error half-way leaves the     *)
(* report in the queue.                                                     *)
UploadIsRecorded ==
  \A t \in stored :
    task[t].type = "DATA_UPLOAD" /\ job[t].uploaded /\ ~ReportPending(t)
      => task[t].files \subseteq exposed

(* A file is marked as exposed only after a task that names it is done.     *)
ExposedByUpload ==
  \A f \in exposed : \E t \in stored : f \in task[t].files /\ job[t].uploaded

(* The files of a finished upload become marked, unless a failed handler    *)
(* blocks the queue.                                                        *)
UploadGetsRecorded ==
  \A t \in Call :
    (t \in stored /\ job[t].uploaded /\ task[t].type = "DATA_UPLOAD") ~>
      (task[t].files \subseteq exposed \/ status.phase = "blocked")

Uploaders(f) == {t \in Call : job[t].uploaded /\ f \in job[t].files}

(* "Already present files won't be uploaded": no two tasks take one file to *)
(* CKAN, whatever is lost or delivered again, unless one was created before *)
(* the other had finished and its last report was applied.                  *)
FileUploadedOnce == \A f \in File \ raced : Cardinality(Uploaders(f)) <= 1

(* "Already present files won't be uploaded": a file refused for being      *)
(* marked is present.                                                       *)
RefusedFileIsPresent == \A f \in exposed : Uploaders(f) # {}

----------------------------------------------------------------------------
\* What the reports in a queue say of the runs.
reportsOf(queue) ==
  [i \in DOMAIN queue |-> [task |-> queue[i].task, status |-> queue[i].status]]

Reports == INSTANCE ReportedTasks WITH
             Task <- Call, known <- stored, files <- [t \in Call |-> task[t].files],
             ran <- [t \in Call |-> job[t].last],
             shown <- [t \in Call |-> task[t].status],
             reports <- reportsOf(statusQueue), marked <- exposed

(* The tasks component implements ReportedTasks: through failed handlers,   *)
(* restarts and reports delivered again, the status of a task goes through  *)
(* what was reported of it in that order, no report leaves the queue before *)
(* it is stored and the files of a finished upload are marked, and files    *)
(* are marked for nothing else.                                             *)
ReportsAreFollowed == Reports!Spec
=============================================================================
