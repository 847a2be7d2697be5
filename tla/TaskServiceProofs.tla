------------------------- MODULE TaskServiceProofs -------------------------
(***************************************************************************)
(* Theorems about TaskService, for any calls, mode calls, files, names,    *)
(* runs and restarts.                                                      *)
(***************************************************************************)
EXTENDS TaskService, SequenceTheorems, FiniteSetTheorems, TLAPS

----------------------------------------------------------------------------
(* Types.                                                                  *)

\* A call that is not under way, and one that has just begun, has a type.
LEMMA CallTypes ==
  ASSUME NEW type \in TaskType, NEW name \in Name, NEW fileIds \in SUBSET File
  PROVE  /\ \A pc \in {"idle", "checked", "found", "suitable", "stored", "done"} :
              CallAt(pc) \in CallState
         /\ \A pc \in {"checked", "suitable"} :
              [pc |-> pc, type |-> type, name |-> name, fileIds |-> fileIds,
               found |-> {}] \in CallState
<1>1. (CHOOSE n \in Name : TRUE) \in Name
  BY NameAssumption
<1> QED  BY <1>1 DEF CallAt, CallState, TaskType

\* A report has the type of the queue it goes to.
LEMMA ReportTypes ==
  ASSUME TypeOK, NEW t \in Call, NEW newStatus \in TaskStatus, NEW withMode \in BOOLEAN,
         Report(t, newStatus, withMode)
  PROVE  /\ statusQueue' \in Seq(StatusMsg) /\ statusQueue' # <<>>
         /\ crossed' \subseteq Call
<1> DEFINE m == [task |-> t, status |-> newStatus,
                 mode |-> IF withMode THEN job[t].mode ELSE "absent"]
<1>1. job[t].mode \in TaskMode
  BY DEF TypeOK, Job
<1>2. m \in StatusMsg
  BY <1>1 DEF StatusMsg
<1>3. statusQueue' = Append(statusQueue, m) /\ statusQueue \in Seq(StatusMsg)
  BY DEF Report, TypeOK
<1> HIDE DEF m
<1>4. statusQueue' \in Seq(StatusMsg) /\ statusQueue' # <<>>
  BY <1>2, <1>3, AppendProperties
<1>5. crossed' \subseteq Call
  BY DEF Report, TypeOK
<1> QED  BY <1>4, <1>5

\* The first message of a queue has the type of its messages.
LEMMA HeadTypes ==
  ASSUME TypeOK
  PROVE  /\ statusQueue # <<>> =>
              /\ Head(statusQueue) \in StatusMsg /\ Tail(statusQueue) \in Seq(StatusMsg)
         /\ modeQueue # <<>> =>
              /\ Head(modeQueue) \in ModeMsg /\ Tail(modeQueue) \in Seq(ModeMsg)
<1>1. statusQueue \in Seq(StatusMsg) /\ modeQueue \in Seq(ModeMsg)
  BY DEF TypeOK
<1> QED  BY <1>1, HeadTailProperties

\* The initial states are typed.
LEMMA TypeInit == Init => TypeOK
<1> SUFFICES ASSUME Init PROVE TypeOK  OBVIOUS
<1>1. (CHOOSE n \in Name : TRUE) \in Name
  BY NameAssumption
<1>2. call \in [Call -> CallState]
  BY <1>1 DEF Init, CallAt, CallState, TaskType
<1>3. task \in [Call -> Task]
  BY <1>1 DEF Init, NewTask, Task, TaskType, TaskStatus, TaskMode
<1>4. job \in [Call -> Job]
  BY BoundAssumption DEF Init, NewJob, Job, TaskStatus, TaskMode
<1>5. status \in [phase : {"idle", "updated", "exposing", "applied", "blocked"},
                  ids : SUBSET File] /\ status.phase = "idle"
  BY DEF Init
<1>6. statusQueue \in Seq(StatusMsg) /\ modeQueue \in Seq(ModeMsg)
  BY DEF Init
<1>7. crashes \in 0 .. MaxCrashes
  BY BoundAssumption DEF Init
<1>8. /\ stored = {} /\ exposed = {} /\ outbox = {} /\ service = {} /\ mode = "idle"
      /\ modeCall = {} /\ lost = {} /\ crossed = {} /\ raced = {} /\ contested = {}
  BY DEF Init
<1> QED  BY <1>2, <1>3, <1>4, <1>5, <1>6, <1>7, <1>8 DEF TypeOK

\* Every action, and stuttering, keeps the types.
LEMMA TypeStep == TypeOK /\ [Next]_vars => TypeOK'
<1> SUFFICES ASSUME TypeOK, [Next]_vars PROVE TypeOK'  OBVIOUS
<1>1. ASSUME NEW c \in Call, NEW type \in TaskType, NEW name \in Name,
             NEW fileIds \in SUBSET File, CheckName(c, type, name, fileIds)
      PROVE  TypeOK'
  <2>1. call' \in [Call -> CallState]
    BY <1>1, CallTypes DEF CheckName, TypeOK
  <2> QED  BY <1>1, <2>1 DEF CheckName, TypeOK
<1>2. ASSUME NEW c \in Call, FindUnexposed(c) PROVE TypeOK'
  <2> DEFINE found == unexposed(call[c].fileIds)
  <2>1. call[c] \in CallState /\ found \in SUBSET File
    BY DEF TypeOK, CallState, unexposed
  <2>2. [call[c] EXCEPT !.pc = "found", !.found = found] \in CallState
    BY <2>1 DEF CallState
  <2>3. CallAt("done") \in CallState
    BY <2>1, CallTypes DEF CallState
  <2>4. call' \in [Call -> CallState] /\ raced' \subseteq File
    BY <1>2, <2>1, <2>2, <2>3 DEF FindUnexposed, TypeOK
  <2> QED  BY <1>2, <2>4 DEF FindUnexposed, TypeOK
<1>3. ASSUME NEW c \in Call, NEW suitable \in BOOLEAN, CheckSuitable(c, suitable)
      PROVE  TypeOK'
  <2>1. call[c] \in CallState
    BY DEF TypeOK
  <2>2. [call[c] EXCEPT !.pc = "suitable"] \in CallState /\ CallAt("done") \in CallState
    BY <2>1, CallTypes DEF CallState
  <2>3. call' \in [Call -> CallState]
    BY <1>3, <2>2 DEF CheckSuitable, TypeOK
  <2> QED  BY <1>3, <2>3 DEF CheckSuitable, TypeOK
<1>4. ASSUME NEW c \in Call, StoreTask(c) PROVE TypeOK'
  <2>1. call[c] \in CallState
    BY DEF TypeOK
  <2>2. NewTask(call[c].type, call[c].name, taskFiles(call[c].found)) \in Task
    BY <2>1 DEF NewTask, Task, taskFiles, TaskStatus, TaskMode, CallState
  <2>3. [call[c] EXCEPT !.pc = "stored"] \in CallState
    BY <2>1 DEF CallState
  <2>4. /\ call' = [call EXCEPT ![c] = [call[c] EXCEPT !.pc = "stored"]]
        /\ task' = [task EXCEPT ![c] =
             NewTask(call[c].type, call[c].name, taskFiles(call[c].found))]
        /\ stored' = stored \cup {c}
    BY <1>4 DEF StoreTask, TypeOK
  <2>5. call' \in [Call -> CallState] /\ task' \in [Call -> Task]
    BY <2>2, <2>3, <2>4 DEF TypeOK
  <2> QED  BY <1>4, <2>4, <2>5 DEF StoreTask, TypeOK
<1>5. ASSUME NEW c \in Call, NEW wellFormed \in BOOLEAN, ScheduleTask(c, wellFormed)
      PROVE  TypeOK'
  <2>1. call[c] \in CallState /\ task[c] \in Task
    BY DEF TypeOK
  <2>2. scheduledMessages(c) \subseteq ScheduledMsg
    BY <2>1 DEF scheduledMessages, ScheduledMsg, mapDataUploadTask, Task
  <2>3. CallAt("done") \in CallState
    BY <2>1, CallTypes DEF CallState
  <2>4. /\ call' \in [Call -> CallState] /\ lost' \subseteq Call
        /\ outbox' \subseteq ScheduledMsg \cup ModeMsg
    BY <1>5, <2>2, <2>3 DEF ScheduleTask, TypeOK
  <2> QED  BY <1>5, <2>4 DEF ScheduleTask, TypeOK
<1>6. ASSUME NEW k \in ModeCall, NEW taskIds \in (SUBSET Call) \ {{}},
             NEW type \in TaskMode, SendTaskMode(k, taskIds, type)
      PROVE  TypeOK'
  <2>1. [kind |-> "mode", by |-> k, tasks |-> taskIds, type |-> type] \in ModeMsg
    BY DEF ModeMsg
  <2>2. outbox' \subseteq ScheduledMsg \cup ModeMsg
    BY <1>6, <2>1 DEF SendTaskMode, TypeOK
  <2> QED  BY <1>6, <2>2 DEF SendTaskMode, TypeOK
<1>7. ASSUME NEW m \in outbox, Deliver(m) PROVE TypeOK'
  BY <1>7 DEF Deliver, TypeOK
<1>8. ASSUME NEW m \in service, AcceptTask(m) PROVE TypeOK'
  <2>1. m \in ScheduledMsg
    BY <1>8 DEF AcceptTask, TypeOK, ModeMsg
  <2>2. job[m.task] \in Job /\ m.files \in SUBSET File /\ m.task \in Call
    BY <2>1 DEF TypeOK, ScheduledMsg
  <2>3. [job[m.task] EXCEPT !.state = "waiting", !.files = m.files] \in Job
    BY <2>2 DEF Job
  <2>4. job' \in [Call -> Job] /\ service' \subseteq ScheduledMsg \cup ModeMsg
    BY <1>8, <2>2, <2>3 DEF AcceptTask, TypeOK
  <2> QED  BY <1>8, <2>4 DEF AcceptTask, TypeOK
<1>9. ASSUME NEW t \in Call, NEW withMode \in BOOLEAN, StartRun(t, withMode) PROVE TypeOK'
  <2>1. job[t] \in Job /\ job[t].runs < MaxRuns
    BY <1>9 DEF TypeOK, StartRun
  <2>2. job[t].runs + 1 \in 0 .. MaxRuns
    BY <2>1, BoundAssumption DEF Job
  <2>3. [job[t] EXCEPT !.state = "running", !.last = "PROCESSING", !.runs = @ + 1] \in Job
    BY <2>1, <2>2 DEF Job, TaskStatus
  <2>4. job' \in [Call -> Job]
    <3> DEFINE new == [job[t] EXCEPT !.state = "running", !.last = "PROCESSING", !.runs = @ + 1]
    <3>1. job' = [job EXCEPT ![t] = new] /\ new \in Job
      BY <1>9, <2>3 DEF StartRun
    <3> HIDE DEF new
    <3> QED  BY <3>1 DEF TypeOK
  <2>5. /\ statusQueue' \in Seq(StatusMsg) /\ statusQueue' # <<>>
        /\ crossed' \subseteq Call
    BY <1>9, ReportTypes DEF StartRun, TaskStatus
  <2> QED  BY <1>9, <2>4, <2>5 DEF StartRun, TypeOK
<1>10. ASSUME NEW t \in Call, NEW newStatus \in {"DONE", "FAILED"},
              NEW withMode \in BOOLEAN, EndRun(t, newStatus, withMode)
       PROVE  TypeOK'
  <2>1. job[t] \in Job
    BY DEF TypeOK
  <2>2. (job[t].uploaded \/ newStatus = "DONE") \in BOOLEAN
    OBVIOUS
  <2>3. [job[t] EXCEPT !.state = "waiting", !.last = newStatus,
                       !.uploaded = @ \/ newStatus = "DONE"] \in Job
    BY <2>1, <2>2 DEF Job, TaskStatus
  <2>4. job' \in [Call -> Job]
    <3> DEFINE new == [job[t] EXCEPT !.state = "waiting", !.last = newStatus,
                                     !.uploaded = @ \/ newStatus = "DONE"]
    <3>1. job' = [job EXCEPT ![t] = new] /\ new \in Job
      BY <1>10, <2>3 DEF EndRun
    <3> HIDE DEF new
    <3> QED  BY <3>1 DEF TypeOK
  <2>5. /\ statusQueue' \in Seq(StatusMsg) /\ statusQueue' # <<>>
        /\ crossed' \subseteq Call
    BY <1>10, ReportTypes DEF EndRun, TaskStatus
  <2> QED  BY <1>10, <2>4, <2>5 DEF EndRun, TypeOK
<1>11. ASSUME NEW m \in service, ChangeMode(m) PROVE TypeOK'
  <2>1. m \in ModeMsg
    BY <1>11 DEF ChangeMode, TypeOK, ScheduledMsg
  <2>2. m.type \in TaskMode /\ m.tasks \in SUBSET Call
    BY <2>1 DEF ModeMsg
  <2>3. \A t \in Call : [job[t] EXCEPT !.mode = m.type] \in Job
    BY <2>2 DEF TypeOK, Job
  <2>4. job' \in [Call -> Job]
    BY <1>11, <2>3 DEF ChangeMode, TypeOK
  <2>5. modeQueue' \in Seq(ModeMsg) /\ modeQueue' # <<>>
    BY <1>11, <2>1, AppendProperties DEF ChangeMode, TypeOK
  <2>6. service' \subseteq service /\ crossed' \subseteq Call
    BY <1>11, <2>2 DEF ChangeMode, TypeOK
  <2> QED  BY <1>11, <2>4, <2>5, <2>6 DEF ChangeMode, TypeOK
<1>12. CASE UpdateStatus
  <2> DEFINE m == Head(statusQueue)
  <2>1. m \in StatusMsg /\ statusQueue # <<>>
    BY <1>12, HeadTypes DEF UpdateStatus
  <2>2. m.task \in Call /\ m.status \in TaskStatus /\ m.mode \in TaskMode \cup {"absent"}
    BY <2>1 DEF StatusMsg
  <2>3. task[m.task] \in Task
    BY <2>2 DEF TypeOK
  <2> HIDE DEF m
  <2>4. /\ setFailedTaskInfo(task[m.task], m) \in Task
        /\ updateTaskStatus(task[m.task], m) \in Task
    BY <2>2, <2>3 DEF setFailedTaskInfo, updateTaskStatus, Task
  <2>5. task' \in [Call -> Task]
    BY <1>12, <2>4 DEF UpdateStatus, TypeOK, m
  <2>6. status' \in [phase : {"idle", "updated", "exposing", "applied", "blocked"},
                     ids : SUBSET File]
    BY <1>12 DEF UpdateStatus
  <2> QED  BY <1>12, <2>1, <2>5, <2>6 DEF UpdateStatus, TypeOK
<1>13. CASE ReadTaskFiles
  <2> DEFINE ids == getDataUploadTaskFileIds(Head(statusQueue).task)
  <2>1. statusQueue # <<>>
    BY <1>13 DEF ReadTaskFiles, TypeOK
  <2>2. ids \in SUBSET File
    BY <2>1, HeadTypes DEF getDataUploadTaskFileIds, TypeOK, StatusMsg, Task
  <2>3. status' \in [phase : {"idle", "updated", "exposing", "applied", "blocked"},
                     ids : SUBSET File]
    BY <1>13, <2>2 DEF ReadTaskFiles
  <2> QED  BY <1>13, <2>1, <2>3 DEF ReadTaskFiles, TypeOK
<1>14. ASSUME NEW f \in File, ExposeFile(f) PROVE TypeOK'
  <2>1. status.ids \in SUBSET File /\ statusQueue # <<>>
    BY <1>14 DEF ExposeFile, TypeOK
  <2>2. status' \in [phase : {"idle", "updated", "exposing", "applied", "blocked"},
                     ids : SUBSET File]
    BY <1>14, <2>1 DEF ExposeFile
  <2> QED  BY <1>14, <2>1, <2>2 DEF ExposeFile, TypeOK
<1>15. CASE AckStatus
  <2>1. statusQueue' \in Seq(StatusMsg)
    BY <1>15, HeadTypes DEF AckStatus, TypeOK
  <2> QED  BY <1>15, <2>1 DEF AckStatus, TypeOK
<1>16. CASE FailStatus
  BY <1>16 DEF FailStatus, TypeOK
<1>17. CASE ChangeTasksModes
  <2> DEFINE m == Head(modeQueue)
  <2>1. m.type \in TaskMode
    BY <1>17, HeadTypes DEF ChangeTasksModes, ModeMsg
  <2> HIDE DEF m
  <2>2. \A t \in Call : [task[t] EXCEPT !.mode = m.type] \in Task
    BY <2>1 DEF TypeOK, Task
  <2>3. task' \in [Call -> Task]
    BY <1>17, <2>2 DEF ChangeTasksModes, TypeOK, m
  <2> QED  BY <1>17, <2>3 DEF ChangeTasksModes, TypeOK
<1>18. CASE AckMode
  <2>1. modeQueue' \in Seq(ModeMsg)
    BY <1>18, HeadTypes DEF AckMode, TypeOK
  <2> QED  BY <1>18, <2>1 DEF AckMode, TypeOK
<1>19. CASE FailMode
  BY <1>19 DEF FailMode, TypeOK
<1>20. CASE Crash
  <2>1. call' \in [Call -> CallState]
    BY <1>20, CallTypes, NameAssumption DEF Crash, TypeOK, CallState, TaskType
  <2>2. crashes' \in 0 .. MaxCrashes
    BY <1>20, BoundAssumption DEF Crash, TypeOK
  <2>3. lost' \subseteq Call
    BY <1>20 DEF Crash, TypeOK, ScheduledMsg, ModeMsg
  <2>4. status' \in [phase : {"idle", "updated", "exposing", "applied", "blocked"},
                     ids : SUBSET File] /\ status'.phase = "idle"
    BY <1>20 DEF Crash
  <2> QED  BY <1>20, <2>1, <2>2, <2>3, <2>4 DEF Crash, TypeOK
<1>21. CASE UNCHANGED vars
  BY <1>21 DEF TypeOK, vars
<1> QED
  BY <1>1, <1>2, <1>3, <1>4, <1>5, <1>6, <1>7, <1>8, <1>9, <1>10, <1>11, <1>12, <1>13,
     <1>14, <1>15, <1>16, <1>17, <1>18, <1>19, <1>20, <1>21 DEF Next

(* Every variable has the type written down for it, and the consumers work  *)
(* on a message only while there is one.                                    *)
THEOREM Typing == Spec => []TypeOK
BY TypeInit, TypeStep, PTL DEF Spec

----------------------------------------------------------------------------
(* Stored and announced.                                                   *)

\* A stored task stems from a call that is past its creation.
StoredByCall ==
  \A c \in Call : /\ c \in stored => call[c].pc \in {"stored", "done"}
                  /\ call[c].pc = "stored" => c \in stored

\* Nobody knows of a task that is not stored.
OnlyStoredKnown ==
  /\ \A t \in Call \ stored :
       /\ job[t] = NewJob
       /\ \A i \in DOMAIN statusQueue : statusQueue[i].task # t
  /\ \A m \in outbox \cup service :
       /\ m.kind = "scheduled" => m.task \in stored
       /\ m.kind = "mode" => m.tasks \subseteq stored
  /\ \A i \in DOMAIN modeQueue : modeQueue[i].tasks \subseteq stored

StoredInv == TypeOK /\ StoredByCall /\ OnlyStoredKnown /\ StoredTaskIsScheduled

\* A report on a task is put behind the others.
LEMMA ReportQueued ==
  ASSUME TypeOK, NEW t \in Call, NEW newStatus, NEW withMode \in BOOLEAN,
         Report(t, newStatus, withMode)
  PROVE  /\ Len(statusQueue) + 1 \in Nat
         /\ DOMAIN statusQueue' = DOMAIN statusQueue \cup {Len(statusQueue) + 1}
         /\ \A i \in DOMAIN statusQueue :
              /\ i \in Nat /\ i < Len(statusQueue) + 1
              /\ statusQueue'[i] = statusQueue[i]
         /\ statusQueue'[Len(statusQueue) + 1].task = t
         /\ statusQueue'[Len(statusQueue) + 1].status = newStatus
         /\ statusQueue'[Len(statusQueue) + 1].mode \in {job[t].mode, "absent"}
         /\ statusQueue'[Len(statusQueue) + 1].mode # "absent" => withMode
<1> DEFINE m == [task |-> t, status |-> newStatus,
                 mode |-> IF withMode THEN job[t].mode ELSE "absent"]
<1>1. statusQueue \in Seq(StatusMsg) /\ statusQueue' = Append(statusQueue, m)
  BY DEF Report, TypeOK
<1> HIDE DEF m
<1>2. /\ Len(statusQueue) \in Nat /\ DOMAIN statusQueue = 1 .. Len(statusQueue)
      /\ DOMAIN statusQueue' = 1 .. Len(statusQueue) + 1
      /\ \A i \in 1 .. Len(statusQueue) : statusQueue'[i] = statusQueue[i]
      /\ statusQueue'[Len(statusQueue) + 1] = m
  BY <1>1
<1>3. 1 .. Len(statusQueue) + 1 = (1 .. Len(statusQueue)) \cup {Len(statusQueue) + 1}
  BY <1>2
<1>4. \A i \in DOMAIN statusQueue : i \in Nat /\ i < Len(statusQueue) + 1
  BY <1>2
<1>5. /\ m.task = t /\ m.status = newStatus /\ m.mode \in {job[t].mode, "absent"}
      /\ m.mode # "absent" => withMode
  BY DEF m
<1> QED  BY <1>2, <1>3, <1>4, <1>5

\* A notice of changed modes is put behind the others.
LEMMA NoticeQueued ==
  ASSUME TypeOK, NEW m, ChangeMode(m)
  PROVE  /\ Len(modeQueue) + 1 \in Nat
         /\ DOMAIN modeQueue' = DOMAIN modeQueue \cup {Len(modeQueue) + 1}
         /\ \A i \in DOMAIN modeQueue :
              i \in Nat /\ i < Len(modeQueue) + 1 /\ modeQueue'[i] = modeQueue[i]
         /\ modeQueue'[Len(modeQueue) + 1] = m
<1>1. modeQueue \in Seq(ModeMsg) /\ modeQueue' = Append(modeQueue, m)
  BY DEF ChangeMode, TypeOK
<1>2. /\ Len(modeQueue) \in Nat /\ DOMAIN modeQueue = 1 .. Len(modeQueue)
      /\ DOMAIN modeQueue' = 1 .. Len(modeQueue) + 1
      /\ \A i \in 1 .. Len(modeQueue) : modeQueue'[i] = modeQueue[i]
      /\ modeQueue'[Len(modeQueue) + 1] = m
  BY <1>1
<1>3. 1 .. Len(modeQueue) + 1 = (1 .. Len(modeQueue)) \cup {Len(modeQueue) + 1}
  BY <1>2
<1>4. \A i \in DOMAIN modeQueue : i \in Nat /\ i < Len(modeQueue) + 1
  BY <1>2
<1> QED  BY <1>2, <1>3, <1>4

\* Of a queue that is not empty, the first message and the others.
LEMMA AckQueue ==
  ASSUME NEW S, NEW q \in Seq(S), q # <<>>
  PROVE  /\ 1 \in DOMAIN q /\ Head(q) = q[1]
         /\ \A i \in DOMAIN q : i \in Nat /\ i >= 1
         /\ \A i \in DOMAIN Tail(q) :
              i \in Nat /\ i >= 1 /\ i + 1 \in DOMAIN q /\ Tail(q)[i] = q[i + 1]
         /\ \A i \in DOMAIN q : i # 1 =>
              i - 1 \in DOMAIN Tail(q) /\ Tail(q)[i - 1] = q[i]
<1>1. /\ Len(q) \in Nat \ {0} /\ DOMAIN q = 1 .. Len(q) /\ Head(q) = q[1]
      /\ DOMAIN Tail(q) = 1 .. Len(q) - 1
      /\ \A i \in 1 .. Len(q) - 1 : Tail(q)[i] = q[i + 1]
  OBVIOUS
<1>2. \A i \in 1 .. Len(q) - 1 : i \in Nat /\ i >= 1 /\ i + 1 \in 1 .. Len(q)
  BY <1>1
<1>3. \A i \in 1 .. Len(q) : i # 1 => i - 1 \in 1 .. Len(q) - 1 /\ (i - 1) + 1 = i
  BY <1>1
<1>4. 1 \in DOMAIN q /\ \A i \in DOMAIN q : i \in Nat /\ i >= 1
  BY <1>1
<1>5. \A i \in DOMAIN q : i # 1 => i - 1 \in DOMAIN Tail(q) /\ Tail(q)[i - 1] = q[i]
  <2> SUFFICES ASSUME NEW i \in DOMAIN q, i # 1
               PROVE  i - 1 \in DOMAIN Tail(q) /\ Tail(q)[i - 1] = q[i]
    OBVIOUS
  <2>1. i - 1 \in 1 .. Len(q) - 1 /\ (i - 1) + 1 = i
    BY <1>1, <1>3
  <2> QED  BY <1>1, <2>1
<1> QED  BY <1>1, <1>2, <1>4, <1>5

\* What an acknowledgement leaves in the queues.
LEMMA AckLeaves ==
  ASSUME TypeOK
  PROVE  /\ AckStatus => /\ statusQueue \in Seq(StatusMsg) /\ statusQueue # <<>>
                         /\ statusQueue' = Tail(statusQueue)
         /\ AckMode => /\ modeQueue \in Seq(ModeMsg) /\ modeQueue # <<>>
                       /\ modeQueue' = Tail(modeQueue)
BY DEF AckStatus, AckMode, TypeOK

\* Every action keeps what is known to what is stored, and what is stored known.
LEMMA StoredStep == StoredInv /\ [Next]_vars => StoredInv'
<1> SUFFICES ASSUME StoredInv, [Next]_vars PROVE StoredInv'  OBVIOUS
<1>1. TypeOK /\ TypeOK' /\ StoredByCall /\ OnlyStoredKnown /\ StoredTaskIsScheduled
  BY TypeStep DEF StoredInv
<1>2. ASSUME NEW c \in Call, c \notin stored, call'[c].pc # "stored",
             \A d \in Call \ {c} : call'[d] = call[d],
             UNCHANGED <<stored, job, outbox, service, statusQueue, modeQueue, lost>>
      PROVE  StoredInv'
  <2>1. StoredByCall'
    BY <1>1, <1>2 DEF StoredByCall
  <2>2. OnlyStoredKnown'
    BY <1>1, <1>2 DEF OnlyStoredKnown
  <2>3. StoredTaskIsScheduled'
    BY <1>1, <1>2 DEF StoredTaskIsScheduled, TypeOK
  <2> QED  BY <1>1, <2>1, <2>2, <2>3 DEF StoredInv
<1>3. ASSUME NEW c \in Call, NEW type \in TaskType, NEW name \in Name,
             NEW fileIds \in SUBSET File, CheckName(c, type, name, fileIds)
      PROVE  StoredInv'
  <2>1. /\ c \notin stored /\ \A d \in Call \ {c} : call'[d] = call[d]
        /\ call'[c].pc # "stored"
    BY <1>1, <1>3 DEF CheckName, StoredByCall, TypeOK, CallAt
  <2> QED  BY <1>2, <1>3, <2>1 DEF CheckName
<1>4. ASSUME NEW c \in Call, NEW suitable \in BOOLEAN,
             FindUnexposed(c) \/ CheckSuitable(c, suitable)
      PROVE  StoredInv'
  <2>1. /\ c \notin stored /\ \A d \in Call \ {c} : call'[d] = call[d]
        /\ call'[c].pc # "stored"
    <3>1. call[c].pc \in {"checked", "found"} /\ call[c] \in CallState
      BY <1>1, <1>4 DEF FindUnexposed, CheckSuitable, TypeOK
    <3>2. \A found : [call[c] EXCEPT !.pc = "found", !.found = found].pc = "found"
      BY <3>1 DEF CallState
    <3>3. [call[c] EXCEPT !.pc = "suitable"].pc = "suitable" /\ CallAt("done").pc = "done"
      BY <3>1 DEF CallState, CallAt
    <3>4. c \notin stored
      BY <1>1, <3>1 DEF StoredByCall
    <3> QED  BY <1>1, <1>4, <3>2, <3>3, <3>4 DEF FindUnexposed, CheckSuitable, TypeOK
  <2> QED  BY <1>2, <1>4, <2>1 DEF FindUnexposed, CheckSuitable
<1>5. ASSUME NEW c \in Call, StoreTask(c) PROVE StoredInv'
  <2>1. /\ stored' = stored \cup {c} /\ call'[c].pc = "stored"
        /\ \A d \in Call \ {c} : call'[d] = call[d]
        /\ UNCHANGED <<job, outbox, service, statusQueue, modeQueue, lost>>
    BY <1>1, <1>5 DEF StoreTask, TypeOK, CallState
  <2>2. StoredByCall'
    BY <1>1, <2>1 DEF StoredByCall
  <2>3. OnlyStoredKnown'
    BY <1>1, <2>1 DEF OnlyStoredKnown
  <2>4. StoredTaskIsScheduled'
    BY <1>1, <2>1 DEF StoredTaskIsScheduled, TypeOK
  <2> QED  BY <1>1, <2>2, <2>3, <2>4 DEF StoredInv
<1>6. ASSUME NEW c \in Call, NEW wellFormed \in BOOLEAN, ScheduleTask(c, wellFormed)
      PROVE  StoredInv'
  <2>1. /\ call'[c].pc = "done" /\ call[c].pc = "stored" /\ c \in stored
        /\ \A d \in Call \ {c} : call'[d] = call[d]
        /\ UNCHANGED <<stored, job, service, statusQueue, modeQueue>>
    BY <1>1, <1>6 DEF ScheduleTask, TypeOK, CallAt, StoredByCall
  <2>2. \/ outbox' = outbox \cup scheduledMessages(c) /\ UNCHANGED lost
        \/ lost' = lost \cup {c} /\ UNCHANGED outbox
    BY <1>6 DEF ScheduleTask
  <2>3. /\ \A m \in scheduledMessages(c) : m.kind = "scheduled" /\ m.task = c
        /\ scheduledMessages(c) # {}
    BY DEF scheduledMessages
  <2>4. StoredByCall'
    BY <1>1, <2>1 DEF StoredByCall
  <2>5. OnlyStoredKnown'
    <3>1. \A m \in outbox' \cup service' :
            /\ m.kind = "scheduled" => m.task \in stored'
            /\ m.kind = "mode" => m.tasks \subseteq stored'
      BY <1>1, <2>1, <2>2, <2>3 DEF OnlyStoredKnown
    <3> QED  BY <1>1, <2>1, <3>1 DEF OnlyStoredKnown
  <2>6. StoredTaskIsScheduled'
    <3> SUFFICES ASSUME NEW t \in stored, t \notin lost'
                 PROVE  \/ call'[t].pc = "stored"
                        \/ \E m \in outbox' \cup service' : m.kind = "scheduled" /\ m.task = t
                        \/ job'[t].state # "unknown"
      BY <2>1 DEF StoredTaskIsScheduled
    <3>1. CASE t = c
      BY <2>2, <2>3, <3>1
    <3>2. CASE t # c
      <4>1. t \in Call /\ t \notin lost
        BY <1>1, <2>2 DEF TypeOK
      <4> QED  BY <1>1, <2>1, <2>2, <3>2, <4>1 DEF StoredTaskIsScheduled
    <3> QED  BY <3>1, <3>2
  <2> QED  BY <1>1, <2>4, <2>5, <2>6 DEF StoredInv
<1>7. ASSUME NEW k \in ModeCall, NEW taskIds \in (SUBSET Call) \ {{}},
             NEW type \in TaskMode, SendTaskMode(k, taskIds, type)
      PROVE  StoredInv'
  <2>1. UNCHANGED <<call, stored, job, service, statusQueue, modeQueue, lost>>
    BY <1>7 DEF SendTaskMode
  <2>2. \/ UNCHANGED outbox
        \/ /\ taskIds \subseteq stored
           /\ outbox' = outbox \cup {[kind |-> "mode", by |-> k, tasks |-> taskIds,
                                      type |-> type]}
    BY <1>7 DEF SendTaskMode
  <2>3. StoredByCall'
    BY <1>1, <2>1 DEF StoredByCall
  <2>4. OnlyStoredKnown'
    BY <1>1, <2>1, <2>2 DEF OnlyStoredKnown
  <2>5. StoredTaskIsScheduled'
    BY <1>1, <2>1, <2>2 DEF StoredTaskIsScheduled
  <2> QED  BY <1>1, <2>3, <2>4, <2>5 DEF StoredInv
<1>8. ASSUME NEW m \in outbox, Deliver(m) PROVE StoredInv'
  <2>1. /\ UNCHANGED <<call, stored, job, statusQueue, modeQueue, lost>>
        /\ outbox' \cup service' = outbox \cup service
    BY <1>8 DEF Deliver
  <2>2. StoredByCall'
    BY <1>1, <2>1 DEF StoredByCall
  <2>3. OnlyStoredKnown'
    BY <1>1, <2>1 DEF OnlyStoredKnown
  <2>4. StoredTaskIsScheduled'
    BY <1>1, <2>1 DEF StoredTaskIsScheduled
  <2> QED  BY <1>1, <2>2, <2>3, <2>4 DEF StoredInv
<1>9. ASSUME NEW m \in service, AcceptTask(m) PROVE StoredInv'
  <2>1. /\ m.kind = "scheduled" /\ m.task \in stored /\ service' = service \ {m}
        /\ UNCHANGED <<call, stored, outbox, statusQueue, modeQueue, lost>>
    BY <1>1, <1>9 DEF AcceptTask, OnlyStoredKnown
  <2>2. job'[m.task].state = "waiting" /\ \A t \in Call \ {m.task} : job'[t] = job[t]
    BY <1>1, <1>9 DEF AcceptTask, TypeOK, Job
  <2>3. StoredByCall'
    BY <1>1, <2>1 DEF StoredByCall
  <2>4. OnlyStoredKnown'
    BY <1>1, <2>1, <2>2 DEF OnlyStoredKnown
  <2>5. StoredTaskIsScheduled'
    <3> SUFFICES ASSUME NEW t \in stored, t \notin lost
                 PROVE  \/ call[t].pc = "stored"
                        \/ \E o \in outbox' \cup service' : o.kind = "scheduled" /\ o.task = t
                        \/ job'[t].state # "unknown"
      BY <2>1 DEF StoredTaskIsScheduled
    <3>1. CASE t = m.task
      BY <2>2, <3>1
    <3>2. CASE t # m.task
      BY <1>1, <2>1, <2>2, <3>2 DEF StoredTaskIsScheduled, TypeOK
    <3> QED  BY <3>1, <3>2
  <2> QED  BY <1>1, <2>3, <2>4, <2>5 DEF StoredInv
<1>10. ASSUME NEW t \in Call, NEW newStatus, NEW withMode \in BOOLEAN,
              StartRun(t, withMode) \/ EndRun(t, newStatus, withMode)
       PROVE  StoredInv'
  <2>1. /\ job[t].state \in {"waiting", "running"}
        /\ UNCHANGED <<call, stored, outbox, service, modeQueue, lost>>
        /\ \E s : Report(t, s, withMode)
    BY <1>10 DEF StartRun, EndRun
  <2>2. job'[t].state # "unknown" /\ \A u \in Call \ {t} : job'[u] = job[u]
    <3>1. job[t] \in Job /\ job \in [Call -> Job]
      BY <1>1 DEF TypeOK
    <3>2. CASE StartRun(t, withMode)
      BY <3>1, <3>2 DEF StartRun, Job
    <3>3. CASE EndRun(t, newStatus, withMode)
      BY <3>1, <3>3 DEF EndRun, Job
    <3> QED  BY <1>10, <3>2, <3>3
  <2>3. t \in stored
    BY <1>1, <2>1 DEF OnlyStoredKnown, NewJob
  <2>4. \A i \in DOMAIN statusQueue' :
          \/ statusQueue'[i].task = t
          \/ i \in DOMAIN statusQueue /\ statusQueue'[i] = statusQueue[i]
    <3>1. PICK s : Report(t, s, withMode)
      BY <2>1
    <3> DEFINE n == Len(statusQueue) + 1
    <3>2. /\ DOMAIN statusQueue' = DOMAIN statusQueue \cup {n}
          /\ \A i \in DOMAIN statusQueue : statusQueue'[i] = statusQueue[i]
          /\ statusQueue'[n].task = t
      BY <1>1, <3>1, ReportQueued
    <3> HIDE DEF n
    <3> QED  BY <3>2
  <2>5. StoredByCall'
    BY <1>1, <2>1 DEF StoredByCall
  <2>6. OnlyStoredKnown'
    BY <1>1, <2>1, <2>2, <2>3, <2>4 DEF OnlyStoredKnown
  <2>7. StoredTaskIsScheduled'
    BY <1>1, <2>1, <2>2 DEF StoredTaskIsScheduled, TypeOK
  <2> QED  BY <1>1, <2>5, <2>6, <2>7 DEF StoredInv
<1>11. ASSUME NEW m \in service, ChangeMode(m) PROVE StoredInv'
  <2>1. /\ m.kind = "mode" /\ service' = service \ {m} /\ m.tasks \subseteq stored
        /\ UNCHANGED <<call, stored, outbox, statusQueue, lost>>
    BY <1>1, <1>11 DEF ChangeMode, OnlyStoredKnown
  <2>2. \A t \in Call : /\ job'[t].state = job[t].state
                        /\ t \notin stored => job'[t] = job[t]
    BY <1>1, <1>11, <2>1 DEF ChangeMode, TypeOK, Job
  <2>3. \A i \in DOMAIN modeQueue' :
          \/ modeQueue'[i] = m
          \/ i \in DOMAIN modeQueue /\ modeQueue'[i] = modeQueue[i]
    <3> DEFINE n == Len(modeQueue) + 1
    <3>1. /\ DOMAIN modeQueue' = DOMAIN modeQueue \cup {n}
          /\ \A i \in DOMAIN modeQueue : modeQueue'[i] = modeQueue[i]
          /\ modeQueue'[n] = m
      BY <1>1, <1>11, NoticeQueued
    <3> HIDE DEF n
    <3> QED  BY <3>1
  <2>4. StoredByCall'
    BY <1>1, <2>1 DEF StoredByCall
  <2>5. OnlyStoredKnown'
    BY <1>1, <2>1, <2>2, <2>3 DEF OnlyStoredKnown
  <2>6. StoredTaskIsScheduled'
    BY <1>1, <2>1, <2>2 DEF StoredTaskIsScheduled, TypeOK
  <2> QED  BY <1>1, <2>4, <2>5, <2>6 DEF StoredInv
<1>12. ASSUME UNCHANGED <<call, stored, job, outbox, service, statusQueue, modeQueue, lost>>
       PROVE  StoredInv'
  BY <1>1, <1>12 DEF StoredInv, StoredByCall, OnlyStoredKnown, StoredTaskIsScheduled
<1>13. ASSUME NEW f \in File, ExposeFile(f) PROVE StoredInv'
  BY <1>12, <1>13 DEF ExposeFile
<1>14. CASE UpdateStatus \/ ReadTaskFiles \/ FailStatus \/ ChangeTasksModes \/ FailMode
  BY <1>12, <1>14 DEF UpdateStatus, ReadTaskFiles, FailStatus, ChangeTasksModes, FailMode
<1>15. CASE AckStatus \/ AckMode
  <2>1. UNCHANGED <<call, stored, job, outbox, service, lost>>
    BY <1>15 DEF AckStatus, AckMode
  <2>2. /\ \A i \in DOMAIN statusQueue' :
             \E j \in DOMAIN statusQueue : statusQueue'[i] = statusQueue[j]
        /\ \A i \in DOMAIN modeQueue' :
             \E j \in DOMAIN modeQueue : modeQueue'[i] = modeQueue[j]
    <3>1. CASE AckStatus
      BY <1>1, <3>1, AckLeaves, AckQueue DEF AckStatus
    <3>2. CASE AckMode
      BY <1>1, <3>2, AckLeaves, AckQueue DEF AckMode
    <3> QED  BY <1>15, <3>1, <3>2
  <2>3. StoredByCall'
    BY <1>1, <2>1 DEF StoredByCall
  <2>4. OnlyStoredKnown'
    BY <1>1, <2>1, <2>2 DEF OnlyStoredKnown
  <2>5. StoredTaskIsScheduled'
    BY <1>1, <2>1 DEF StoredTaskIsScheduled
  <2> QED  BY <1>1, <2>3, <2>4, <2>5 DEF StoredInv
<1>16. CASE Crash
  <2>1. /\ UNCHANGED <<stored, job, service, statusQueue, modeQueue>> /\ outbox' = {}
        /\ call' = [c \in Call |-> IF call[c].pc = "idle" THEN call[c] ELSE CallAt("done")]
        /\ lost' = lost \cup {c \in Call : call[c].pc = "stored"}
                     \cup {m.task : m \in {o \in outbox : o.kind = "scheduled"}}
    BY <1>16 DEF Crash
  <2>2. StoredByCall'
    BY <1>1, <2>1 DEF StoredByCall, CallAt
  <2>3. OnlyStoredKnown'
    BY <1>1, <2>1 DEF OnlyStoredKnown
  <2>4. StoredTaskIsScheduled'
    BY <1>1, <2>1 DEF StoredTaskIsScheduled, TypeOK
  <2> QED  BY <1>1, <2>2, <2>3, <2>4 DEF StoredInv
<1>17. CASE UNCHANGED vars
  BY <1>12, <1>17 DEF vars
<1> QED
  BY <1>3, <1>4, <1>5, <1>6, <1>7, <1>8, <1>9, <1>10, <1>11, <1>13, <1>14, <1>15, <1>16,
     <1>17 DEF Next

\* Nothing is stored in the beginning.
LEMMA StoredInit == Init => StoredInv
<1> SUFFICES ASSUME Init PROVE StoredInv  OBVIOUS
<1>1. /\ stored = {} /\ outbox = {} /\ service = {} /\ statusQueue = <<>> /\ modeQueue = <<>>
      /\ \A c \in Call : call[c].pc = "idle" /\ job[c] = NewJob
  BY DEF Init, CallAt
<1> QED
  BY <1>1, TypeInit DEF StoredInv, StoredByCall, OnlyStoredKnown, StoredTaskIsScheduled

(* A task that is in the collection has reached the data-service, or is on  *)
(* its way there, unless its message failed the runtype check or was lost   *)
(* in a restart.                                                            *)
THEOREM Scheduled == Spec => []StoredTaskIsScheduled
<1>1. StoredInv => StoredTaskIsScheduled
  BY DEF StoredInv
<1> QED  BY <1>1, StoredInit, StoredStep, PTL DEF Spec

----------------------------------------------------------------------------
(* Status.                                                                 *)

\* The last report on a task in the queue is the last the data-service has made.
LastReportIsLast ==
  \A i \in DOMAIN statusQueue :
    (\A j \in DOMAIN statusQueue : statusQueue[j].task = statusQueue[i].task => j <= i)
      => statusQueue[i].status = job[statusQueue[i].task].last

\* The handler has written the status of the first report.
StatusWritten ==
  status.phase \in {"updated", "exposing", "applied"} =>
    task[Head(statusQueue).task].status = Head(statusQueue).status

\* Without a report in the queue, the stored status is the one reported last.
UnreportedAgrees ==
  \A t \in stored :
    (\A i \in DOMAIN statusQueue : statusQueue[i].task # t) => task[t].status = job[t].last

StatusInv == StoredInv /\ LastReportIsLast /\ StatusWritten /\ UnreportedAgrees

\* Every report is on a stored task.
LEMMA ReportsOnStored ==
  ASSUME StoredInv
  PROVE  /\ \A i \in DOMAIN statusQueue :
              statusQueue[i] \in StatusMsg /\ statusQueue[i].task \in stored
         /\ status.phase \in {"updated", "exposing", "applied"} =>
              /\ 1 \in DOMAIN statusQueue /\ Head(statusQueue) = statusQueue[1]
              /\ Head(statusQueue).task \in stored
<1>1. \A i \in DOMAIN statusQueue : statusQueue[i] \in StatusMsg
  BY DEF StoredInv, TypeOK
<1>2. \A i \in DOMAIN statusQueue : statusQueue[i].task \in stored
  BY <1>1 DEF StoredInv, OnlyStoredKnown, StatusMsg
<1>3. ASSUME status.phase \in {"updated", "exposing", "applied"}
      PROVE  1 \in DOMAIN statusQueue /\ Head(statusQueue) = statusQueue[1]
  <2>1. statusQueue \in Seq(StatusMsg) /\ statusQueue # <<>>
    BY <1>3 DEF StoredInv, TypeOK
  <2> QED  BY <2>1, AckQueue
<1> QED  BY <1>1, <1>2, <1>3

\* Every action keeps status and reports together.
LEMMA StatusStep == StatusInv /\ [Next]_vars => StatusInv'
<1> SUFFICES ASSUME StatusInv, [Next]_vars PROVE StatusInv'  OBVIOUS
<1>1. /\ StoredInv /\ StoredInv' /\ TypeOK /\ OnlyStoredKnown
      /\ LastReportIsLast /\ StatusWritten /\ UnreportedAgrees
  BY StoredStep DEF StatusInv, StoredInv
<1>2. ASSUME UNCHANGED <<stored, statusQueue>>,
             \A t \in Call : /\ job'[t].last = job[t].last
                             /\ task'[t].status = task[t].status,
             status'.phase \in {"updated", "exposing", "applied"} =>
               status.phase \in {"updated", "exposing", "applied"}
      PROVE  StatusInv'
  <2>1. \A i \in DOMAIN statusQueue : statusQueue[i].task \in Call
    BY <1>1, ReportsOnStored DEF TypeOK
  <2>2. LastReportIsLast'
    BY <1>1, <1>2, <2>1 DEF LastReportIsLast
  <2>3. StatusWritten'
    BY <1>1, <1>2, ReportsOnStored DEF StatusWritten, TypeOK
  <2>4. UnreportedAgrees'
    BY <1>1, <1>2 DEF UnreportedAgrees, TypeOK
  <2> QED  BY <1>1, <2>2, <2>3, <2>4 DEF StatusInv
<1>3. ASSUME NEW c \in Call, NEW type \in TaskType, NEW name \in Name,
             NEW fileIds \in SUBSET File, CheckName(c, type, name, fileIds)
      PROVE  StatusInv'
  BY <1>2, <1>3 DEF CheckName
<1>4. ASSUME NEW c \in Call, NEW b \in BOOLEAN,
              FindUnexposed(c) \/ CheckSuitable(c, b) \/ ScheduleTask(c, b)
       PROVE  StatusInv'
  BY <1>2, <1>4 DEF FindUnexposed, CheckSuitable, ScheduleTask
<1>5. ASSUME NEW c \in Call, StoreTask(c) PROVE StatusInv'
  <2>1. /\ stored' = stored \cup {c} /\ UNCHANGED <<job, statusQueue, status>>
        /\ \A t \in Call \ {c} : task'[t] = task[t]
        /\ task'[c].status = "NOT_STARTED"
    BY <1>1, <1>5 DEF StoreTask, TypeOK, NewTask
  <2>2. c \notin stored
    BY <1>1, <1>5 DEF StoreTask, StoredInv, StoredByCall
  <2>3. job[c].last = "NOT_STARTED" /\ \A i \in DOMAIN statusQueue : statusQueue[i].task # c
    BY <1>1, <2>2 DEF OnlyStoredKnown, NewJob
  <2>4. LastReportIsLast'
    BY <1>1, <2>1 DEF LastReportIsLast
  <2>5. StatusWritten'
    BY <1>1, <2>1, <2>2, ReportsOnStored DEF StatusWritten, TypeOK
  <2>6. UnreportedAgrees'
    BY <1>1, <2>1, <2>3 DEF UnreportedAgrees, TypeOK
  <2> QED  BY <1>1, <2>4, <2>5, <2>6 DEF StatusInv
<1>6. ASSUME NEW k \in ModeCall, NEW taskIds \in (SUBSET Call) \ {{}},
             NEW type \in TaskMode, SendTaskMode(k, taskIds, type)
      PROVE  StatusInv'
  BY <1>2, <1>6 DEF SendTaskMode
<1>7. ASSUME NEW m, Deliver(m) PROVE StatusInv'
  BY <1>2, <1>7 DEF Deliver
<1>8. ASSUME NEW m \in service, AcceptTask(m) \/ ChangeMode(m) PROVE StatusInv'
  <2>1. \A t \in Call : job'[t].last = job[t].last
    <3>1. job \in [Call -> Job]
      BY <1>1 DEF TypeOK
    <3>2. CASE AcceptTask(m)
      BY <3>1, <3>2 DEF AcceptTask, Job
    <3>3. CASE ChangeMode(m)
      BY <3>1, <3>3 DEF ChangeMode, Job
    <3> QED  BY <1>8, <3>2, <3>3
  <2>2. UNCHANGED <<stored, statusQueue, task, status>>
    BY <1>8 DEF AcceptTask, ChangeMode
  <2> QED  BY <1>2, <2>1, <2>2
<1>9. ASSUME NEW t \in Call, NEW newStatus, NEW withMode \in BOOLEAN,
             Report(t, newStatus, withMode), UNCHANGED <<stored, task, status>>,
             job'[t].last = newStatus, \A u \in Call \ {t} : job'[u] = job[u],
             t \in stored
      PROVE  StatusInv'
  <2> DEFINE n == Len(statusQueue) + 1
  <2>1. /\ n \in Nat /\ DOMAIN statusQueue' = DOMAIN statusQueue \cup {n}
        /\ \A i \in DOMAIN statusQueue :
             i \in Nat /\ i < n /\ statusQueue'[i] = statusQueue[i]
        /\ statusQueue'[n].task = t /\ statusQueue'[n].status = newStatus
    BY <1>1, <1>9, ReportQueued
  <2> HIDE DEF n
  <2>2. \A i \in DOMAIN statusQueue : statusQueue[i].task \in Call
    BY <1>1, ReportsOnStored DEF TypeOK
  <2>3. ASSUME NEW i \in DOMAIN statusQueue',
               \A j \in DOMAIN statusQueue' :
                 statusQueue'[j].task = statusQueue'[i].task => j <= i
        PROVE  statusQueue'[i].status = job'[statusQueue'[i].task].last
    <3>1. CASE i = n
      BY <1>9, <2>1, <3>1
    <3>2. CASE i \in DOMAIN statusQueue
      <4>1. statusQueue[i].task # t
        BY <2>1, <2>3, <3>2
      <4>2. \A j \in DOMAIN statusQueue :
              statusQueue[j].task = statusQueue[i].task => j <= i
        BY <2>1, <2>3, <3>2
      <4> QED  BY <1>1, <1>9, <2>1, <2>2, <3>2, <4>1, <4>2 DEF LastReportIsLast
    <3> QED  BY <2>1, <3>1, <3>2
  <2>4. LastReportIsLast'
    BY <2>3 DEF LastReportIsLast
  <2>5. StatusWritten'
    <3> SUFFICES ASSUME status.phase \in {"updated", "exposing", "applied"}
                 PROVE  task[Head(statusQueue').task].status = Head(statusQueue').status
      BY <1>9 DEF StatusWritten
    <3>1. 1 \in DOMAIN statusQueue /\ Head(statusQueue) = statusQueue[1]
      BY <1>1, ReportsOnStored
    <3>2. Head(statusQueue') = statusQueue'[1]
      BY <1>1, <1>9, ReportsOnStored
    <3> QED  BY <1>1, <2>1, <3>1, <3>2 DEF StatusWritten
  <2>6. UnreportedAgrees'
    <3> SUFFICES ASSUME NEW u \in stored,
                        \A i \in DOMAIN statusQueue' : statusQueue'[i].task # u
                 PROVE  task[u].status = job'[u].last
      BY <1>9 DEF UnreportedAgrees
    <3>1. u # t /\ \A i \in DOMAIN statusQueue : statusQueue[i].task # u
      BY <2>1
    <3> QED  BY <1>1, <1>9, <3>1 DEF UnreportedAgrees, TypeOK
  <2> QED  BY <1>1, <2>4, <2>5, <2>6 DEF StatusInv
<1>10. ASSUME NEW t \in Call, NEW newStatus \in {"DONE", "FAILED"}, NEW withMode \in BOOLEAN,
             StartRun(t, withMode) \/ EndRun(t, newStatus, withMode)
      PROVE  StatusInv'
  <2>1. job[t] \in Job /\ job \in [Call -> Job] /\ job[t].state # "unknown"
    BY <1>1, <1>10 DEF TypeOK, StartRun, EndRun
  <2>2. t \in stored
    BY <1>1, <2>1 DEF OnlyStoredKnown, NewJob
  <2>3. CASE StartRun(t, withMode)
    <3>1. /\ Report(t, "PROCESSING", withMode) /\ UNCHANGED <<stored, task, status>>
          /\ job'[t].last = "PROCESSING" /\ \A u \in Call \ {t} : job'[u] = job[u]
      BY <2>1, <2>3 DEF StartRun, Job
    <3> QED  BY <1>9, <2>2, <3>1
  <2>4. CASE EndRun(t, newStatus, withMode)
    <3>1. /\ Report(t, newStatus, withMode) /\ UNCHANGED <<stored, task, status>>
          /\ job'[t].last = newStatus /\ \A u \in Call \ {t} : job'[u] = job[u]
      BY <2>1, <2>4 DEF EndRun, Job
    <3> QED  BY <1>9, <2>2, <3>1
  <2> QED  BY <1>10, <2>3, <2>4
<1>11. CASE UpdateStatus
  <2> DEFINE m == Head(statusQueue)
  <2>1. statusQueue \in Seq(StatusMsg) /\ statusQueue # <<>>
    BY <1>1, <1>11 DEF UpdateStatus, TypeOK
  <2>2. /\ 1 \in DOMAIN statusQueue /\ m = statusQueue[1]
        /\ m.task \in stored /\ m.task \in Call
    BY <1>1, <2>1, AckQueue, ReportsOnStored DEF TypeOK
  <2>3. /\ UNCHANGED <<stored, statusQueue, job>>
        /\ task' = [task EXCEPT ![m.task] = IF m.status = "FAILED"
                                            THEN setFailedTaskInfo(task[m.task], m)
                                            ELSE updateTaskStatus(task[m.task], m)]
    BY <1>11, <2>2 DEF UpdateStatus
  <2> HIDE DEF m
  <2>4. task[m.task] \in Task /\ task \in [Call -> Task]
    BY <1>1, <2>2 DEF TypeOK
  <2>5. task'[m.task].status = m.status /\ \A t \in Call \ {m.task} : task'[t] = task[t]
    BY <2>2, <2>3, <2>4 DEF setFailedTaskInfo, updateTaskStatus, Task
  <2>6. LastReportIsLast'
    BY <1>1, <2>3 DEF LastReportIsLast
  <2>7. StatusWritten'
    BY <2>3, <2>5 DEF StatusWritten, m
  <2>8. UnreportedAgrees'
    BY <1>1, <2>2, <2>3, <2>5 DEF UnreportedAgrees, TypeOK
  <2> QED  BY <1>1, <2>6, <2>7, <2>8 DEF StatusInv
<1>12. CASE ReadTaskFiles
  BY <1>2, <1>12 DEF ReadTaskFiles
<1>13. ASSUME NEW f \in File, ExposeFile(f) PROVE StatusInv'
  BY <1>2, <1>13 DEF ExposeFile
<1>14. CASE AckStatus
  <2> DEFINE m == Head(statusQueue)
  <2>1. /\ statusQueue \in Seq(StatusMsg) /\ statusQueue # <<>>
        /\ statusQueue' = Tail(statusQueue)
    BY <1>1, <1>14, AckLeaves
  <2>2. /\ m = statusQueue[1] /\ 1 \in DOMAIN statusQueue
        /\ \A i \in DOMAIN statusQueue : i \in Nat /\ i >= 1
        /\ \A i \in DOMAIN statusQueue' : /\ i \in Nat /\ i >= 1
             /\ i + 1 \in DOMAIN statusQueue /\ statusQueue'[i] = statusQueue[i + 1]
        /\ \A i \in DOMAIN statusQueue : i # 1 =>
             i - 1 \in DOMAIN statusQueue' /\ statusQueue'[i - 1] = statusQueue[i]
    BY <2>1, AckQueue
  <2>3. /\ UNCHANGED <<stored, task, job>> /\ status'.phase = "idle"
        /\ task[m.task].status = m.status
    BY <1>1, <1>14 DEF AckStatus, StatusWritten
  <2> HIDE DEF m
  <2>4. ASSUME NEW i \in DOMAIN statusQueue',
               \A j \in DOMAIN statusQueue' :
                 statusQueue'[j].task = statusQueue'[i].task => j <= i
        PROVE  statusQueue'[i].status = job[statusQueue'[i].task].last
    <3>1. ASSUME NEW j \in DOMAIN statusQueue,
                 statusQueue[j].task = statusQueue[i + 1].task
          PROVE  j <= i + 1
      <4>1. CASE j = 1
        BY <2>2, <4>1
      <4>2. CASE j # 1
        <5>1. j - 1 <= i
          BY <2>2, <2>4, <3>1, <4>2
        <5> QED  BY <2>2, <5>1
      <4> QED  BY <4>1, <4>2
    <3> QED  BY <1>1, <2>2, <3>1 DEF LastReportIsLast
  <2>5. LastReportIsLast'
    BY <2>3, <2>4 DEF LastReportIsLast
  <2>6. StatusWritten'
    BY <2>3 DEF StatusWritten
  <2>7. UnreportedAgrees'
    <3> SUFFICES ASSUME NEW t \in stored,
                        \A i \in DOMAIN statusQueue' : statusQueue'[i].task # t
                 PROVE  task[t].status = job[t].last
      BY <2>3 DEF UnreportedAgrees
    <3>1. \A i \in DOMAIN statusQueue : i # 1 => statusQueue[i].task # t
      BY <2>2
    <3>2. CASE m.task = t
      <4>1. \A j \in DOMAIN statusQueue : statusQueue[j].task = m.task => j <= 1
        BY <2>2, <3>1, <3>2
      <4>2. m.status = job[m.task].last
        BY <1>1, <2>2, <4>1 DEF LastReportIsLast
      <4> QED  BY <2>3, <3>2, <4>2
    <3>3. CASE m.task # t
      BY <1>1, <2>2, <3>1, <3>3 DEF UnreportedAgrees
    <3> QED  BY <3>2, <3>3
  <2> QED  BY <1>1, <2>5, <2>6, <2>7 DEF StatusInv
<1>15. CASE ChangeTasksModes
  <2>1. \A t \in Call : task'[t].status = task[t].status
    BY <1>1, <1>15 DEF ChangeTasksModes, TypeOK, Task
  <2> QED  BY <1>2, <1>15, <2>1 DEF ChangeTasksModes
<1>16. CASE FailStatus \/ FailMode \/ AckMode \/ Crash \/ UNCHANGED vars
  BY <1>2, <1>16 DEF FailStatus, FailMode, AckMode, Crash, vars
<1> QED
  BY <1>3, <1>4, <1>5, <1>6, <1>7, <1>8, <1>10, <1>11, <1>12, <1>13, <1>14, <1>15,
     <1>16 DEF Next

(* When no report on a task is outstanding, its status is the one the       *)
(* data-service reported last, through failed handlers, restarts and        *)
(* redelivered reports.                                                     *)
THEOREM Status == Spec => []SettledStatusAgrees
<1>1. Init => StatusInv
  <2> SUFFICES ASSUME Init PROVE StatusInv  OBVIOUS
  <2>1. stored = {} /\ statusQueue = <<>> /\ status.phase = "idle"
    BY DEF Init
  <2> QED  BY <2>1, StoredInit DEF StatusInv, LastReportIsLast, StatusWritten, UnreportedAgrees
<1>2. StatusInv => SettledStatusAgrees
  <2> SUFFICES ASSUME StatusInv, NEW t \in stored, ~ReportPending(t)
               PROVE  task[t].status = job[t].last
    BY DEF SettledStatusAgrees
  <2>1. \A i \in DOMAIN statusQueue :
          statusQueue[i].task = t => i = 1 /\ status.phase = "applied"
    BY DEF ReportPending
  <2>2. CASE \A i \in DOMAIN statusQueue : statusQueue[i].task # t
    BY <2>2 DEF StatusInv, UnreportedAgrees
  <2>3. CASE \E i \in DOMAIN statusQueue : statusQueue[i].task = t
    <3>1. status.phase = "applied" /\ 1 \in DOMAIN statusQueue /\ statusQueue[1].task = t
      BY <2>1, <2>3
    <3>2. Head(statusQueue) = statusQueue[1]
      BY <3>1, ReportsOnStored DEF StatusInv
    <3>3. task[t].status = statusQueue[1].status
      BY <3>1, <3>2 DEF StatusInv, StatusWritten
    <3>4. \A j \in DOMAIN statusQueue : statusQueue[j].task = t => j <= 1
      BY <2>1
    <3> QED  BY <3>1, <3>3, <3>4 DEF StatusInv, LastReportIsLast
  <2> QED  BY <2>2, <2>3
<1> QED  BY <1>1, <1>2, StatusStep, PTL DEF Spec

----------------------------------------------------------------------------
(* Uploads.                                                                *)

\* Only uploads have files, and the data-service has none but those of the task.
FilesInv ==
  /\ \A c \in Call :
       /\ call[c].pc = "checked" \/ call[c].found # {} => call[c].type = "DATA_UPLOAD"
       /\ task[c].files # {} => task[c].type = "DATA_UPLOAD"
       /\ job[c].files \subseteq task[c].files
  /\ \A m \in outbox \cup service :
       m.kind = "scheduled" => m.files \subseteq task[m.task].files

\* Every action keeps the files with the uploads.
LEMMA FilesStep == StoredInv /\ FilesInv /\ [Next]_vars => FilesInv'
<1> SUFFICES ASSUME StoredInv, FilesInv, [Next]_vars PROVE FilesInv'  OBVIOUS
<1>1. TypeOK /\ StoredByCall /\ OnlyStoredKnown
  BY DEF StoredInv
<1>2. ASSUME \A c \in Call : call'[c].pc = "checked" \/ call'[c].found # {}
                               => call'[c].type = "DATA_UPLOAD",
             \A t \in Call : /\ task'[t].type = task[t].type
                             /\ task'[t].files = task[t].files
                             /\ job'[t].files \subseteq task[t].files,
             \A m \in outbox' \cup service' :
               \/ m \in outbox \cup service
               \/ m.kind = "scheduled" =>
                    m.task \in Call /\ m.files \subseteq task[m.task].files
      PROVE  FilesInv'
  <2>1. \A m \in outbox \cup service : m.kind = "scheduled" => m.task \in Call
    BY <1>1 DEF TypeOK, ScheduledMsg, ModeMsg
  <2> QED  BY <1>2, <2>1 DEF FilesInv
<1>3. ASSUME UNCHANGED call,
             \A t \in Call : /\ task'[t].type = task[t].type
                             /\ task'[t].files = task[t].files
                             /\ job'[t].files \subseteq task[t].files,
             \A m \in outbox' \cup service' : m \in outbox \cup service \/ m.kind = "mode"
      PROVE  FilesInv'
  BY <1>2, <1>3 DEF FilesInv
<1>4. ASSUME UNCHANGED <<task, job>>, outbox' \subseteq outbox, UNCHANGED service,
             \A c \in Call : call'[c].pc = "checked" \/ call'[c].found # {}
                               => call'[c].type = "DATA_UPLOAD"
      PROVE  FilesInv'
  BY <1>2, <1>4 DEF FilesInv
<1>5. ASSUME NEW c \in Call, NEW type \in TaskType, NEW name \in Name,
             NEW fileIds \in SUBSET File, CheckName(c, type, name, fileIds)
      PROVE  FilesInv'
  <2>1. /\ \A d \in Call \ {c} : call'[d] = call[d]
        /\ call'[c].pc = "checked" => call'[c].type = "DATA_UPLOAD"
        /\ call'[c].found = {}
    BY <1>1, <1>5 DEF CheckName, TypeOK, CallAt
  <2> QED  BY <1>4, <1>5, <2>1 DEF CheckName, FilesInv
<1>6. ASSUME NEW c \in Call, NEW suitable \in BOOLEAN,
             FindUnexposed(c) \/ CheckSuitable(c, suitable)
      PROVE  FilesInv'
  <2>1. /\ call[c] \in CallState
        /\ call[c].type = "DATA_UPLOAD" \/ call[c].found = {}
    BY <1>1, <1>6 DEF TypeOK, FilesInv
  <2>2. /\ \A found : [call[c] EXCEPT !.pc = "found", !.found = found].type = call[c].type
        /\ [call[c] EXCEPT !.pc = "suitable"].type = call[c].type
        /\ [call[c] EXCEPT !.pc = "suitable"].found = call[c].found
        /\ [call[c] EXCEPT !.pc = "suitable"].pc = "suitable"
        /\ CallAt("done").pc = "done" /\ CallAt("done").found = {}
    BY <1>1 DEF TypeOK, CallState, CallAt
  <2>3. \A d \in Call \ {c} : call'[d] = call[d]
    BY <1>1, <1>6 DEF FindUnexposed, CheckSuitable, TypeOK
  <2>4. call'[c].pc = "checked" \/ call'[c].found # {} => call'[c].type = "DATA_UPLOAD"
    <3>1. CASE FindUnexposed(c)
      <4>1. call[c].pc = "checked" /\ call[c].type = "DATA_UPLOAD"
        BY <3>1 DEF FindUnexposed, FilesInv
      <4> QED  BY <1>1, <2>2, <3>1, <4>1 DEF FindUnexposed, TypeOK
    <3>2. CASE CheckSuitable(c, suitable)
      BY <1>1, <2>2, <3>2 DEF CheckSuitable, TypeOK, FilesInv
    <3> QED  BY <1>6, <3>1, <3>2
  <2> QED  BY <1>4, <1>6, <2>3, <2>4 DEF FindUnexposed, CheckSuitable, FilesInv
<1>7. ASSUME NEW c \in Call, StoreTask(c) PROVE FilesInv'
  <2>1. c \notin stored
    BY <1>1, <1>7 DEF StoreTask, StoredByCall
  <2>2. /\ \A d \in Call \ {c} : call'[d] = call[d] /\ task'[d] = task[d]
        /\ call'[c].pc = "stored" /\ call'[c].found = call[c].found
        /\ call'[c].type = call[c].type
        /\ task'[c].type = call[c].type /\ task'[c].files \subseteq call[c].found
        /\ UNCHANGED <<job, outbox, service>>
    <3>1. call[c] \in CallState
      BY <1>1 DEF TypeOK
    <3>2. /\ call' = [call EXCEPT ![c] = [call[c] EXCEPT !.pc = "stored"]]
          /\ task' = [task EXCEPT ![c] =
               NewTask(call[c].type, call[c].name, taskFiles(call[c].found))]
          /\ UNCHANGED <<job, outbox, service>>
      BY <1>1, <1>7 DEF StoreTask, TypeOK
    <3> QED  BY <1>1, <3>1, <3>2 DEF TypeOK, CallState, NewTask, taskFiles
  <2>3. job[c].files = {}
    BY <1>1, <2>1 DEF OnlyStoredKnown, NewJob
  <2>4. \A m \in outbox \cup service : m.kind = "scheduled" => m.task \in Call \ {c}
    BY <1>1, <2>1 DEF OnlyStoredKnown, TypeOK
  <2>5. \A d \in Call :
          /\ call'[d].pc = "checked" \/ call'[d].found # {} => call'[d].type = "DATA_UPLOAD"
          /\ task'[d].files # {} => task'[d].type = "DATA_UPLOAD"
          /\ job'[d].files \subseteq task'[d].files
    BY <2>2, <2>3 DEF FilesInv
  <2> QED  BY <2>2, <2>4, <2>5 DEF FilesInv
<1>8. ASSUME NEW c \in Call, NEW wellFormed \in BOOLEAN, ScheduleTask(c, wellFormed)
      PROVE  FilesInv'
  <2>1. /\ \A d \in Call \ {c} : call'[d] = call[d]
        /\ call'[c].pc = "done" /\ call'[c].found = {}
        /\ UNCHANGED <<task, job, service>>
        /\ outbox' \subseteq outbox \cup scheduledMessages(c)
    BY <1>1, <1>8 DEF ScheduleTask, TypeOK, CallAt
  <2>2. \A m \in scheduledMessages(c) : m.task = c /\ m.files \subseteq task[c].files
    BY DEF scheduledMessages, mapDataUploadTask
  <2> QED  BY <1>2, <2>1, <2>2 DEF FilesInv
<1>9. ASSUME NEW k \in ModeCall, NEW taskIds \in (SUBSET Call) \ {{}},
             NEW type \in TaskMode, SendTaskMode(k, taskIds, type)
      PROVE  FilesInv'
  BY <1>3, <1>9 DEF SendTaskMode, FilesInv
<1>10. ASSUME NEW m, Deliver(m) PROVE FilesInv'
  BY <1>3, <1>10 DEF Deliver, FilesInv
<1>11. ASSUME NEW m \in service, AcceptTask(m) PROVE FilesInv'
  <2>1. m.task \in Call /\ m.files \subseteq task[m.task].files
    BY <1>1, <1>11 DEF AcceptTask, TypeOK, ScheduledMsg, ModeMsg, FilesInv
  <2>2. \A t \in Call : job'[t].files \subseteq task[t].files
    <3>1. \A t \in Call \ {m.task} : job'[t] = job[t]
      BY <1>1, <1>11 DEF AcceptTask, TypeOK
    <3>2. job'[m.task].files = m.files
      BY <1>1, <1>11, <2>1 DEF AcceptTask, TypeOK, Job
    <3> QED  BY <2>1, <3>1, <3>2 DEF FilesInv
  <2> QED  BY <1>3, <1>11, <2>2 DEF AcceptTask
<1>12. ASSUME NEW t \in Call, NEW newStatus \in {"DONE", "FAILED"}, NEW withMode \in BOOLEAN,
              StartRun(t, withMode) \/ EndRun(t, newStatus, withMode)
       PROVE  FilesInv'
  <2>1. \A u \in Call : job'[u].files = job[u].files
    <3>1. job \in [Call -> Job]
      BY <1>1 DEF TypeOK
    <3>2. CASE StartRun(t, withMode)
      BY <3>1, <3>2 DEF StartRun, Job
    <3>3. CASE EndRun(t, newStatus, withMode)
      BY <3>1, <3>3 DEF EndRun, Job
    <3> QED  BY <1>12, <3>2, <3>3
  <2> QED  BY <1>3, <1>12, <2>1 DEF StartRun, EndRun, FilesInv
<1>13. ASSUME NEW m \in service, ChangeMode(m) PROVE FilesInv'
  <2>1. \A u \in Call : job'[u].files = job[u].files
    BY <1>1, <1>13 DEF ChangeMode, TypeOK, Job
  <2> QED  BY <1>3, <1>13, <2>1 DEF ChangeMode, FilesInv
<1>14. CASE UpdateStatus \/ ChangeTasksModes
  <2>1. \A t \in Call : task'[t].type = task[t].type /\ task'[t].files = task[t].files
    <3>1. task \in [Call -> Task]
      BY <1>1 DEF TypeOK
    <3>2. CASE UpdateStatus
      BY <3>1, <3>2 DEF UpdateStatus, setFailedTaskInfo, updateTaskStatus, Task
    <3>3. CASE ChangeTasksModes
      BY <3>1, <3>3 DEF ChangeTasksModes, Task
    <3> QED  BY <1>14, <3>2, <3>3
  <2> QED  BY <1>3, <1>14, <2>1 DEF UpdateStatus, ChangeTasksModes, FilesInv
<1>15. ASSUME NEW f \in File, ExposeFile(f) PROVE FilesInv'
  BY <1>3, <1>15 DEF ExposeFile, FilesInv
<1>16. CASE \/ ReadTaskFiles \/ AckStatus \/ FailStatus \/ AckMode \/ FailMode
            \/ UNCHANGED vars
  BY <1>3, <1>16 DEF ReadTaskFiles, AckStatus, FailStatus, AckMode, FailMode, vars, FilesInv
<1>17. CASE Crash
  <2>1. \A c \in Call : call'[c] = call[c] \/ (call'[c].pc = "done" /\ call'[c].found = {})
    BY <1>17 DEF Crash, CallAt
  <2> QED  BY <1>4, <1>17, <2>1 DEF Crash, FilesInv
<1> QED
  BY <1>5, <1>6, <1>7, <1>8, <1>9, <1>10, <1>11, <1>12, <1>13, <1>14, <1>15, <1>16,
     <1>17 DEF Next

\* What the queue and the handler at work on it say of the files of the uploads.
DoneIsUploaded ==
  \A i \in DOMAIN statusQueue :
    statusQueue[i].status = "DONE" => job[statusQueue[i].task].uploaded

MarkingOwnFiles ==
  /\ status.phase \in {"updated", "exposing"} => Head(statusQueue).status = "DONE"
  /\ status.phase = "exposing" =>
       /\ status.ids \subseteq task[Head(statusQueue).task].files
       /\ task[Head(statusQueue).task].files \ status.ids \subseteq exposed
  /\ status.phase = "applied" /\ Head(statusQueue).status = "DONE"
       /\ task[Head(statusQueue).task].type = "DATA_UPLOAD" =>
       task[Head(statusQueue).task].files \subseteq exposed

MarkedOrReported ==
  \A t \in stored :
    task[t].type = "DATA_UPLOAD" /\ job[t].uploaded =>
      \/ task[t].files \subseteq exposed
      \/ \E i \in DOMAIN statusQueue :
           statusQueue[i].task = t /\ statusQueue[i].status = "DONE"

MarksInv == DoneIsUploaded /\ MarkingOwnFiles /\ MarkedOrReported /\ ExposedByUpload

\* Every action keeps the marks with the reports.
LEMMA MarksStep == StoredInv /\ MarksInv /\ [Next]_vars => MarksInv'
<1> SUFFICES ASSUME StoredInv, MarksInv, [Next]_vars PROVE MarksInv'  OBVIOUS
<1>1. TypeOK /\ StoredByCall /\ OnlyStoredKnown /\ stored \subseteq Call
  BY DEF StoredInv, TypeOK
<1>2. ASSUME UNCHANGED <<exposed, statusQueue>>, stored \subseteq stored',
             \A t \in stored : /\ task'[t].type = task[t].type
                               /\ task'[t].files = task[t].files
                               /\ job'[t].uploaded = job[t].uploaded,
             \A t \in stored' \ stored : job'[t].uploaded = FALSE,
             status' = status \/ status'.phase \in {"idle", "blocked"}
      PROVE  MarksInv'
  <2>1. DoneIsUploaded'
    BY <1>2, ReportsOnStored DEF MarksInv, DoneIsUploaded
  <2>2. MarkingOwnFiles'
    BY <1>2, ReportsOnStored DEF MarksInv, MarkingOwnFiles
  <2>3. MarkedOrReported'
    BY <1>2 DEF MarksInv, MarkedOrReported
  <2>4. ExposedByUpload'
    BY <1>2 DEF MarksInv, ExposedByUpload
  <2> QED  BY <2>1, <2>2, <2>3, <2>4 DEF MarksInv
<1>3. ASSUME NEW c \in Call, NEW type \in TaskType, NEW name \in Name,
             NEW fileIds \in SUBSET File, CheckName(c, type, name, fileIds)
      PROVE  MarksInv'
  BY <1>2, <1>3 DEF CheckName
<1>4. ASSUME NEW c \in Call, NEW b \in BOOLEAN,
             FindUnexposed(c) \/ CheckSuitable(c, b) \/ ScheduleTask(c, b)
      PROVE  MarksInv'
  BY <1>2, <1>4 DEF FindUnexposed, CheckSuitable, ScheduleTask
<1>5. ASSUME NEW c \in Call, StoreTask(c) PROVE MarksInv'
  <2>1. /\ stored' = stored \cup {c} /\ UNCHANGED <<job, exposed, statusQueue, status>>
        /\ \A t \in Call \ {c} : task'[t] = task[t]
    BY <1>1, <1>5 DEF StoreTask, TypeOK
  <2>2. c \notin stored /\ job[c].uploaded = FALSE
    BY <1>1, <1>5 DEF StoreTask, StoredByCall, OnlyStoredKnown, NewJob
  <2> QED  BY <1>1, <1>2, <2>1, <2>2
<1>6. ASSUME NEW k \in ModeCall, NEW taskIds \in (SUBSET Call) \ {{}},
             NEW type \in TaskMode, SendTaskMode(k, taskIds, type)
      PROVE  MarksInv'
  BY <1>2, <1>6 DEF SendTaskMode
<1>7. ASSUME NEW m, Deliver(m) PROVE MarksInv'
  BY <1>2, <1>7 DEF Deliver
<1>8. ASSUME NEW m \in service, AcceptTask(m) \/ ChangeMode(m) PROVE MarksInv'
  <2>1. \A t \in Call : job'[t].uploaded = job[t].uploaded
    <3>1. job \in [Call -> Job]
      BY <1>1 DEF TypeOK
    <3>2. CASE AcceptTask(m)
      BY <3>1, <3>2 DEF AcceptTask, Job
    <3>3. CASE ChangeMode(m)
      BY <3>1, <3>3 DEF ChangeMode, Job
    <3> QED  BY <1>8, <3>2, <3>3
  <2>2. UNCHANGED <<stored, statusQueue, exposed, task, status>>
    BY <1>8 DEF AcceptTask, ChangeMode
  <2> QED  BY <1>1, <1>2, <2>1, <2>2
<1>9. ASSUME NEW t \in Call, NEW newStatus, NEW withMode \in BOOLEAN,
             Report(t, newStatus, withMode),
             UNCHANGED <<stored, task, exposed, status>>,
             job'[t].uploaded <=> job[t].uploaded \/ newStatus = "DONE",
             \A u \in Call \ {t} : job'[u] = job[u]
      PROVE  MarksInv'
  <2> DEFINE n == Len(statusQueue) + 1
  <2>1. /\ DOMAIN statusQueue' = DOMAIN statusQueue \cup {n}
        /\ \A i \in DOMAIN statusQueue : statusQueue'[i] = statusQueue[i]
        /\ statusQueue'[n].task = t /\ statusQueue'[n].status = newStatus
    BY <1>1, <1>9, ReportQueued
  <2> HIDE DEF n
  <2>2. \A i \in DOMAIN statusQueue : statusQueue[i].task \in Call
    BY <1>1, ReportsOnStored
  <2>3. \A u \in Call : job[u].uploaded => job'[u].uploaded
    BY <1>9
  <2>4. DoneIsUploaded'
    BY <1>9, <2>1, <2>2, <2>3 DEF MarksInv, DoneIsUploaded
  <2>5. MarkingOwnFiles'
    <3>1. status.phase \in {"updated", "exposing", "applied"} =>
            Head(statusQueue') = Head(statusQueue)
      <4>1. \/ statusQueue' # <<>> /\ statusQueue' \in Seq(StatusMsg)
            \/ status.phase \notin {"updated", "exposing", "applied"}
        BY <1>1, <1>9, <2>1, ReportsOnStored, TypeStep DEF TypeOK
      <4> QED  BY <1>9, <2>1, <4>1, AckQueue, ReportsOnStored
    <3> QED  BY <1>9, <3>1 DEF MarksInv, MarkingOwnFiles
  <2>6. MarkedOrReported'
    <3> SUFFICES ASSUME NEW u \in stored, task[u].type = "DATA_UPLOAD", job'[u].uploaded
                 PROVE  \/ task[u].files \subseteq exposed
                        \/ \E i \in DOMAIN statusQueue' :
                             statusQueue'[i].task = u /\ statusQueue'[i].status = "DONE"
      BY <1>9 DEF MarkedOrReported
    <3>1. CASE job[u].uploaded
      BY <2>1, <3>1 DEF MarksInv, MarkedOrReported
    <3>2. CASE ~job[u].uploaded
      BY <1>1, <1>9, <2>1, <3>2
    <3> QED  BY <3>1, <3>2
  <2>7. ExposedByUpload'
    BY <1>1, <1>9, <2>3 DEF MarksInv, ExposedByUpload
  <2> QED  BY <2>4, <2>5, <2>6, <2>7 DEF MarksInv
<1>10. ASSUME NEW t \in Call, NEW newStatus \in {"DONE", "FAILED"}, NEW withMode \in BOOLEAN,
              StartRun(t, withMode) \/ EndRun(t, newStatus, withMode)
       PROVE  MarksInv'
  <2>1. job[t] \in Job /\ job \in [Call -> Job]
    BY <1>1 DEF TypeOK
  <2>2. CASE StartRun(t, withMode)
    <3>1. /\ Report(t, "PROCESSING", withMode)
          /\ UNCHANGED <<stored, task, exposed, status>>
          /\ job'[t].uploaded = job[t].uploaded /\ \A u \in Call \ {t} : job'[u] = job[u]
      BY <2>1, <2>2 DEF StartRun, Job
    <3> QED  BY <1>9, <3>1
  <2>3. CASE EndRun(t, newStatus, withMode)
    <3>1. /\ Report(t, newStatus, withMode)
          /\ UNCHANGED <<stored, task, exposed, status>>
          /\ job'[t].uploaded = (job[t].uploaded \/ newStatus = "DONE")
          /\ \A u \in Call \ {t} : job'[u] = job[u]
      BY <2>1, <2>3 DEF EndRun, Job
    <3> QED  BY <1>9, <3>1
  <2> QED  BY <1>10, <2>2, <2>3
<1>11. CASE UpdateStatus
  <2> DEFINE m == Head(statusQueue)
  <2>1. statusQueue \in Seq(StatusMsg) /\ statusQueue # <<>>
    BY <1>1, <1>11 DEF UpdateStatus, TypeOK
  <2>2. m.task \in stored
    BY <2>1, AckQueue, ReportsOnStored
  <2>3. UNCHANGED <<stored, statusQueue, job, exposed>>
    BY <1>11 DEF UpdateStatus
  <2>4. \A t \in stored : task'[t].type = task[t].type /\ task'[t].files = task[t].files
    <3>1. task \in [Call -> Task]
      BY <1>1 DEF TypeOK
    <3> QED
      BY <1>1, <1>11, <3>1 DEF UpdateStatus, setFailedTaskInfo, updateTaskStatus, Task
  <2>5. MarkingOwnFiles'
    BY <1>11, <2>2, <2>3, <2>4 DEF UpdateStatus, marksFiles, MarkingOwnFiles
  <2>6. DoneIsUploaded' /\ MarkedOrReported' /\ ExposedByUpload'
    BY <2>3, <2>4 DEF MarksInv, DoneIsUploaded, MarkedOrReported, ExposedByUpload
  <2> QED  BY <2>5, <2>6 DEF MarksInv
<1>12. CASE ReadTaskFiles
  <2>1. /\ UNCHANGED <<stored, task, statusQueue, job, exposed>>
        /\ getDataUploadTaskFileIds(Head(statusQueue).task) =
             task[Head(statusQueue).task].files
    BY <1>12, ReportsOnStored DEF ReadTaskFiles, getDataUploadTaskFileIds
  <2>2. MarkingOwnFiles'
    BY <1>12, <2>1 DEF ReadTaskFiles, MarksInv, MarkingOwnFiles
  <2>3. DoneIsUploaded' /\ MarkedOrReported' /\ ExposedByUpload'
    BY <2>1 DEF MarksInv, DoneIsUploaded, MarkedOrReported, ExposedByUpload
  <2> QED  BY <2>2, <2>3 DEF MarksInv
<1>13. ASSUME NEW f \in File, ExposeFile(f) PROVE MarksInv'
  <2>1. /\ UNCHANGED <<stored, task, statusQueue, job>> /\ exposed' = exposed \cup {f}
        /\ status.phase = "exposing" /\ f \in status.ids
        /\ status'.phase \in {"applied", "exposing"} /\ status'.ids = status.ids \ {f}
        /\ status'.phase = "applied" => status.ids = {f}
    BY <1>13 DEF ExposeFile
  <2>2. MarkingOwnFiles'
    BY <2>1 DEF MarksInv, MarkingOwnFiles
  <2>3. DoneIsUploaded' /\ MarkedOrReported'
    BY <2>1 DEF MarksInv, DoneIsUploaded, MarkedOrReported
  <2>4. ExposedByUpload'
    <3>1. Head(statusQueue).task \in stored /\ f \in task[Head(statusQueue).task].files
      BY <2>1, ReportsOnStored DEF MarksInv, MarkingOwnFiles
    <3>2. job[Head(statusQueue).task].uploaded
      BY <2>1, ReportsOnStored DEF MarksInv, MarkingOwnFiles, DoneIsUploaded
    <3> QED  BY <2>1, <3>1, <3>2 DEF MarksInv, ExposedByUpload
  <2> QED  BY <2>2, <2>3, <2>4 DEF MarksInv
<1>14. CASE AckStatus
  <2>1. /\ statusQueue \in Seq(StatusMsg) /\ statusQueue # <<>>
        /\ statusQueue' = Tail(statusQueue)
        /\ UNCHANGED <<stored, task, job, exposed>>
        /\ status.phase = "applied" /\ status'.phase = "idle"
    BY <1>1, <1>14, AckLeaves DEF AckStatus
  <2>2. /\ Head(statusQueue) = statusQueue[1]
        /\ \A i \in DOMAIN statusQueue' :
             i + 1 \in DOMAIN statusQueue /\ statusQueue'[i] = statusQueue[i + 1]
        /\ \A i \in DOMAIN statusQueue : i # 1 =>
             i - 1 \in DOMAIN statusQueue' /\ statusQueue'[i - 1] = statusQueue[i]
    BY <2>1, AckQueue
  <2>3. DoneIsUploaded'
    BY <2>1, <2>2 DEF MarksInv, DoneIsUploaded
  <2>4. MarkingOwnFiles'
    BY <2>1 DEF MarkingOwnFiles
  <2>5. MarkedOrReported'
    <3> SUFFICES ASSUME NEW t \in stored, task[t].type = "DATA_UPLOAD", job[t].uploaded,
                        ~(task[t].files \subseteq exposed)
                 PROVE  \E i \in DOMAIN statusQueue' :
                          statusQueue'[i].task = t /\ statusQueue'[i].status = "DONE"
      BY <2>1 DEF MarkedOrReported
    <3>1. PICK i \in DOMAIN statusQueue :
            statusQueue[i].task = t /\ statusQueue[i].status = "DONE"
      BY DEF MarksInv, MarkedOrReported
    <3>2. i # 1
      BY <2>1, <2>2, <3>1 DEF MarksInv, MarkingOwnFiles
    <3> QED  BY <2>2, <3>1, <3>2
  <2>6. ExposedByUpload'
    BY <2>1 DEF MarksInv, ExposedByUpload
  <2> QED  BY <2>3, <2>4, <2>5, <2>6 DEF MarksInv
<1>15. CASE ChangeTasksModes
  <2>1. \A t \in Call : task'[t].type = task[t].type /\ task'[t].files = task[t].files
    BY <1>1, <1>15 DEF ChangeTasksModes, TypeOK, Task
  <2> QED  BY <1>1, <1>2, <1>15, <2>1 DEF ChangeTasksModes
<1>16. CASE FailStatus \/ Crash
  <2>1. /\ UNCHANGED <<stored, task, job, exposed, statusQueue>>
        /\ status'.phase \in {"idle", "blocked"}
    BY <1>16 DEF FailStatus, Crash
  <2> QED  BY <1>2, <2>1
<1>17. CASE FailMode \/ AckMode \/ UNCHANGED vars
  BY <1>2, <1>17 DEF FailMode, AckMode, vars
<1> QED
  BY <1>3, <1>4, <1>5, <1>6, <1>7, <1>8, <1>10, <1>11, <1>12, <1>13, <1>14, <1>15,
     <1>16, <1>17 DEF Next

\* A call holds a file while it is on its way to a task with it, and when it has
\* become one.
Holds(c, f) == f \in call[c].found \/ (c \in stored /\ f \in task[c].files)

OneHolder ==
  \A f \in File \ raced : \A c, d \in Call : Holds(c, f) /\ Holds(d, f) => c = d

UploadInv == StoredInv /\ FilesInv /\ MarksInv /\ OneHolder

\* A finished upload without a report to be applied is marked.
LEMMA MarksRecord == MarksInv => UploadIsRecorded
<1> SUFFICES ASSUME MarksInv, NEW t \in stored, task[t].type = "DATA_UPLOAD",
                    job[t].uploaded, ~ReportPending(t)
             PROVE  task[t].files \subseteq exposed
  BY DEF UploadIsRecorded
<1>1. ASSUME NEW i \in DOMAIN statusQueue, statusQueue[i].task = t,
             statusQueue[i].status = "DONE"
      PROVE  task[t].files \subseteq exposed
  <2>1. i = 1 /\ status.phase = "applied"
    BY <1>1 DEF ReportPending
  <2>2. Head(statusQueue) = statusQueue[1]
    BY <2>1
  <2> QED  BY <1>1, <2>1, <2>2 DEF MarksInv, MarkingOwnFiles
<1> QED  BY <1>1 DEF MarksInv, MarkedOrReported

\* Every action keeps a file to one call.
LEMMA UploadStep == UploadInv /\ [Next]_vars => UploadInv'
<1> SUFFICES ASSUME UploadInv, [Next]_vars PROVE UploadInv'  OBVIOUS
<1>1. /\ StoredInv' /\ FilesInv' /\ MarksInv' /\ OneHolder /\ UploadIsRecorded
      /\ TypeOK /\ StoredByCall /\ FilesInv
  BY StoredStep, FilesStep, MarksStep, MarksRecord DEF UploadInv, StoredInv
<1>2. ASSUME raced \subseteq raced',
             \A c \in Call : \A f \in File : Holds(c, f)' => Holds(c, f)
      PROVE  UploadInv'
  BY <1>1, <1>2 DEF UploadInv, OneHolder
<1>3. ASSUME UNCHANGED <<stored, raced>>,
             \A c \in Call : /\ call'[c].found \subseteq call[c].found
                             /\ task'[c].files = task[c].files
      PROVE  UploadInv'
  BY <1>2, <1>3 DEF Holds
<1>4. ASSUME NEW c \in Call, NEW type \in TaskType, NEW name \in Name,
             NEW fileIds \in SUBSET File, CheckName(c, type, name, fileIds)
      PROVE  UploadInv'
  <2>1. call'[c].found = {} /\ \A d \in Call \ {c} : call'[d] = call[d]
    BY <1>1, <1>4 DEF CheckName, TypeOK, CallAt
  <2> QED  BY <1>3, <1>4, <2>1 DEF CheckName
<1>5. ASSUME NEW c \in Call, FindUnexposed(c) PROVE UploadInv'
  <2> DEFINE found == unexposed(call[c].fileIds)
             gone == CallAt("done")
             kept == [call[c] EXCEPT !.pc = "found", !.found = found]
  <2>1. /\ call' = [call EXCEPT ![c] = IF found = {} THEN gone ELSE kept]
        /\ raced' = raced \cup {f \in found \ exposed :
             \/ \E d \in Call \ {c} : f \in call[d].found
             \/ \E t \in stored :
                  f \in task[t].files /\ (~job[t].uploaded \/ ReportPending(t))}
        /\ UNCHANGED <<stored, task>>
    BY <1>5 DEF FindUnexposed
  <2>2. found \cap exposed = {} /\ gone.found = {} /\ kept.found = found
    BY <1>1 DEF unexposed, CallAt, TypeOK, CallState
  <2> HIDE DEF found, gone, kept
  <2>3. /\ c \notin stored /\ call'[c].found \subseteq found
        /\ \A d \in Call \ {c} : call'[d] = call[d]
    BY <1>1, <1>5, <2>1, <2>2 DEF FindUnexposed, StoredByCall, TypeOK
  <2>4. ASSUME NEW f \in File \ raced', NEW d \in Call \ {c}, f \in found, Holds(d, f)
        PROVE  FALSE
    <3>1. CASE f \in call[d].found
      BY <2>1, <2>2, <2>4, <3>1
    <3>2. CASE d \in stored /\ f \in task[d].files
      <4>1. job[d].uploaded /\ ~ReportPending(d)
        BY <2>1, <2>2, <2>4, <3>2
      <4>2. task[d].type = "DATA_UPLOAD"
        BY <1>1, <3>2 DEF FilesInv
      <4> QED  BY <1>1, <2>2, <2>4, <3>2, <4>1, <4>2 DEF UploadIsRecorded
    <3> QED  BY <2>4, <3>1, <3>2 DEF Holds
  <2>5. /\ \A f \in File : Holds(c, f)' => f \in found
        /\ \A d \in Call \ {c} : \A f \in File : Holds(d, f)' => Holds(d, f)
    BY <2>1, <2>3 DEF Holds
  <2>6. OneHolder'
    <3> SUFFICES ASSUME NEW f \in File \ raced', NEW d \in Call, NEW e \in Call,
                        Holds(d, f)', Holds(e, f)', d # e
                 PROVE  FALSE
      BY DEF OneHolder
    <3>1. CASE d = c
      BY <2>4, <2>5, <3>1
    <3>2. CASE e = c
      BY <2>4, <2>5, <3>2
    <3>3. CASE d # c /\ e # c
      BY <1>1, <2>1, <2>5, <3>3 DEF OneHolder
    <3> QED  BY <3>1, <3>2, <3>3
  <2> QED  BY <1>1, <2>6 DEF UploadInv
<1>6. ASSUME NEW c \in Call, NEW suitable \in BOOLEAN, CheckSuitable(c, suitable)
      PROVE  UploadInv'
  <2>1. [call[c] EXCEPT !.pc = "suitable"].found = call[c].found
    BY <1>1 DEF TypeOK, CallState
  <2>2. CallAt("done").found = {}
    BY DEF CallAt
  <2> QED  BY <1>1, <1>3, <1>6, <2>1, <2>2 DEF CheckSuitable, TypeOK
<1>7. ASSUME NEW c \in Call, StoreTask(c) PROVE UploadInv'
  <2>1. call[c] \in CallState
    BY <1>1 DEF TypeOK
  <2>2. /\ call' = [call EXCEPT ![c] = [call[c] EXCEPT !.pc = "stored"]]
        /\ task' = [task EXCEPT ![c] =
             NewTask(call[c].type, call[c].name, taskFiles(call[c].found))]
        /\ stored' = stored \cup {c} /\ UNCHANGED raced
    BY <1>1, <1>7 DEF StoreTask, TypeOK
  <2>3. /\ call'[c].found = call[c].found /\ task'[c].files \subseteq call[c].found
        /\ \A d \in Call \ {c} : call'[d] = call[d] /\ task'[d] = task[d]
    BY <1>1, <2>1, <2>2 DEF TypeOK, CallState, NewTask, taskFiles
  <2> QED  BY <1>2, <2>2, <2>3 DEF Holds
<1>8. ASSUME NEW c \in Call, NEW wellFormed \in BOOLEAN, ScheduleTask(c, wellFormed)
      PROVE  UploadInv'
  <2>1. call'[c].found = {} /\ \A d \in Call \ {c} : call'[d] = call[d]
    BY <1>1, <1>8 DEF ScheduleTask, TypeOK, CallAt
  <2> QED  BY <1>3, <1>8, <2>1 DEF ScheduleTask
<1>9. ASSUME NEW k \in ModeCall, NEW taskIds \in (SUBSET Call) \ {{}},
             NEW type \in TaskMode, SendTaskMode(k, taskIds, type)
      PROVE  UploadInv'
  BY <1>3, <1>9 DEF SendTaskMode
<1>10. ASSUME NEW m, Deliver(m) \/ AcceptTask(m) \/ ChangeMode(m) PROVE UploadInv'
  BY <1>3, <1>10 DEF Deliver, AcceptTask, ChangeMode
<1>11. ASSUME NEW t, NEW newStatus, NEW withMode,
              StartRun(t, withMode) \/ EndRun(t, newStatus, withMode)
       PROVE  UploadInv'
  BY <1>3, <1>11 DEF StartRun, EndRun
<1>12. CASE UpdateStatus \/ ChangeTasksModes
  <2>1. task \in [Call -> Task]
    BY <1>1 DEF TypeOK
  <2>2. \A t \in Call : task'[t].files = task[t].files
    <3>1. CASE UpdateStatus
      BY <2>1, <3>1 DEF UpdateStatus, setFailedTaskInfo, updateTaskStatus, Task
    <3>2. CASE ChangeTasksModes
      BY <2>1, <3>2 DEF ChangeTasksModes, Task
    <3> QED  BY <1>12, <3>1, <3>2
  <2> QED  BY <1>3, <1>12, <2>2 DEF UpdateStatus, ChangeTasksModes
<1>13. ASSUME NEW f, ExposeFile(f) PROVE UploadInv'
  BY <1>3, <1>13 DEF ExposeFile
<1>14. CASE \/ ReadTaskFiles \/ AckStatus \/ FailStatus \/ AckMode \/ FailMode
            \/ UNCHANGED vars
  BY <1>3, <1>14 DEF ReadTaskFiles, AckStatus, FailStatus, AckMode, FailMode, vars
<1>15. CASE Crash
  <2>1. \A c \in Call : call'[c] = call[c] \/ call'[c].found = {}
    BY <1>15 DEF Crash, CallAt
  <2> QED  BY <1>3, <1>15, <2>1 DEF Crash
<1> QED
  BY <1>4, <1>5, <1>6, <1>7, <1>8, <1>9, <1>10, <1>11, <1>12, <1>13, <1>14, <1>15 DEF Next

\* No call holds a file at first, and nothing is done.
LEMMA UploadInit == Init => UploadInv
<1> SUFFICES ASSUME Init PROVE UploadInv  OBVIOUS
<1>1. /\ stored = {} /\ exposed = {} /\ statusQueue = <<>> /\ status.phase = "idle"
      /\ outbox = {} /\ service = {}
      /\ \A c \in Call : /\ call[c].pc = "idle" /\ call[c].found = {}
                         /\ task[c].files = {} /\ job[c].files = {}
  BY DEF Init, CallAt, NewTask, NewJob
<1>2. FilesInv
  BY <1>1 DEF FilesInv
<1>3. MarksInv
  BY <1>1 DEF MarksInv, DoneIsUploaded, MarkingOwnFiles, MarkedOrReported, ExposedByUpload
<1>4. OneHolder
  BY <1>1 DEF OneHolder, Holds
<1> QED  BY <1>2, <1>3, <1>4, StoredInit DEF UploadInv

(* When no report on a finished upload is outstanding, all its files are    *)
(* marked as exposed to CKAN: a restart or an error half-way leaves the     *)
(* report in the queue.                                                     *)
THEOREM Recorded == Spec => []UploadIsRecorded
<1>1. UploadInv => UploadIsRecorded
  BY MarksRecord DEF UploadInv
<1> QED  BY <1>1, UploadInit, UploadStep, PTL DEF Spec

(* A file is marked as exposed only after a task that names it is done.     *)
THEOREM Exposed == Spec => []ExposedByUpload
<1>1. UploadInv => ExposedByUpload
  BY DEF UploadInv, MarksInv
<1> QED  BY <1>1, UploadInit, UploadStep, PTL DEF Spec

(* No two tasks take one file to CKAN, whatever is lost or delivered again, *)
(* unless one was created before the other had finished and its last report *)
(* was applied.                                                             *)
THEOREM UploadedOnce == Spec => []FileUploadedOnce
<1>1. UploadInv => FileUploadedOnce
  <2> SUFFICES ASSUME UploadInv, NEW f \in File \ raced
               PROVE  Cardinality(Uploaders(f)) <= 1
    BY DEF FileUploadedOnce
  <2>1. ASSUME NEW t \in Uploaders(f) PROVE t \in Call /\ Holds(t, f)
    <3>1. t \in Call /\ job[t].uploaded /\ f \in job[t].files
      BY <2>1 DEF Uploaders
    <3>2. t \in stored
      BY <3>1 DEF UploadInv, StoredInv, OnlyStoredKnown, NewJob
    <3> QED  BY <3>1, <3>2 DEF UploadInv, FilesInv, Holds
  <2>2. CASE Uploaders(f) = {}
    BY <2>2, FS_EmptySet
  <2>3. ASSUME NEW t \in Uploaders(f) PROVE Cardinality(Uploaders(f)) <= 1
    <3>1. Uploaders(f) = {t}
      BY <2>1, <2>3 DEF UploadInv, OneHolder
    <3> QED  BY <3>1, FS_Singleton
  <2> QED  BY <2>2, <2>3
<1> QED  BY <1>1, UploadInit, UploadStep, PTL DEF Spec

----------------------------------------------------------------------------
(* Modes.                                                                  *)

\* The last notice of a task brings the mode the data-service acts on.
LastNoticeIsMode ==
  \A i \in DOMAIN modeQueue : \A t \in modeQueue[i].tasks \ crossed :
    (\A j \in DOMAIN modeQueue : t \in modeQueue[j].tasks => j <= i)
      => modeQueue[i].type = job[t].mode

\* The handler has written the mode of the first notice.
ModeWritten ==
  mode = "applied" =>
    \A t \in Head(modeQueue).tasks \ crossed : task[t].mode = Head(modeQueue).type

NoticeAlone == \A t \in Call \ crossed : ~(ModeReportQueued(t) /\ ModeNoticeQueued(t))

\* Without a notice, the mode stored, the one acted on and those reported agree.
UnnoticedAgrees ==
  \A t \in stored \ crossed : ~ModeNoticeQueued(t) =>
    /\ task[t].mode = job[t].mode
    /\ \A i \in DOMAIN statusQueue :
         statusQueue[i].task = t => statusQueue[i].mode \in {job[t].mode, "absent"}

ModeInv == StoredInv /\ LastNoticeIsMode /\ ModeWritten /\ NoticeAlone /\ UnnoticedAgrees

\* Every notice is about stored tasks.
LEMMA NoticesOnStored ==
  ASSUME StoredInv
  PROVE  /\ \A i \in DOMAIN modeQueue :
              modeQueue[i] \in ModeMsg /\ modeQueue[i].tasks \subseteq stored
         /\ modeQueue # <<>> => 1 \in DOMAIN modeQueue /\ Head(modeQueue) = modeQueue[1]
         /\ mode = "applied" => modeQueue # <<>>
<1>1. modeQueue \in Seq(ModeMsg) /\ (mode = "applied" => modeQueue # <<>>)
  BY DEF StoredInv, TypeOK
<1>2. \A i \in DOMAIN modeQueue : modeQueue[i] \in ModeMsg
  BY <1>1
<1>3. \A i \in DOMAIN modeQueue : modeQueue[i].tasks \subseteq stored
  BY DEF StoredInv, OnlyStoredKnown
<1>4. modeQueue # <<>> => 1 \in DOMAIN modeQueue /\ Head(modeQueue) = modeQueue[1]
  BY <1>1, AckQueue
<1> QED  BY <1>1, <1>2, <1>3, <1>4

\* Every action keeps modes, reports and notices together.
LEMMA ModeStep == ModeInv /\ [Next]_vars => ModeInv'
<1> SUFFICES ASSUME ModeInv, [Next]_vars PROVE ModeInv'  OBVIOUS
<1>1. /\ StoredInv /\ StoredInv' /\ TypeOK /\ StoredByCall /\ OnlyStoredKnown
      /\ stored \subseteq Call /\ LastNoticeIsMode /\ ModeWritten /\ NoticeAlone
      /\ UnnoticedAgrees
  BY StoredStep DEF ModeInv, StoredInv, TypeOK
<1>2. ASSUME UNCHANGED <<modeQueue, crossed>>,
             mode' = mode \/ mode' # "applied",
             stored \subseteq stored',
             \A i \in DOMAIN statusQueue' :
               \E j \in DOMAIN statusQueue : statusQueue'[i] = statusQueue[j],
             \A t \in stored : job'[t].mode = job[t].mode,
             \A t \in stored \ crossed : task'[t].mode = task[t].mode,
             \A t \in stored' \ stored : task'[t].mode = job'[t].mode
      PROVE  ModeInv'
  <2>1. \A t \in Call : /\ ModeReportQueued(t)' => ModeReportQueued(t)
                        /\ ModeNoticeQueued(t)' <=> ModeNoticeQueued(t)
    BY <1>2 DEF ModeReportQueued, ModeNoticeQueued
  <2>2. \A i \in DOMAIN modeQueue : modeQueue[i].tasks \subseteq stored
    BY <1>1, NoticesOnStored
  <2>3. LastNoticeIsMode'
    BY <1>1, <1>2, <2>2 DEF LastNoticeIsMode
  <2>4. ModeWritten'
    <3> SUFFICES ASSUME mode' = "applied", NEW t \in Head(modeQueue).tasks \ crossed
                 PROVE  task'[t].mode = Head(modeQueue).type
      BY <1>2 DEF ModeWritten
    <3>1. mode = "applied"
      BY <1>2
    <3>2. t \in stored
      BY <1>1, <2>2, <3>1, NoticesOnStored
    <3> QED  BY <1>1, <1>2, <3>1, <3>2 DEF ModeWritten
  <2>5. NoticeAlone'
    BY <1>1, <1>2, <2>1 DEF NoticeAlone
  <2>6. UnnoticedAgrees'
    <3> SUFFICES ASSUME NEW t \in stored', t \notin crossed, ~ModeNoticeQueued(t)'
                 PROVE  /\ task'[t].mode = job'[t].mode
                        /\ \A i \in DOMAIN statusQueue' : statusQueue'[i].task = t =>
                             statusQueue'[i].mode \in {job'[t].mode, "absent"}
      BY <1>2 DEF UnnoticedAgrees
    <3>1. CASE t \in stored
      <4>1. t \in Call /\ ~ModeNoticeQueued(t)
        BY <1>1, <2>1, <3>1
      <4> QED  BY <1>1, <1>2, <3>1, <4>1 DEF UnnoticedAgrees
    <3>2. CASE t \notin stored
      <4>1. \A i \in DOMAIN statusQueue : statusQueue[i].task # t
        BY <1>1, <3>2, ReportsOnStored
      <4> QED  BY <1>2, <3>2, <4>1
    <3> QED  BY <3>1, <3>2
  <2> QED  BY <1>1, <2>3, <2>4, <2>5, <2>6 DEF ModeInv
<1>3. ASSUME UNCHANGED <<modeQueue, crossed, mode, stored, statusQueue, task>>,
             \A t \in Call : job'[t].mode = job[t].mode
      PROVE  ModeInv'
  BY <1>1, <1>2, <1>3
<1>4. ASSUME NEW c \in Call, NEW type \in TaskType, NEW name \in Name,
             NEW fileIds \in SUBSET File, CheckName(c, type, name, fileIds)
      PROVE  ModeInv'
  BY <1>3, <1>4 DEF CheckName
<1>5. ASSUME NEW c \in Call, NEW b \in BOOLEAN,
             FindUnexposed(c) \/ CheckSuitable(c, b) \/ ScheduleTask(c, b)
      PROVE  ModeInv'
  BY <1>3, <1>5 DEF FindUnexposed, CheckSuitable, ScheduleTask
<1>6. ASSUME NEW c \in Call, StoreTask(c) PROVE ModeInv'
  <2>1. /\ stored' = stored \cup {c} /\ \A t \in Call \ {c} : task'[t] = task[t]
        /\ task'[c].mode = "ENABLED"
        /\ UNCHANGED <<job, statusQueue, modeQueue, mode, crossed>>
    BY <1>1, <1>6 DEF StoreTask, TypeOK, NewTask
  <2>2. c \notin stored /\ job[c].mode = "ENABLED"
    BY <1>1, <1>6 DEF StoreTask, StoredByCall, OnlyStoredKnown, NewJob
  <2> QED  BY <1>1, <1>2, <2>1, <2>2
<1>7. ASSUME NEW k \in ModeCall, NEW taskIds \in (SUBSET Call) \ {{}},
             NEW type \in TaskMode, SendTaskMode(k, taskIds, type)
      PROVE  ModeInv'
  BY <1>3, <1>7 DEF SendTaskMode
<1>8. ASSUME NEW m, Deliver(m) PROVE ModeInv'
  BY <1>3, <1>8 DEF Deliver
<1>9. ASSUME NEW m \in service, AcceptTask(m) PROVE ModeInv'
  <2>1. \A t \in Call : job'[t].mode = job[t].mode
    BY <1>1, <1>9 DEF AcceptTask, TypeOK, Job
  <2> QED  BY <1>3, <1>9, <2>1 DEF AcceptTask
<1>10. ASSUME NEW t \in Call, NEW newStatus \in {"DONE", "FAILED"}, NEW withMode \in BOOLEAN,
              StartRun(t, withMode) \/ EndRun(t, newStatus, withMode)
       PROVE  ModeInv'
  <2> DEFINE n == Len(statusQueue) + 1
  <2>1. /\ \A u \in Call : job'[u].mode = job[u].mode
        /\ UNCHANGED <<stored, task, modeQueue, mode>>
        /\ \E s : Report(t, s, withMode)
    <3>1. job \in [Call -> Job]
      BY <1>1 DEF TypeOK
    <3>2. CASE StartRun(t, withMode)
      BY <3>1, <3>2 DEF StartRun, Job
    <3>3. CASE EndRun(t, newStatus, withMode)
      BY <3>1, <3>3 DEF EndRun, Job
    <3> QED  BY <1>10, <3>2, <3>3
  <2>2. PICK s : Report(t, s, withMode)
    BY <2>1
  <2>3. /\ DOMAIN statusQueue' = DOMAIN statusQueue \cup {n}
        /\ \A i \in DOMAIN statusQueue : statusQueue'[i] = statusQueue[i]
        /\ statusQueue'[n].task = t
        /\ statusQueue'[n].mode \in {job[t].mode, "absent"}
        /\ statusQueue'[n].mode # "absent" => withMode
    BY <1>1, <2>2, ReportQueued
  <2>4. crossed' = IF withMode /\ ModeNoticeQueued(t) THEN crossed \cup {t} ELSE crossed
    BY <2>2 DEF Report
  <2> HIDE DEF n
  <2>5. \A u \in Call : ModeNoticeQueued(u)' <=> ModeNoticeQueued(u)
    BY <2>1 DEF ModeNoticeQueued
  <2>6. \A i \in DOMAIN modeQueue : modeQueue[i].tasks \subseteq Call
    BY <1>1, NoticesOnStored
  <2>7. LastNoticeIsMode'
    BY <1>1, <2>1, <2>4, <2>6 DEF LastNoticeIsMode
  <2>8. ModeWritten'
    BY <1>1, <2>1, <2>4 DEF ModeWritten
  <2>9. NoticeAlone'
    <3> SUFFICES ASSUME NEW u \in Call, u \notin crossed', ModeReportQueued(u)',
                        ModeNoticeQueued(u)
                 PROVE  FALSE
      BY <2>5 DEF NoticeAlone
    <3>1. u \notin crossed /\ ~ModeReportQueued(u)
      BY <1>1, <2>4 DEF NoticeAlone
    <3>2. u = t /\ withMode
      BY <2>3, <3>1 DEF ModeReportQueued
    <3> QED  BY <2>4, <3>2
  <2>10. UnnoticedAgrees'
    BY <1>1, <2>1, <2>3, <2>4, <2>5 DEF UnnoticedAgrees
  <2> QED  BY <1>1, <2>7, <2>8, <2>9, <2>10 DEF ModeInv
<1>11. ASSUME NEW m \in service, ChangeMode(m) PROVE ModeInv'
  <2> DEFINE n == Len(modeQueue) + 1
  <2>1. /\ n \in Nat /\ DOMAIN modeQueue' = DOMAIN modeQueue \cup {n}
        /\ \A i \in DOMAIN modeQueue :
             i \in Nat /\ i < n /\ modeQueue'[i] = modeQueue[i]
        /\ modeQueue'[n] = m
    BY <1>1, <1>11, NoticeQueued
  <2> HIDE DEF n
  <2>2. /\ UNCHANGED <<stored, task, statusQueue, mode>>
        /\ crossed' = crossed \cup {t \in m.tasks : ModeReportQueued(t)}
        /\ m.tasks \subseteq stored
    BY <1>1, <1>11 DEF ChangeMode, OnlyStoredKnown
  <2>3. \A t \in Call : job'[t].mode = IF t \in m.tasks THEN m.type ELSE job[t].mode
    BY <1>1, <1>11 DEF ChangeMode, TypeOK, Job
  <2>4. \A t : ModeNoticeQueued(t)' <=> ModeNoticeQueued(t) \/ t \in m.tasks
    BY <2>1 DEF ModeNoticeQueued
  <2>5. \A t : ModeReportQueued(t)' <=> ModeReportQueued(t)
    BY <2>2 DEF ModeReportQueued
  <2>6. LastNoticeIsMode'
    <3> SUFFICES ASSUME NEW i \in DOMAIN modeQueue', NEW t \in modeQueue'[i].tasks \ crossed',
                        \A j \in DOMAIN modeQueue' : t \in modeQueue'[j].tasks => j <= i
                 PROVE  modeQueue'[i].type = job'[t].mode
      BY DEF LastNoticeIsMode
    <3>1. CASE i = n
      BY <1>1, <2>1, <2>2, <2>3, <3>1
    <3>2. CASE i \in DOMAIN modeQueue
      <4>1. t \notin m.tasks
        BY <2>1, <3>2
      <4>2. /\ t \in modeQueue[i].tasks \ crossed /\ t \in Call
            /\ \A j \in DOMAIN modeQueue : t \in modeQueue[j].tasks => j <= i
        BY <1>1, <2>1, <2>2, <3>2, NoticesOnStored
      <4> QED  BY <1>1, <2>1, <2>3, <3>2, <4>1, <4>2 DEF LastNoticeIsMode
    <3> QED  BY <2>1, <3>1, <3>2
  <2>7. ModeWritten'
    <3> SUFFICES ASSUME mode = "applied", NEW t \in Head(modeQueue').tasks \ crossed
                 PROVE  task[t].mode = Head(modeQueue').type
      BY <2>2 DEF ModeWritten
    <3>1. 1 \in DOMAIN modeQueue /\ Head(modeQueue) = modeQueue[1]
      BY <1>1, NoticesOnStored
    <3>2. Head(modeQueue') = modeQueue'[1]
      BY <1>1, <2>2, NoticesOnStored
    <3> QED  BY <1>1, <2>1, <3>1, <3>2 DEF ModeWritten
  <2>8. NoticeAlone'
    BY <1>1, <2>2, <2>4, <2>5 DEF NoticeAlone
  <2>9. UnnoticedAgrees'
    BY <1>1, <2>2, <2>3, <2>4 DEF UnnoticedAgrees
  <2> QED  BY <1>1, <2>6, <2>7, <2>8, <2>9 DEF ModeInv
<1>12. CASE UpdateStatus
  <2> DEFINE m == Head(statusQueue)
  <2>1. statusQueue \in Seq(StatusMsg) /\ statusQueue # <<>>
    BY <1>1, <1>12 DEF UpdateStatus, TypeOK
  <2>2. 1 \in DOMAIN statusQueue /\ m = statusQueue[1] /\ m.task \in stored
    BY <1>1, <2>1, AckQueue, ReportsOnStored
  <2>3. /\ UNCHANGED <<stored, statusQueue, job, modeQueue, mode, crossed>>
        /\ task' = [task EXCEPT ![m.task] = IF m.status = "FAILED"
                                            THEN setFailedTaskInfo(task[m.task], m)
                                            ELSE updateTaskStatus(task[m.task], m)]
    BY <1>12, <2>2 DEF UpdateStatus
  <2> HIDE DEF m
  <2>4. task[m.task] \in Task /\ task \in [Call -> Task]
    BY <1>1, <2>2 DEF TypeOK
  <2>5. /\ task'[m.task].mode \in {task[m.task].mode, m.mode}
        /\ m.mode = "absent" => task'[m.task].mode = task[m.task].mode
        /\ \A t \in Call \ {m.task} : task'[t] = task[t]
    BY <1>1, <2>2, <2>3, <2>4 DEF setFailedTaskInfo, updateTaskStatus, Task
  <2>6. m.task \notin crossed /\ m.mode # "absent" => m.mode = task[m.task].mode
    <3> SUFFICES ASSUME m.task \notin crossed, m.mode # "absent"
                 PROVE  m.mode = task[m.task].mode
      OBVIOUS
    <3>1. ModeReportQueued(m.task)
      BY <2>2 DEF ModeReportQueued
    <3>2. ~ModeNoticeQueued(m.task)
      BY <1>1, <2>2, <3>1 DEF NoticeAlone
    <3> QED  BY <1>1, <2>2, <3>2 DEF UnnoticedAgrees
  <2>7. \A t \in stored \ crossed : task'[t].mode = task[t].mode
    BY <1>1, <2>5, <2>6
  <2> QED  BY <1>2, <2>3, <2>7
<1>13. CASE ReadTaskFiles \/ FailStatus \/ UNCHANGED vars
  BY <1>3, <1>13 DEF ReadTaskFiles, FailStatus, vars
<1>14. ASSUME NEW f \in File, ExposeFile(f) PROVE ModeInv'
  BY <1>3, <1>14 DEF ExposeFile
<1>15. CASE AckStatus
  <2>1. /\ statusQueue \in Seq(StatusMsg) /\ statusQueue # <<>>
        /\ statusQueue' = Tail(statusQueue)
    BY <1>1, <1>15, AckLeaves
  <2>2. \A i \in DOMAIN statusQueue' :
          i + 1 \in DOMAIN statusQueue /\ statusQueue'[i] = statusQueue[i + 1]
    BY <2>1, AckQueue
  <2>3. UNCHANGED <<stored, task, job, modeQueue, mode, crossed>>
    BY <1>15 DEF AckStatus
  <2> QED  BY <1>2, <2>2, <2>3
<1>16. CASE ChangeTasksModes
  <2> DEFINE m == Head(modeQueue)
  <2>1. m = modeQueue[1] /\ 1 \in DOMAIN modeQueue /\ m.tasks \subseteq stored
    BY <1>1, <1>16, NoticesOnStored DEF ChangeTasksModes
  <2>2. /\ UNCHANGED <<stored, job, statusQueue, modeQueue, crossed>>
        /\ task' = [t \in Call |-> IF t \in m.tasks \cap stored
                                   THEN [task[t] EXCEPT !.mode = m.type] ELSE task[t]]
    BY <1>16 DEF ChangeTasksModes
  <2> HIDE DEF m
  <2>3. \A t \in Call : task'[t].mode = IF t \in m.tasks THEN m.type ELSE task[t].mode
    BY <1>1, <2>1, <2>2 DEF TypeOK, Task
  <2>4. LastNoticeIsMode'
    BY <1>1, <2>2 DEF LastNoticeIsMode
  <2>5. ModeWritten'
    BY <1>1, <2>1, <2>2, <2>3 DEF ModeWritten, m
  <2>6. \A t : ModeNoticeQueued(t)' = ModeNoticeQueued(t)
               /\ ModeReportQueued(t)' = ModeReportQueued(t)
    BY <2>2 DEF ModeNoticeQueued, ModeReportQueued
  <2>7. NoticeAlone'
    BY <1>1, <2>2, <2>6 DEF NoticeAlone
  <2>8. UnnoticedAgrees'
    <3>1. \A t \in m.tasks : ModeNoticeQueued(t)
      BY <2>1 DEF ModeNoticeQueued
    <3> QED  BY <1>1, <2>2, <2>3, <2>6, <3>1 DEF UnnoticedAgrees
  <2> QED  BY <1>1, <2>4, <2>5, <2>7, <2>8 DEF ModeInv
<1>17. CASE AckMode
  <2> DEFINE m == Head(modeQueue)
  <2>1. /\ modeQueue \in Seq(ModeMsg) /\ modeQueue # <<>> /\ modeQueue' = Tail(modeQueue)
        /\ UNCHANGED <<stored, task, job, statusQueue, crossed>>
        /\ mode = "applied" /\ mode' = "idle"
    BY <1>1, <1>17, AckLeaves DEF AckMode
  <2>2. /\ m = modeQueue[1] /\ 1 \in DOMAIN modeQueue
        /\ \A i \in DOMAIN modeQueue : i \in Nat /\ i >= 1
        /\ \A i \in DOMAIN modeQueue' : /\ i \in Nat /\ i >= 1
             /\ i + 1 \in DOMAIN modeQueue /\ modeQueue'[i] = modeQueue[i + 1]
        /\ \A i \in DOMAIN modeQueue : i # 1 =>
             i - 1 \in DOMAIN modeQueue' /\ modeQueue'[i - 1] = modeQueue[i]
    BY <2>1, AckQueue
  <2>3. \A t \in m.tasks \ crossed : task[t].mode = m.type
    BY <1>1, <2>1 DEF ModeWritten
  <2> HIDE DEF m
  <2>4. ASSUME NEW i \in DOMAIN modeQueue', NEW t \in modeQueue'[i].tasks \ crossed,
               \A j \in DOMAIN modeQueue' : t \in modeQueue'[j].tasks => j <= i
        PROVE  modeQueue'[i].type = job[t].mode
    <3>1. ASSUME NEW j \in DOMAIN modeQueue, t \in modeQueue[j].tasks PROVE j <= i + 1
      <4>1. CASE j = 1
        BY <2>2, <4>1
      <4>2. CASE j # 1
        <5>1. j - 1 <= i
          BY <2>2, <2>4, <3>1, <4>2
        <5> QED  BY <2>2, <5>1
      <4> QED  BY <4>1, <4>2
    <3> QED  BY <1>1, <2>2, <3>1 DEF LastNoticeIsMode
  <2>5. LastNoticeIsMode'
    BY <2>1, <2>4 DEF LastNoticeIsMode
  <2>6. ModeWritten'
    BY <2>1 DEF ModeWritten
  <2>7. \A t : ModeReportQueued(t)' = ModeReportQueued(t)
    BY <2>1 DEF ModeReportQueued
  <2>8. \A t : ModeNoticeQueued(t)' => ModeNoticeQueued(t)
    BY <2>2 DEF ModeNoticeQueued
  <2>9. NoticeAlone'
    BY <1>1, <2>1, <2>7, <2>8 DEF NoticeAlone
  <2>10. UnnoticedAgrees'
    <3> SUFFICES ASSUME NEW t \in stored \ crossed, ~ModeNoticeQueued(t)'
                 PROVE  /\ task[t].mode = job[t].mode
                        /\ \A i \in DOMAIN statusQueue : statusQueue[i].task = t =>
                             statusQueue[i].mode \in {job[t].mode, "absent"}
      BY <2>1 DEF UnnoticedAgrees
    <3>1. \A j \in DOMAIN modeQueue : t \in modeQueue[j].tasks => j = 1
      BY <2>2 DEF ModeNoticeQueued
    <3>2. CASE t \in m.tasks
      <4>1. \A j \in DOMAIN modeQueue : t \in modeQueue[j].tasks => j <= 1
        BY <3>1
      <4>2. m.type = job[t].mode
        BY <1>1, <2>2, <3>2, <4>1 DEF LastNoticeIsMode
      <4>3. ~ModeReportQueued(t)
        BY <1>1, <2>2, <3>2 DEF NoticeAlone, ModeNoticeQueued
      <4> QED  BY <2>3, <3>2, <4>2, <4>3 DEF ModeReportQueued
    <3>3. CASE t \notin m.tasks
      <4>1. ~ModeNoticeQueued(t)
        BY <2>2, <3>1, <3>3 DEF ModeNoticeQueued
      <4> QED  BY <1>1, <4>1 DEF UnnoticedAgrees
    <3> QED  BY <3>2, <3>3
  <2> QED  BY <1>1, <2>5, <2>6, <2>9, <2>10 DEF ModeInv
<1>18. CASE FailMode \/ Crash
  <2>1. /\ UNCHANGED <<stored, task, job, statusQueue, modeQueue, crossed>>
        /\ mode' # "applied"
    BY <1>18 DEF FailMode, Crash
  <2> QED  BY <1>2, <2>1
<1> QED
  BY <1>4, <1>5, <1>6, <1>7, <1>8, <1>9, <1>10, <1>11, <1>12, <1>13, <1>14, <1>15,
     <1>16, <1>17, <1>18 DEF Next

(* When nothing about the mode of a task is queued, the stored mode is the  *)
(* one the data-service acts on, unless a report with a mode and a notice   *)
(* of a changed one have been in the two queues at once.                    *)
THEOREM Modes == Spec => []SettledModeAgrees
<1>1. Init => ModeInv
  <2> SUFFICES ASSUME Init PROVE ModeInv  OBVIOUS
  <2>1. stored = {} /\ modeQueue = <<>> /\ mode = "idle"
    BY DEF Init
  <2> QED
    BY <2>1, StoredInit
    DEF ModeInv, LastNoticeIsMode, ModeWritten, NoticeAlone, UnnoticedAgrees, ModeNoticeQueued
<1>2. ModeInv => SettledModeAgrees
  BY DEF ModeInv, UnnoticedAgrees, SettledModeAgrees
<1> QED  BY <1>1, <1>2, ModeStep, PTL DEF Spec

----------------------------------------------------------------------------
(* Names.                                                                  *)

\* A name that is not contested is new while a task with it is on its way, and only
\* one task is on its way with it.
UncontestedIsNew ==
  \A c \in Call, n \in Name \ contested :
    OnItsWay(c, n) =>
      /\ \A t \in stored : task[t].name # n
      /\ \A d \in Call : OnItsWay(d, n) => d = c

NamesInv == StoredInv /\ UncontestedIsNew /\ NamesDiffer

\* Where no creation begins and none is finished, nothing changes about names.
LEMMA NamesKept ==
  ASSUME NamesInv, StoredInv', UNCHANGED <<stored, contested>>,
         \A t \in stored : task'[t].name = task[t].name,
         \A c \in Call, n \in Name : OnItsWay(c, n)' => OnItsWay(c, n)
  PROVE  NamesInv'
<1>1. UncontestedIsNew'
  BY DEF NamesInv, UncontestedIsNew
<1>2. NamesDiffer'
  BY DEF NamesInv, NamesDiffer
<1> QED  BY <1>1, <1>2 DEF NamesInv

\* Every action keeps uncontested names apart.
LEMMA NamesStep == NamesInv /\ [Next]_vars => NamesInv'
<1> SUFFICES ASSUME NamesInv, [Next]_vars PROVE NamesInv'  OBVIOUS
<1>1. /\ StoredInv /\ StoredInv' /\ TypeOK /\ StoredByCall
      /\ call \in [Call -> CallState] /\ task \in [Call -> Task]
      /\ stored \subseteq Call /\ contested \subseteq Name
      /\ UncontestedIsNew /\ NamesDiffer
  BY StoredStep DEF NamesInv, StoredInv, TypeOK
<1>2. ASSUME NEW c \in Call, NEW type \in TaskType, NEW name \in Name,
             NEW fileIds \in SUBSET File, CheckName(c, type, name, fileIds)
      PROVE  NamesInv'
  <2>1. /\ UNCHANGED <<stored, task>> /\ contested \subseteq contested'
        /\ name \notin contested' => \A d \in Call : ~OnItsWay(d, name)
        /\ \A d \in Call \ {c} : call'[d] = call[d]
    BY <1>1, <1>2 DEF CheckName
  <2>2. \A d \in Call \ {c}, n \in Name : OnItsWay(d, n)' => OnItsWay(d, n)
    BY <2>1 DEF OnItsWay
  <2>3. \A n \in Name : OnItsWay(c, n)' => n = name /\ \A t \in stored : task[t].name # n
    BY <1>1, <1>2 DEF CheckName, OnItsWay, CallAt, isTaken
  <2>4. UncontestedIsNew'
    <3> SUFFICES ASSUME NEW d \in Call, NEW n \in Name \ contested', OnItsWay(d, n)'
                 PROVE  /\ \A t \in stored : task[t].name # n
                        /\ \A e \in Call : OnItsWay(e, n)' => e = d
      BY <2>1 DEF UncontestedIsNew
    <3>1. CASE n = name
      BY <2>1, <2>2, <2>3, <3>1
    <3>2. CASE n # name
      BY <1>1, <2>1, <2>2, <2>3, <3>2 DEF UncontestedIsNew
    <3> QED  BY <3>1, <3>2
  <2>5. NamesDiffer'
    BY <1>1, <2>1 DEF NamesDiffer
  <2> QED  BY <1>1, <2>4, <2>5 DEF NamesInv
<1>3. ASSUME NEW c \in Call, NEW b \in BOOLEAN,
             FindUnexposed(c) \/ CheckSuitable(c, b) \/ ScheduleTask(c, b)
      PROVE  NamesInv'
  <2>1. UNCHANGED <<stored, task, contested>> /\ \A d \in Call \ {c} : call'[d] = call[d]
    BY <1>1, <1>3 DEF FindUnexposed, CheckSuitable, ScheduleTask
  <2>2. /\ call'[c].pc # "checked"
        /\ call'[c].pc \in {"found", "suitable"} =>
             call[c].pc \in {"checked", "found"} /\ call'[c].name = call[c].name
    <3>1. CASE FindUnexposed(c)
      BY <1>1, <3>1 DEF FindUnexposed, CallState, CallAt
    <3>2. CASE CheckSuitable(c, b)
      BY <1>1, <3>2 DEF CheckSuitable, CallState, CallAt
    <3>3. CASE ScheduleTask(c, b)
      BY <1>1, <3>3 DEF ScheduleTask, CallAt
    <3> QED  BY <1>3, <3>1, <3>2, <3>3
  <2>3. \A d \in Call, n \in Name : OnItsWay(d, n)' => OnItsWay(d, n)
    BY <2>1, <2>2 DEF OnItsWay
  <2> QED  BY <1>1, <2>1, <2>3, NamesKept
<1>4. ASSUME NEW c \in Call, StoreTask(c) PROVE NamesInv'
  <2> DEFINE n == call[c].name
  <2>1. /\ stored' = stored \cup {c} /\ UNCHANGED contested /\ c \notin stored
        /\ task'[c].name = n /\ \A t \in Call \ {c} : task'[t] = task[t]
        /\ call'[c].pc = "stored" /\ \A d \in Call \ {c} : call'[d] = call[d]
        /\ OnItsWay(c, n) /\ n \in Name
    <3>1. call[c].pc = "suitable" /\ call[c] \in CallState
      BY <1>1, <1>4 DEF StoreTask
    <3>2. c \notin stored /\ OnItsWay(c, n) /\ n \in Name
      BY <1>1, <3>1 DEF StoredByCall, OnItsWay, CallState
    <3>3. /\ stored' = stored \cup {c} /\ UNCHANGED contested
          /\ task'[c].name = n /\ \A t \in Call \ {c} : task'[t] = task[t]
      BY <1>1, <1>4 DEF StoreTask, NewTask
    <3>4. call'[c].pc = "stored" /\ \A d \in Call \ {c} : call'[d] = call[d]
      BY <1>1, <1>4, <3>1 DEF StoreTask, CallState
    <3> QED  BY <3>2, <3>3, <3>4
  <2>2. \A d \in Call, m \in Name : OnItsWay(d, m)' => d # c /\ OnItsWay(d, m)
    BY <2>1 DEF OnItsWay
  <2>3. n \notin contested =>
          /\ \A t \in stored : task[t].name # n
          /\ \A d \in Call : OnItsWay(d, n) => d = c
    BY <1>1, <2>1 DEF UncontestedIsNew
  <2> HIDE DEF n
  <2>4. UncontestedIsNew'
    <3> SUFFICES ASSUME NEW d \in Call, NEW m \in Name \ contested, OnItsWay(d, m)'
                 PROVE  /\ \A t \in stored' : task'[t].name # m
                        /\ \A e \in Call : OnItsWay(e, m)' => e = d
      BY <2>1 DEF UncontestedIsNew
    <3>1. d # c /\ OnItsWay(d, m) /\ m # n
      BY <2>2, <2>3
    <3> QED  BY <1>1, <2>1, <2>2, <3>1 DEF UncontestedIsNew
  <2>5. NamesDiffer'
    BY <1>1, <2>1, <2>3 DEF NamesDiffer
  <2> QED  BY <1>1, <2>4, <2>5 DEF NamesInv
<1>5. ASSUME UNCHANGED <<call, stored, contested>>,
             \A t \in Call : task'[t].name = task[t].name
      PROVE  NamesInv'
  BY <1>1, <1>5, NamesKept DEF OnItsWay
<1>6. ASSUME NEW k \in ModeCall, NEW taskIds \in (SUBSET Call) \ {{}},
             NEW type \in TaskMode, SendTaskMode(k, taskIds, type)
      PROVE  NamesInv'
  BY <1>5, <1>6 DEF SendTaskMode
<1>7. ASSUME NEW m, Deliver(m) \/ AcceptTask(m) \/ ChangeMode(m) PROVE NamesInv'
  BY <1>5, <1>7 DEF Deliver, AcceptTask, ChangeMode
<1>8. ASSUME NEW t \in Call, NEW newStatus, NEW withMode \in BOOLEAN,
             StartRun(t, withMode) \/ EndRun(t, newStatus, withMode)
      PROVE  NamesInv'
  BY <1>5, <1>8 DEF StartRun, EndRun
<1>9. CASE UpdateStatus
  <2>1. \A t \in Call : task'[t].name = task[t].name
    BY <1>1, <1>9 DEF UpdateStatus, setFailedTaskInfo, updateTaskStatus, Task
  <2> QED  BY <1>5, <1>9, <2>1 DEF UpdateStatus
<1>10. CASE ChangeTasksModes
  <2>1. \A t \in Call : task'[t].name = task[t].name
    BY <1>1, <1>10 DEF ChangeTasksModes, Task
  <2> QED  BY <1>5, <1>10, <2>1 DEF ChangeTasksModes
<1>11. CASE ReadTaskFiles \/ AckStatus \/ FailStatus \/ AckMode \/ FailMode
  BY <1>5, <1>11 DEF ReadTaskFiles, AckStatus, FailStatus, AckMode, FailMode
<1>12. ASSUME NEW f \in File, ExposeFile(f) PROVE NamesInv'
  BY <1>5, <1>12 DEF ExposeFile
<1>13. CASE Crash
  <2>1. UNCHANGED <<stored, task, contested>>
    BY <1>13 DEF Crash
  <2>2. \A c \in Call : call'[c].pc \in {"idle", "done"}
    BY <1>1, <1>13 DEF Crash, CallAt
  <2>3. \A c \in Call, n \in Name : ~OnItsWay(c, n)'
    BY <2>2 DEF OnItsWay
  <2> QED  BY <1>1, <2>1, <2>3, NamesKept
<1>14. CASE UNCHANGED vars
  BY <1>5, <1>14 DEF vars
<1> QED
  BY <1>2, <1>3, <1>4, <1>6, <1>7, <1>8, <1>9, <1>10, <1>11, <1>12, <1>13, <1>14 DEF Next

(* Two tasks have one name only if it was looked up for one of them while    *)
(* the other was on its way: a name that is stored is never given again.     *)
THEOREM Names == Spec => []NamesDiffer
<1>1. Init => NamesInv
  <2> SUFFICES ASSUME Init PROVE NamesInv  OBVIOUS
  <2>1. StoredInv /\ stored = {} /\ \A c \in Call : call[c].pc = "idle"
    BY StoredInit DEF Init, CallAt
  <2> QED  BY <2>1 DEF NamesInv, UncontestedIsNew, NamesDiffer, OnItsWay
<1>2. NamesInv => NamesDiffer
  BY DEF NamesInv
<1> QED  BY <1>1, <1>2, NamesStep, PTL DEF Spec

----------------------------------------------------------------------------
(* Runs.                                                                   *)

\* A task is announced once, before the data-service has it.
AnnouncedOnce ==
  /\ \A c \in Call : call[c].pc = "stored" =>
       /\ job[c].state = "unknown"
       /\ \A m \in outbox \cup service : m.kind = "scheduled" => m.task # c
  /\ \A m \in outbox \cup service : m.kind = "scheduled" => job[m.task].state = "unknown"
  /\ \A m, n \in outbox \cup service :
       m.kind = "scheduled" /\ n.kind = "scheduled" /\ m.task = n.task => m = n
  /\ \A m \in outbox \cap service : m.kind # "scheduled"

\* The last report on a task was on the beginning of the run it is in, or on an end.
RunIsReported ==
  \A t \in Call : job[t].state = "running" <=> job[t].last = "PROCESSING"

\* What is not stored has nothing to be shown.
UnstoredIsNew ==
  \A t \in Call \ stored : task[t].status = "NOT_STARTED" /\ task[t].files = {}

\* Every action announces at most what was just stored, and takes it from there once.
LEMMA AnnouncedStep ==
  ASSUME StoredInv, AnnouncedOnce, [Next]_vars
  PROVE  AnnouncedOnce'
<1>1. /\ TypeOK /\ StoredByCall /\ OnlyStoredKnown
      /\ call \in [Call -> CallState] /\ job \in [Call -> Job]
      /\ outbox \subseteq ScheduledMsg \cup ModeMsg /\ service \subseteq ScheduledMsg \cup ModeMsg
      /\ \A m \in outbox \cup service : m.kind = "scheduled" => m.task \in Call
  BY DEF StoredInv, TypeOK, ScheduledMsg, ModeMsg
<1>2. ASSUME \A c \in Call : call'[c].pc = "stored" => call[c].pc = "stored",
             \A t \in Call : job'[t].state = "unknown" <=> job[t].state = "unknown",
             \A m \in outbox' : m.kind = "scheduled" => m \in outbox,
             \A m \in service' : m.kind = "scheduled" => m \in service
      PROVE  AnnouncedOnce'
  <2>1. \A m \in outbox' \cup service' : m.kind = "scheduled" => m \in outbox \cup service
    BY <1>2
  <2>2. \A m \in outbox' \cap service' : m.kind = "scheduled" => m \in outbox \cap service
    BY <1>2
  <2> QED  BY <1>1, <1>2, <2>1, <2>2 DEF AnnouncedOnce
<1>3. ASSUME NEW c \in Call, NEW type \in TaskType, NEW name \in Name,
             NEW fileIds \in SUBSET File, CheckName(c, type, name, fileIds)
      PROVE  AnnouncedOnce'
  <2>1. /\ UNCHANGED <<job, outbox, service>> /\ call'[c].pc # "stored"
        /\ \A d \in Call \ {c} : call'[d] = call[d]
    BY <1>1, <1>3 DEF CheckName, CallAt
  <2>2. \A d \in Call : call'[d].pc = "stored" => call[d].pc = "stored"
    BY <2>1
  <2> QED  BY <1>2, <2>1, <2>2
<1>4. ASSUME NEW c \in Call, StoreTask(c) PROVE AnnouncedOnce'
  <2>1. /\ UNCHANGED <<job, outbox, service>> /\ c \notin stored
        /\ \A d \in Call \ {c} : call'[d] = call[d]
    BY <1>1, <1>4 DEF StoreTask, StoredByCall
  <2>2. /\ job[c].state = "unknown"
        /\ \A m \in outbox \cup service : m.kind = "scheduled" => m.task # c
    BY <1>1, <2>1 DEF OnlyStoredKnown, NewJob
  <2> QED  BY <2>1, <2>2 DEF AnnouncedOnce
<1>5. ASSUME NEW c \in Call, NEW wellFormed \in BOOLEAN, ScheduleTask(c, wellFormed)
      PROVE  AnnouncedOnce'
  <2>1. /\ UNCHANGED <<job, service>> /\ call'[c].pc # "stored" /\ call[c].pc = "stored"
        /\ \A d \in Call \ {c} : call'[d] = call[d]
        /\ outbox' = outbox \cup scheduledMessages(c) \/ outbox' = outbox
    BY <1>1, <1>5 DEF ScheduleTask, CallAt
  <2> DEFINE new == [kind |-> "scheduled", task |-> c,
                     files |-> mapDataUploadTask(task[c].files)]
  <2>2. scheduledMessages(c) = {new} /\ new.kind = "scheduled" /\ new.task = c
    BY DEF scheduledMessages
  <2> HIDE DEF new
  <2>3. /\ job[c].state = "unknown"
        /\ \A m \in outbox \cup service : m.kind = "scheduled" => m.task # c
    BY <2>1 DEF AnnouncedOnce
  <2>4. \A d \in Call : call'[d].pc = "stored" => d # c /\ call[d].pc = "stored"
    BY <2>1
  <2>5. \A m \in outbox' \cup service : m \in outbox \cup service \/ m = new
    BY <2>1, <2>2
  <2>6. \A m \in outbox' \cap service : m \in outbox \cap service \/ m = new
    BY <2>1, <2>2
  <2>7. new \notin service
    BY <2>2, <2>3
  <2> QED  BY <2>1, <2>2, <2>3, <2>4, <2>5, <2>6, <2>7 DEF AnnouncedOnce
<1>6. ASSUME NEW k \in ModeCall, NEW taskIds \in (SUBSET Call) \ {{}},
             NEW type \in TaskMode, SendTaskMode(k, taskIds, type)
      PROVE  AnnouncedOnce'
  <2>1. /\ UNCHANGED <<job, call, service>>
        /\ \A m \in outbox' : m \in outbox \/ m.kind = "mode"
    BY <1>6 DEF SendTaskMode
  <2> QED  BY <1>2, <2>1
<1>7. ASSUME NEW m, Deliver(m) PROVE AnnouncedOnce'
  <2>1. /\ UNCHANGED <<job, call>> /\ m \in outbox
        /\ outbox' = outbox \ {m} /\ service' = service \cup {m}
    BY <1>7 DEF Deliver
  <2>2. outbox' \cup service' = outbox \cup service
    BY <2>1
  <2>3. outbox' \cap service' \subseteq outbox \cap service
    BY <2>1
  <2> QED  BY <2>1, <2>2, <2>3 DEF AnnouncedOnce
<1>8. ASSUME NEW m \in service, AcceptTask(m) PROVE AnnouncedOnce'
  <2>1. /\ UNCHANGED <<call, outbox>> /\ service' = service \ {m} /\ m.kind = "scheduled"
        /\ \A t \in Call \ {m.task} : job'[t] = job[t]
    BY <1>1, <1>8 DEF AcceptTask
  <2>2. \A n \in outbox \cup service' : n \in outbox \cup service /\ n # m
    BY <2>1 DEF AnnouncedOnce
  <2>3. \A n \in outbox \cup service' : n.kind = "scheduled" => n.task # m.task
    BY <2>1, <2>2 DEF AnnouncedOnce
  <2>4. \A c \in Call : call[c].pc = "stored" => c # m.task
    BY <2>1 DEF AnnouncedOnce
  <2> QED  BY <1>1, <2>1, <2>2, <2>3, <2>4 DEF AnnouncedOnce
<1>9. ASSUME NEW t \in Call, NEW newStatus, NEW withMode \in BOOLEAN,
             StartRun(t, withMode) \/ EndRun(t, newStatus, withMode)
      PROVE  AnnouncedOnce'
  <2>1. UNCHANGED <<call, outbox, service>>
    BY <1>9 DEF StartRun, EndRun
  <2>2. \A u \in Call : job'[u].state = "unknown" <=> job[u].state = "unknown"
    <3>1. CASE StartRun(t, withMode)
      BY <1>1, <3>1 DEF StartRun, Job
    <3>2. CASE EndRun(t, newStatus, withMode)
      BY <1>1, <3>2 DEF EndRun, Job
    <3> QED  BY <1>9, <3>1, <3>2
  <2> QED  BY <1>2, <2>1, <2>2
<1>10. ASSUME NEW m \in service, ChangeMode(m) PROVE AnnouncedOnce'
  <2>1. UNCHANGED <<call, outbox>> /\ service' \subseteq service
    BY <1>10 DEF ChangeMode
  <2>2. \A t \in Call : job'[t].state = job[t].state
    BY <1>1, <1>10 DEF ChangeMode, Job
  <2> QED  BY <1>2, <2>1, <2>2
<1>11. CASE UNCHANGED <<call, job, outbox, service>>
  BY <1>2, <1>11
<1>12. CASE UpdateStatus \/ ReadTaskFiles \/ AckStatus \/ FailStatus
  BY <1>11, <1>12 DEF UpdateStatus, ReadTaskFiles, AckStatus, FailStatus
<1>13. CASE ChangeTasksModes \/ AckMode \/ FailMode
  BY <1>11, <1>13 DEF ChangeTasksModes, AckMode, FailMode
<1>14. ASSUME NEW f \in File, ExposeFile(f) PROVE AnnouncedOnce'
  BY <1>11, <1>14 DEF ExposeFile
<1>15. CASE Crash
  <2>1. UNCHANGED <<job, service>> /\ outbox' = {}
    BY <1>15 DEF Crash
  <2>2. \A c \in Call : call'[c].pc # "stored"
    BY <1>15 DEF Crash, CallAt
  <2> QED  BY <1>2, <2>1, <2>2
<1>16. CASE UNCHANGED vars
  BY <1>11, <1>16 DEF vars
<1>17. ASSUME NEW c \in Call, FindUnexposed(c) \/ \E b \in BOOLEAN : CheckSuitable(c, b)
       PROVE  AnnouncedOnce'
  <2>1. /\ UNCHANGED <<job, outbox, service>> /\ call'[c].pc # "stored"
        /\ \A d \in Call \ {c} : call'[d] = call[d]
    <3>1. CASE FindUnexposed(c)
      BY <1>1, <3>1 DEF FindUnexposed, CallAt, CallState
    <3>2. CASE \E b \in BOOLEAN : CheckSuitable(c, b)
      BY <1>1, <3>2 DEF CheckSuitable, CallAt, CallState
    <3> QED  BY <1>17, <3>1, <3>2
  <2>2. \A d \in Call : call'[d].pc = "stored" => call[d].pc = "stored"
    BY <2>1
  <2> QED  BY <1>2, <2>1, <2>2
<1> QED
  BY <1>3, <1>4, <1>5, <1>6, <1>7, <1>8, <1>9, <1>10, <1>12, <1>13, <1>14, <1>15,
     <1>16, <1>17 DEF Next

\* Every action reports the run it changes, and it can be no run of a task that was
\* announced anew.
LEMMA RunStep ==
  ASSUME TypeOK, AnnouncedOnce, RunIsReported, [Next]_vars
  PROVE  RunIsReported'
<1>1. job \in [Call -> Job]
  BY DEF TypeOK
<1>2. ASSUME \A t \in Call : job'[t].state = job[t].state /\ job'[t].last = job[t].last
      PROVE  RunIsReported'
  BY <1>2 DEF RunIsReported
<1>3. ASSUME NEW m \in service, AcceptTask(m) PROVE RunIsReported'
  <2>1. job[m.task].state = "unknown"
    BY <1>3 DEF AcceptTask, AnnouncedOnce
  <2>2. \A t \in Call : /\ job'[t].last = job[t].last
                        /\ t # m.task => job'[t] = job[t]
                        /\ t = m.task => job'[t].state = "waiting"
    BY <1>1, <1>3 DEF AcceptTask, Job
  <2> QED  BY <2>1, <2>2 DEF RunIsReported
<1>4. ASSUME NEW m \in service, ChangeMode(m) PROVE RunIsReported'
  <2>1. \A t \in Call : job'[t].state = job[t].state /\ job'[t].last = job[t].last
    BY <1>1, <1>4 DEF ChangeMode, Job
  <2> QED  BY <1>2, <2>1
<1>5. ASSUME NEW t \in Call, NEW withMode \in BOOLEAN, StartRun(t, withMode)
      PROVE  RunIsReported'
  <2>1. /\ job'[t].state = "running" /\ job'[t].last = "PROCESSING"
        /\ \A u \in Call \ {t} : job'[u] = job[u]
    BY <1>1, <1>5 DEF StartRun, Job
  <2> QED  BY <2>1 DEF RunIsReported
<1>6. ASSUME NEW t \in Call, NEW newStatus \in {"DONE", "FAILED"},
             NEW withMode \in BOOLEAN, EndRun(t, newStatus, withMode)
      PROVE  RunIsReported'
  <2>1. /\ job'[t].state = "waiting" /\ job'[t].last # "PROCESSING"
        /\ \A u \in Call \ {t} : job'[u] = job[u]
    BY <1>1, <1>6 DEF EndRun, Job
  <2> QED  BY <2>1 DEF RunIsReported
<1>7. CASE UNCHANGED job
  BY <1>2, <1>7
<1>8. ASSUME NEW c \in Call, NEW type \in TaskType, NEW name \in Name,
             NEW fileIds \in SUBSET File, CheckName(c, type, name, fileIds)
      PROVE  RunIsReported'
  BY <1>7, <1>8 DEF CheckName
<1>9. ASSUME NEW k \in ModeCall, NEW taskIds \in (SUBSET Call) \ {{}},
             NEW type \in TaskMode, SendTaskMode(k, taskIds, type)
      PROVE  RunIsReported'
  BY <1>7, <1>9 DEF SendTaskMode
<1>10. ASSUME NEW m, Deliver(m) PROVE RunIsReported'
  BY <1>7, <1>10 DEF Deliver
<1>11. CASE UpdateStatus \/ ReadTaskFiles \/ AckStatus \/ FailStatus
  BY <1>7, <1>11 DEF UpdateStatus, ReadTaskFiles, AckStatus, FailStatus
<1>12. CASE ChangeTasksModes \/ AckMode \/ FailMode \/ Crash \/ UNCHANGED vars
  BY <1>7, <1>12 DEF ChangeTasksModes, AckMode, FailMode, Crash, vars
<1>13. ASSUME NEW f \in File, ExposeFile(f) PROVE RunIsReported'
  BY <1>7, <1>13 DEF ExposeFile
<1>14. ASSUME NEW c \in Call, FindUnexposed(c) \/ StoreTask(c) PROVE RunIsReported'
  BY <1>7, <1>14 DEF FindUnexposed, StoreTask
<1>15. ASSUME NEW c \in Call, NEW b \in BOOLEAN, CheckSuitable(c, b) \/ ScheduleTask(c, b)
       PROVE  RunIsReported'
  BY <1>7, <1>15 DEF CheckSuitable, ScheduleTask
<1> QED
  BY <1>3, <1>4, <1>5, <1>6, <1>8, <1>9, <1>10, <1>11, <1>12, <1>13, <1>14,
     <1>15 DEF Next

\* Every action writes only what is stored, or stores it.
LEMMA UnstoredStep ==
  ASSUME StoredInv, UnstoredIsNew, [Next]_vars
  PROVE  UnstoredIsNew'
<1>1. /\ TypeOK /\ task \in [Call -> Task] /\ stored \subseteq Call
  BY DEF StoredInv, TypeOK
<1>2. ASSUME UNCHANGED stored, \A t \in Call \ stored : task'[t] = task[t]
      PROVE  UnstoredIsNew'
  BY <1>2 DEF UnstoredIsNew
<1>3. ASSUME NEW c \in Call, StoreTask(c) PROVE UnstoredIsNew'
  <2>1. stored' = stored \cup {c} /\ \A t \in Call \ {c} : task'[t] = task[t]
    BY <1>1, <1>3 DEF StoreTask
  <2> QED  BY <2>1 DEF UnstoredIsNew
<1>4. CASE UpdateStatus
  <2>1. UNCHANGED stored /\ \A t \in Call \ stored : task'[t] = task[t]
    BY <1>1, <1>4 DEF UpdateStatus
  <2> QED  BY <1>2, <2>1
<1>5. CASE ChangeTasksModes
  <2>1. UNCHANGED stored /\ \A t \in Call \ stored : task'[t] = task[t]
    BY <1>5 DEF ChangeTasksModes
  <2> QED  BY <1>2, <2>1
<1>6. CASE UNCHANGED <<stored, task>>
  BY <1>2, <1>6
<1>7. ASSUME NEW c \in Call, NEW type \in TaskType, NEW name \in Name,
             NEW fileIds \in SUBSET File, CheckName(c, type, name, fileIds)
      PROVE  UnstoredIsNew'
  BY <1>6, <1>7 DEF CheckName
<1>8. ASSUME NEW k \in ModeCall, NEW taskIds \in (SUBSET Call) \ {{}},
             NEW type \in TaskMode, SendTaskMode(k, taskIds, type)
      PROVE  UnstoredIsNew'
  BY <1>6, <1>8 DEF SendTaskMode
<1>9. ASSUME NEW m, Deliver(m) \/ AcceptTask(m) \/ ChangeMode(m) PROVE UnstoredIsNew'
  BY <1>6, <1>9 DEF Deliver, AcceptTask, ChangeMode
<1>10. ASSUME NEW t \in Call, NEW newStatus, NEW withMode \in BOOLEAN,
              StartRun(t, withMode) \/ EndRun(t, newStatus, withMode)
       PROVE  UnstoredIsNew'
  BY <1>6, <1>10 DEF StartRun, EndRun
<1>11. CASE ReadTaskFiles \/ AckStatus \/ FailStatus \/ AckMode \/ FailMode
  BY <1>6, <1>11 DEF ReadTaskFiles, AckStatus, FailStatus, AckMode, FailMode
<1>12. CASE Crash \/ UNCHANGED vars
  BY <1>6, <1>12 DEF Crash, vars
<1>13. ASSUME NEW f \in File, ExposeFile(f) PROVE UnstoredIsNew'
  BY <1>6, <1>13 DEF ExposeFile
<1>14. ASSUME NEW c \in Call, FindUnexposed(c) PROVE UnstoredIsNew'
  BY <1>6, <1>14 DEF FindUnexposed
<1>15. ASSUME NEW c \in Call, NEW b \in BOOLEAN, CheckSuitable(c, b) \/ ScheduleTask(c, b)
       PROVE  UnstoredIsNew'
  BY <1>6, <1>15 DEF CheckSuitable, ScheduleTask
<1> QED
  BY <1>3, <1>4, <1>5, <1>7, <1>8, <1>9, <1>10, <1>11, <1>12, <1>13, <1>14,
     <1>15 DEF Next

----------------------------------------------------------------------------
(* Reports.                                                                *)

RunReport == [task : Call, status : TaskStatus]

reportOf(m) == [task |-> m.task, status |-> m.status]

\* What a queue reports is as long as the queue, and in its order.
LEMMA ReportsType ==
  ASSUME NEW q \in Seq(StatusMsg)
  PROVE  /\ reportsOf(q) \in Seq(RunReport)
         /\ Len(reportsOf(q)) = Len(q)
         /\ \A i \in 1 .. Len(q) : reportsOf(q)[i] = reportOf(q[i])
<1>1. DOMAIN q = 1 .. Len(q) /\ Len(q) \in Nat /\ \A i \in 1 .. Len(q) : q[i] \in StatusMsg
  OBVIOUS
<1>2. \A i \in 1 .. Len(q) : reportOf(q[i]) \in RunReport
  BY <1>1 DEF reportOf, RunReport, StatusMsg
<1>3. reportsOf(q) = [i \in 1 .. Len(q) |-> reportOf(q[i])]
  BY <1>1 DEF reportsOf, reportOf
<1> QED
  BY <1>1, <1>2, <1>3

\* The first message gives the first report.
LEMMA ReportsHead ==
  ASSUME NEW q \in Seq(StatusMsg), q # <<>>
  PROVE  reportsOf(q) # <<>> /\ Head(reportsOf(q)) = reportOf(Head(q))
<1>1. Len(q) \in Nat \ {0} /\ Head(q) = q[1]
  OBVIOUS
<1>2. reportsOf(q) # <<>> /\ Head(reportsOf(q)) = reportsOf(q)[1]
  BY <1>1, ReportsType
<1> QED
  BY <1>1, <1>2, ReportsType

\* A message that comes in gives a report at the end.
LEMMA ReportsAppend ==
  ASSUME NEW q \in Seq(StatusMsg), NEW m \in StatusMsg
  PROVE  reportsOf(Append(q, m)) = Append(reportsOf(q), reportOf(m))
<1> DEFINE s == reportsOf(Append(q, m))
           t == Append(reportsOf(q), reportOf(m))
<1>1. Append(q, m) \in Seq(StatusMsg) /\ Len(Append(q, m)) = Len(q) + 1 /\ Len(q) \in Nat
  OBVIOUS
<1>2. s \in Seq(RunReport) /\ Len(s) = Len(q) + 1
      /\ \A i \in 1 .. Len(q) + 1 : s[i] = reportOf(Append(q, m)[i])
  BY <1>1, ReportsType
<1>3. reportOf(m) \in RunReport
  BY DEF reportOf, RunReport, StatusMsg
<1>4. reportsOf(q) \in Seq(RunReport) /\ Len(reportsOf(q)) = Len(q)
      /\ \A i \in 1 .. Len(q) : reportsOf(q)[i] = reportOf(q[i])
  BY ReportsType
<1>5. /\ t \in Seq(RunReport) /\ Len(t) = Len(q) + 1
      /\ \A i \in 1 .. Len(q) : t[i] = reportsOf(q)[i]
      /\ t[Len(q) + 1] = reportOf(m)
  BY <1>1, <1>3, <1>4
<1>6. Append(q, m)[Len(q) + 1] = m /\ \A i \in 1 .. Len(q) : Append(q, m)[i] = q[i]
  OBVIOUS
<1> HIDE DEF s, t
<1>7. ASSUME NEW i \in 1 .. Len(q) PROVE s[i] = t[i]
  <2>1. i \in 1 .. Len(q) + 1
    BY <1>1
  <2>2. s[i] = reportOf(Append(q, m)[i])
    BY <1>2, <2>1
  <2>3. t[i] = reportOf(q[i])
    BY <1>4, <1>5
  <2> QED  BY <1>6, <2>2, <2>3
<1>8. s[Len(q) + 1] = t[Len(q) + 1]
  <2>1. Len(q) + 1 \in 1 .. Len(q) + 1
    BY <1>1
  <2>2. s[Len(q) + 1] = reportOf(Append(q, m)[Len(q) + 1])
    BY <1>2, <2>1
  <2> QED  BY <1>5, <1>6, <2>2
<1>9. \A i \in 1 .. Len(q) + 1 : s[i] = t[i]
  BY <1>1, <1>7, <1>8
<1>10. s = t
  BY <1>2, <1>5, <1>9, SeqEqual
<1> QED  BY <1>10 DEF s, t

\* A message that is acknowledged takes its report with it.
LEMMA ReportsTail ==
  ASSUME NEW q \in Seq(StatusMsg), q # <<>>
  PROVE  reportsOf(Tail(q)) = Tail(reportsOf(q))
<1> DEFINE s == reportsOf(Tail(q))
           t == Tail(reportsOf(q))
<1>1. Tail(q) \in Seq(StatusMsg) /\ Len(Tail(q)) = Len(q) - 1 /\ Len(q) \in Nat \ {0}
  OBVIOUS
<1>2. s \in Seq(RunReport) /\ Len(s) = Len(q) - 1
      /\ \A i \in 1 .. Len(q) - 1 : s[i] = reportOf(Tail(q)[i])
  BY <1>1, ReportsType
<1>3. reportsOf(q) \in Seq(RunReport) /\ Len(reportsOf(q)) = Len(q)
      /\ \A i \in 1 .. Len(q) : reportsOf(q)[i] = reportOf(q[i])
  BY ReportsType
<1>4. t \in Seq(RunReport) /\ Len(t) = Len(q) - 1
      /\ \A i \in 1 .. Len(q) - 1 : t[i] = reportsOf(q)[i + 1]
  BY <1>1, <1>3
<1>5. \A i \in 1 .. Len(q) - 1 : Tail(q)[i] = q[i + 1]
  OBVIOUS
<1> HIDE DEF s, t
<1>6. \A i \in 1 .. Len(q) - 1 : s[i] = t[i]
  BY <1>1, <1>2, <1>3, <1>4, <1>5
<1>7. s = t
  BY <1>2, <1>4, <1>6, SeqEqual
<1> QED  BY <1>7 DEF s, t

\* Every report is a change of the run of its task, and what is stored is new.
ReportsInv ==
  /\ StatusInv /\ FilesInv /\ MarksInv
  /\ AnnouncedOnce /\ RunIsReported /\ UnstoredIsNew

LEMMA ReportsInvStep == ReportsInv /\ [Next]_vars => ReportsInv'
<1> SUFFICES ASSUME ReportsInv, [Next]_vars PROVE ReportsInv'  OBVIOUS
<1>1. /\ StatusInv /\ StoredInv /\ TypeOK /\ FilesInv /\ MarksInv
      /\ AnnouncedOnce /\ RunIsReported /\ UnstoredIsNew
  BY DEF ReportsInv, StatusInv, StoredInv
<1> QED
  BY <1>1, StatusStep, FilesStep, MarksStep, AnnouncedStep, RunStep, UnstoredStep
     DEF ReportsInv

LEMMA ReportsInvInit == Init => ReportsInv
<1> SUFFICES ASSUME Init PROVE ReportsInv  OBVIOUS
<1>1. StoredInv /\ FilesInv /\ MarksInv
  BY UploadInit DEF UploadInv
<1>2. StatusInv
  BY <1>1 DEF Init, StatusInv, LastReportIsLast, StatusWritten, UnreportedAgrees
<1>3. AnnouncedOnce
  BY DEF Init, AnnouncedOnce, CallAt
<1>4. RunIsReported /\ UnstoredIsNew
  BY DEF Init, RunIsReported, UnstoredIsNew, NewJob, NewTask
<1> QED  BY <1>1, <1>2, <1>3, <1>4 DEF ReportsInv

----------------------------------------------------------------------------
(* Each step is one of ReportedTasks, or none.                             *)

ReportsStep == [Reports!Next]_(Reports!vars)

\* A step that touches none of what ReportedTasks sees.
LEMMA ReportsStutter ==
  ASSUME UNCHANGED <<stored, statusQueue, exposed>>,
         \A t \in Call : /\ task'[t].files = task[t].files
                         /\ task'[t].status = task[t].status
                         /\ job'[t].last = job[t].last
  PROVE  ReportsStep
<1>1. /\ [t \in Call |-> task[t].files]' = [t \in Call |-> task[t].files]
      /\ [t \in Call |-> task[t].status]' = [t \in Call |-> task[t].status]
      /\ [t \in Call |-> job[t].last]' = [t \in Call |-> job[t].last]
  OBVIOUS
<1>2. reportsOf(statusQueue)' = reportsOf(statusQueue)
  BY DEF reportsOf
<1> QED  BY <1>1, <1>2 DEF ReportsStep, Reports!vars

\* A report on a run is one of a change of it.
LEMMA ReportsChange ==
  ASSUME StoredInv, NEW t \in stored, NEW newStatus \in TaskStatus,
         NEW withMode \in BOOLEAN, Report(t, newStatus, withMode),
         UNCHANGED <<stored, task, exposed>>,
         job'[t].last = newStatus, \A u \in Call \ {t} : job'[u] = job[u]
  PROVE  Reports!Change(t, newStatus)
<1> DEFINE m == [task |-> t, status |-> newStatus,
                 mode |-> IF withMode THEN job[t].mode ELSE "absent"]
           ran == [u \in Call |-> job[u].last]
<1>1. TypeOK /\ t \in Call /\ statusQueue \in Seq(StatusMsg)
  BY DEF StoredInv, TypeOK
<1>2. job[t].mode \in TaskMode
  BY <1>1 DEF TypeOK, Job
<1>3. m \in StatusMsg
  BY <1>1, <1>2 DEF StatusMsg
<1>4. statusQueue' = Append(statusQueue, m) /\ reportOf(m) = [task |-> t, status |-> newStatus]
  BY DEF Report, reportOf
<1> HIDE DEF m
<1>5. reportsOf(statusQueue)' = reportsOf(statusQueue')
  BY DEF reportsOf
<1>6. reportsOf(statusQueue)' = Append(reportsOf(statusQueue), [task |-> t, status |-> newStatus])
  BY <1>1, <1>3, <1>4, <1>5, ReportsAppend
<1>7. ran' = [ran EXCEPT ![t] = newStatus]
  BY <1>1
<1>8. /\ [u \in Call |-> task[u].files]' = [u \in Call |-> task[u].files]
      /\ [u \in Call |-> task[u].status]' = [u \in Call |-> task[u].status]
  OBVIOUS
<1> QED  BY <1>6, <1>7, <1>8 DEF Reports!Change

LEMMA ReportsInit == Init => Reports!Init
<1> SUFFICES ASSUME Init PROVE Reports!Init  OBVIOUS
<1>1. /\ stored = {} /\ exposed = {} /\ statusQueue = <<>>
      /\ \A t \in Call : /\ task[t].files = {} /\ task[t].status = "NOT_STARTED"
                         /\ job[t].last = "NOT_STARTED"
  BY DEF Init, NewTask, NewJob
<1>2. reportsOf(statusQueue) = <<>>
  <2>1. <<>> \in Seq(StatusMsg) /\ Len(<<>>) = 0
    OBVIOUS
  <2>2. reportsOf(statusQueue) \in Seq(RunReport) /\ Len(reportsOf(statusQueue)) = 0
    BY <1>1, <2>1, ReportsType
  <2> QED  BY <2>2, EmptySeq
<1>3. /\ [t \in Call |-> task[t].files] = [t \in Call |-> {}]
      /\ [t \in Call |-> task[t].status] = [t \in Call |-> "NOT_STARTED"]
      /\ [t \in Call |-> job[t].last] = [t \in Call |-> "NOT_STARTED"]
  BY <1>1
<1> QED  BY <1>1, <1>2, <1>3 DEF Reports!Init

LEMMA ReportsNext ==
  ASSUME ReportsInv, [Next]_vars
  PROVE  ReportsStep
<1> DEFINE files   == [t \in Call |-> task[t].files]
           ran     == [t \in Call |-> job[t].last]
           shown   == [t \in Call |-> task[t].status]
           reports == reportsOf(statusQueue)
           m       == Head(statusQueue)
<1>1. /\ StoredInv /\ TypeOK /\ StoredByCall /\ OnlyStoredKnown /\ stored \subseteq Call
      /\ StatusWritten /\ FilesInv /\ MarkingOwnFiles
      /\ AnnouncedOnce /\ RunIsReported /\ UnstoredIsNew
      /\ task \in [Call -> Task] /\ job \in [Call -> Job]
      /\ statusQueue \in Seq(StatusMsg)
  BY DEF ReportsInv, StatusInv, StoredInv, MarksInv, TypeOK
<1>2. statusQueue # <<>> =>
        /\ m \in StatusMsg /\ m.task \in stored
        /\ reports # <<>> /\ Head(reports).task = m.task /\ Head(reports).status = m.status
  <2> SUFFICES ASSUME statusQueue # <<>>
               PROVE  /\ m \in StatusMsg /\ m.task \in stored
                      /\ reports # <<>> /\ Head(reports) = reportOf(m)
    BY DEF reportOf
  <2>1. m = statusQueue[1] /\ 1 \in DOMAIN statusQueue
    BY <1>1, AckQueue
  <2> QED  BY <1>1, <2>1, ReportsOnStored, ReportsHead
<1>3. ASSUME NEW c \in Call, StoreTask(c) PROVE ReportsStep
  <2>1. /\ c \notin stored /\ stored' = stored \cup {c}
        /\ UNCHANGED <<job, statusQueue, exposed>>
        /\ task' = [task EXCEPT ![c] =
             NewTask(call[c].type, call[c].name, taskFiles(call[c].found))]
    BY <1>1, <1>3 DEF StoreTask, StoredByCall
  <2>2. PICK own \in SUBSET File : own = taskFiles(call[c].found)
    BY <1>1 DEF TypeOK, CallState, taskFiles
  <2>3. files' = [files EXCEPT ![c] = own]
    BY <1>1, <2>1, <2>2 DEF NewTask
  <2>4. shown' = shown /\ ran' = ran
    BY <1>1, <2>1 DEF NewTask, UnstoredIsNew
  <2>5. reports' = reports
    BY <2>1 DEF reportsOf
  <2>6. Reports!Create(c, own)
    BY <2>1, <2>3, <2>4, <2>5 DEF Reports!Create
  <2> QED  BY <2>6 DEF ReportsStep, Reports!Next
<1>4. ASSUME NEW t \in Call, NEW withMode \in BOOLEAN, StartRun(t, withMode)
      PROVE  ReportsStep
  <2>1. t \in stored /\ job[t].last # "PROCESSING"
    BY <1>1, <1>4 DEF StartRun, OnlyStoredKnown, NewJob, RunIsReported
  <2>2. /\ Report(t, "PROCESSING", withMode) /\ UNCHANGED <<stored, task, exposed>>
        /\ job'[t].last = "PROCESSING" /\ \A u \in Call \ {t} : job'[u] = job[u]
    BY <1>1, <1>4 DEF StartRun, Job
  <2>3. Reports!Change(t, "PROCESSING")
    BY <1>1, <2>1, <2>2, ReportsChange DEF TaskStatus
  <2>4. Reports!Begin(t)
    BY <2>1, <2>3 DEF Reports!Begin
  <2> QED  BY <2>4 DEF ReportsStep, Reports!Next
<1>5. ASSUME NEW t \in Call, NEW newStatus \in {"DONE", "FAILED"},
             NEW withMode \in BOOLEAN, EndRun(t, newStatus, withMode)
      PROVE  ReportsStep
  <2>1. t \in stored /\ job[t].last = "PROCESSING"
    BY <1>1, <1>5 DEF EndRun, OnlyStoredKnown, NewJob, RunIsReported
  <2>2. /\ Report(t, newStatus, withMode) /\ UNCHANGED <<stored, task, exposed>>
        /\ job'[t].last = newStatus /\ \A u \in Call \ {t} : job'[u] = job[u]
    BY <1>1, <1>5 DEF EndRun, Job
  <2>3. Reports!Change(t, newStatus)
    BY <1>1, <2>1, <2>2, ReportsChange DEF TaskStatus
  <2>4. Reports!End(t, newStatus)
    BY <2>1, <2>3 DEF Reports!End
  <2> QED  BY <2>4 DEF ReportsStep, Reports!Next
<1>6. CASE UpdateStatus
  <2>1. /\ statusQueue # <<>> /\ UNCHANGED <<stored, exposed, job, statusQueue>>
        /\ task' = [task EXCEPT ![m.task] = IF m.status = "FAILED"
                                            THEN setFailedTaskInfo(@, m)
                                            ELSE updateTaskStatus(@, m)]
    BY <1>2, <1>6 DEF UpdateStatus
  <2>2. /\ setFailedTaskInfo(task[m.task], m).status = m.status
        /\ setFailedTaskInfo(task[m.task], m).files = task[m.task].files
        /\ updateTaskStatus(task[m.task], m).status = m.status
        /\ updateTaskStatus(task[m.task], m).files = task[m.task].files
    BY <1>1, <1>2, <2>1 DEF setFailedTaskInfo, updateTaskStatus, Task
  <2>3. /\ task'[m.task].status = m.status /\ task'[m.task].files = task[m.task].files
        /\ \A t \in Call \ {m.task} : task'[t] = task[t]
    BY <1>1, <1>2, <2>1, <2>2
  <2>4. shown' = [shown EXCEPT ![m.task] = m.status] /\ files' = files
    BY <1>1, <1>2, <2>1, <2>3
  <2>5. ran' = ran /\ reports' = reports
    BY <2>1 DEF reportsOf
  <2>6. Reports!Show
    BY <1>2, <2>1, <2>4, <2>5 DEF Reports!Show
  <2> QED  BY <2>6 DEF ReportsStep, Reports!Next
<1>7. ASSUME NEW f \in File, ExposeFile(f) PROVE ReportsStep
  <2>1. /\ status.phase = "exposing" /\ f \in status.ids /\ statusQueue # <<>>
        /\ exposed' = exposed \cup {f} /\ UNCHANGED <<stored, task, job, statusQueue>>
    BY <1>1, <1>7 DEF ExposeFile, TypeOK
  <2>2. m.status = "DONE" /\ task[m.task].status = "DONE" /\ f \in task[m.task].files
    BY <1>1, <2>1 DEF StatusWritten, MarkingOwnFiles
  <2>3. m.task \in Call /\ shown[m.task] = "DONE" /\ f \in files[m.task]
    BY <1>1, <1>2, <2>1, <2>2
  <2>4. files' = files /\ ran' = ran /\ shown' = shown /\ reports' = reports
    BY <2>1 DEF reportsOf
  <2>5. Reports!Mark(f)
    BY <1>2, <2>1, <2>2, <2>3, <2>4 DEF Reports!Mark
  <2> QED  BY <2>5 DEF ReportsStep, Reports!Next
<1>8. CASE AckStatus
  <2>1. /\ status.phase = "applied" /\ statusQueue # <<>>
        /\ statusQueue' = Tail(statusQueue) /\ UNCHANGED <<stored, task, job, exposed>>
    BY <1>1, <1>8 DEF AckStatus, TypeOK
  <2>2. task[m.task].status = m.status /\ m.task \in Call
    BY <1>1, <1>2, <2>1 DEF StatusWritten
  <2>3. m.status = "DONE" => task[m.task].files \subseteq exposed
    <3>1. CASE task[m.task].type = "DATA_UPLOAD"
      BY <1>1, <2>1, <3>1 DEF MarkingOwnFiles
    <3>2. CASE task[m.task].type # "DATA_UPLOAD"
      BY <1>1, <2>2, <3>2 DEF FilesInv
    <3> QED  BY <3>1, <3>2
  <2>4. shown[m.task] = m.status /\ (m.status = "DONE" => files[m.task] \subseteq exposed)
    BY <2>2, <2>3
  <2>5. reports' = Tail(reports)
    <3>1. reports' = reportsOf(Tail(statusQueue))
      BY <2>1 DEF reportsOf
    <3> QED  BY <1>1, <2>1, <3>1, ReportsTail
  <2>6. files' = files /\ ran' = ran /\ shown' = shown
    BY <2>1
  <2>7. Reports!GiveUp
    BY <1>2, <2>1, <2>4, <2>5, <2>6 DEF Reports!GiveUp
  <2> QED  BY <2>7 DEF ReportsStep, Reports!Next
<1>9. ASSUME NEW n \in service, AcceptTask(n) \/ ChangeMode(n) PROVE ReportsStep
  <2>1. \A t \in Call : job'[t].last = job[t].last
    <3>1. CASE AcceptTask(n)
      BY <1>1, <3>1 DEF AcceptTask, Job
    <3>2. CASE ChangeMode(n)
      BY <1>1, <3>2 DEF ChangeMode, Job
    <3> QED  BY <1>9, <3>1, <3>2
  <2> QED  BY <1>9, <2>1, ReportsStutter DEF AcceptTask, ChangeMode
<1>10. CASE ChangeTasksModes
  <2>1. \A t \in Call : task'[t].files = task[t].files /\ task'[t].status = task[t].status
    BY <1>1, <1>10 DEF ChangeTasksModes, Task
  <2> QED  BY <1>10, <2>1, ReportsStutter DEF ChangeTasksModes
<1>11. ASSUME NEW c \in Call, NEW type \in TaskType, NEW name \in Name,
              NEW fileIds \in SUBSET File, CheckName(c, type, name, fileIds)
       PROVE  ReportsStep
  BY <1>11, ReportsStutter DEF CheckName
<1>12. ASSUME NEW c \in Call, FindUnexposed(c) PROVE ReportsStep
  BY <1>12, ReportsStutter DEF FindUnexposed
<1>13. ASSUME NEW c \in Call, NEW b \in BOOLEAN, CheckSuitable(c, b) \/ ScheduleTask(c, b)
       PROVE  ReportsStep
  BY <1>13, ReportsStutter DEF CheckSuitable, ScheduleTask
<1>14. ASSUME NEW k \in ModeCall, NEW taskIds \in (SUBSET Call) \ {{}},
              NEW type \in TaskMode, SendTaskMode(k, taskIds, type)
       PROVE  ReportsStep
  BY <1>14, ReportsStutter DEF SendTaskMode
<1>15. ASSUME NEW n, Deliver(n) PROVE ReportsStep
  BY <1>15, ReportsStutter DEF Deliver
<1>16. CASE ReadTaskFiles \/ FailStatus \/ AckMode \/ FailMode
  BY <1>16, ReportsStutter DEF ReadTaskFiles, FailStatus, AckMode, FailMode
<1>17. CASE Crash \/ UNCHANGED vars
  BY <1>17, ReportsStutter DEF Crash, vars
<1> QED
  BY <1>3, <1>4, <1>5, <1>6, <1>7, <1>8, <1>9, <1>10, <1>11, <1>12, <1>13, <1>14,
     <1>15, <1>16, <1>17 DEF Next

(* The tasks component implements ReportedTasks: each of its steps is one   *)
(* of that specification under the mapping, or changes nothing it sees.     *)
THEOREM ReportsImplemented == Spec => ReportsAreFollowed
<1>1. ReportsInv /\ [Next]_vars => [Reports!Next]_(Reports!vars)
  BY ReportsNext DEF ReportsStep
<1> QED
  BY <1>1, ReportsInit, ReportsInvInit, ReportsInvStep, PTL
     DEF Spec, ReportsAreFollowed, Reports!Spec
=============================================================================
