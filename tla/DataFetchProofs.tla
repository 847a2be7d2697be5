-------------------------- MODULE DataFetchProofs --------------------------
(***************************************************************************)
(* Theorems about DataFetch, for any tasks, sensors, names, results and    *)
(* restarts.                                                               *)
(***************************************************************************)
EXTENDS DataFetch, SequenceTheorems, FiniteSetTheorems, WellFoundedInduction, TLAPS

----------------------------------------------------------------------------
(* The operators.                                                          *)

\* A bounded set of numbers has a greatest.
LEMMA Greatest ==
  ASSUME NEW n \in Nat, NEW S \in SUBSET (1 .. n), S # {}
  PROVE  Max(S) \in S /\ \A y \in S : Max(S) >= y
<1> DEFINE T == {n - i : i \in S}
<1>1. T \subseteq Nat /\ T # {}
  <2>1. \A i \in S : n - i \in Nat
    OBVIOUS
  <2> QED  BY <2>1
<1> HIDE DEF T
<1>2. PICK x \in T : \A y \in T : ~(<<y, x>> \in OpToRel(<, Nat))
  BY <1>1, NatLessThanWellFounded, WFMin
<1>3. \A y \in T : ~(y < x)
  BY <1>1, <1>2 DEF OpToRel
<1>4. PICK m \in S : x = n - m
  BY DEF T
<1>5. \A i \in S : n - i \in T
  BY DEF T
<1>6. \A i \in S : m >= i
  BY <1>3, <1>4, <1>5
<1> QED  BY <1>6 DEF Max

\* The file a name stands for is one of the name, and is there if there is one.
LEMMA Named ==
  ASSUME NEW created \in SUBSET DOMAIN files, ids \in Nat, DOMAIN files \subseteq 1 .. ids,
         NEW name
  PROVE  \/ /\ fileNamed(created, name) \in created
            /\ files[fileNamed(created, name)].name = name
         \/ /\ fileNamed(created, name) = 0
            /\ \A k \in created : files[k].name # name
<1> DEFINE same == {k \in created : files[k].name = name}
<1>1. CASE same = {}
  BY <1>1 DEF fileNamed
<1>2. CASE same # {}
  <2>1. Max(same) \in same
    BY <1>2, Greatest
  <2> QED  BY <1>2, <2>1 DEF fileNamed
<1> QED  BY <1>1, <1>2

\* An entry after a result: one of no item of it, one that an item has rewritten, or
\* a new one, of an item of no entry whose file was made.
Untouched(entries, m, x) ==
  x \in entries /\ \A i \in DOMAIN m.items : m.items[i].dataId # x.dataId

Rewritten(entries, m, created, e, i, x) ==
  /\ e \in entries /\ i \in DOMAIN m.items /\ m.items[i].dataId = e.dataId
  /\ x = mapFileToSensorData(m.items[i], e.sensor, e.dataId,
                             fileNamed(created, m.items[i].fileName))

Added(entries, m, created, i, x) ==
  /\ i \in DOMAIN m.items /\ fileNamed(created, m.items[i].fileName) # 0
  /\ \A e \in entries : m.items[i].dataId # e.dataId
  /\ x = mapFileToSensorData(m.items[i], m.items[i].sensor,
           IF m.items[i].dataId = 0 THEN ids + i ELSE m.items[i].dataId,
           fileNamed(created, m.items[i].fileName))

LEMMA Merged ==
  ASSUME NEW entries, NEW m, NEW created
  PROVE  \A x : x \in merged(entries, m, created) <=>
           \/ Untouched(entries, m, x)
           \/ \E e \in entries, i \in DOMAIN m.items : Rewritten(entries, m, created, e, i, x)
           \/ \E i \in DOMAIN m.items : Added(entries, m, created, i, x)
<1>1. \A x : x \in untouched(entries, m) <=> Untouched(entries, m, x)
  BY DEF untouched, itemsOf, Untouched
<1>2. \A x : x \in rewritten(entries, m, created) <=>
        \E e \in entries, i \in DOMAIN m.items : Rewritten(entries, m, created, e, i, x)
  BY DEF rewritten, itemsOf, Rewritten
<1>3. \A x : x \in added(entries, m, created) <=>
        \E i \in DOMAIN m.items : Added(entries, m, created, i, x)
  BY DEF added, itemsOf, Added
<1> QED  BY <1>1, <1>2, <1>3 DEF merged

----------------------------------------------------------------------------
(* Types, and what has been given out.                                     *)

\* Ids and objects are given out before they are reported, and the task of a result
\* was scheduled or is unknown.
MessagesKnown ==
  \A k \in DOMAIN queue :
    /\ queue[k].task \in sched \cup (Task \ Known)
    /\ \A i \in DOMAIN queue[k].items :
         /\ queue[k].items[i].dataId \in 0 .. ids
         /\ queue[k].items[i].path \in 0 .. sent

\* And before they are recorded.
RecordsKnown ==
  /\ \A k \in DOMAIN files : files[k].path \in 1 .. sent
  /\ \A t \in Task : /\ t \notin stored => data[t] = {}
                     /\ \A e \in data[t] : e.dataId \in 1 .. ids /\ e.path \in 0 .. sent

TypeInv == TypeOK /\ MessagesKnown /\ RecordsKnown

\* The message in work, and its items.
LEMMA HeadIs ==
  ASSUME TypeOK, queue # <<>>
  PROVE  /\ 1 \in DOMAIN queue /\ Head(queue) = queue[1] /\ Head(queue) \in ResultMsg
         /\ Tail(queue) \in Seq(ResultMsg)
         /\ Len(Head(queue).items) \in Nat
         /\ DOMAIN Head(queue).items = 1 .. Len(Head(queue).items)
         /\ \A i \in DOMAIN Head(queue).items : Head(queue).items[i] \in ResultItem
         /\ \A k \in DOMAIN Tail(queue) : k + 1 \in DOMAIN queue /\ Tail(queue)[k] = queue[k + 1]
<1>1. queue \in Seq(ResultMsg)
  BY DEF TypeOK
<1>2. /\ 1 \in DOMAIN queue /\ Head(queue) = queue[1] /\ queue[1] \in ResultMsg
      /\ Tail(queue) \in Seq(ResultMsg)
      /\ \A k \in DOMAIN Tail(queue) : k + 1 \in DOMAIN queue /\ Tail(queue)[k] = queue[k + 1]
  BY <1>1
<1>3. Head(queue).items \in Seq(ResultItem)
  BY <1>2 DEF ResultMsg
<1> QED  BY <1>2, <1>3

\* Every message in the queue.
LEMMA QueuedIs ==
  ASSUME TypeOK, NEW k \in DOMAIN queue
  PROVE  /\ queue[k] \in ResultMsg /\ Len(queue[k].items) \in Nat
         /\ DOMAIN queue[k].items = 1 .. Len(queue[k].items)
         /\ \A i \in DOMAIN queue[k].items : queue[k].items[i] \in ResultItem
<1>1. queue[k] \in ResultMsg
  BY DEF TypeOK
<1>2. queue[k].items \in Seq(ResultItem)
  BY <1>1 DEF ResultMsg
<1> QED  BY <1>1, <1>2

\* What the data-service sends: one more message on t, of count items.
Sent(t, count, items, own) ==
  \E m \in ResultMsg :
    /\ queue' = Append(queue, m) /\ m.task = t /\ DOMAIN m.items = 1 .. count
    /\ \A i \in 1 .. count :
         /\ m.items[i].dataId = IF i \in own THEN ids + i ELSE items[i].dataId
         /\ m.items[i].fileName = items[i].fileName
         /\ m.items[i].path = IF items[i].kept THEN sent + i ELSE 0
         /\ items[i].dataId \in 0 .. ids
    /\ ids' = ids + count /\ sent' = sent + count
    /\ told' = [told EXCEPT ![t] = @ \cup {ids + i : i \in own}]
    /\ UNCHANGED <<stored, status, data, sched, files, handler, crashes, retried>>

LEMMA Sending ==
  ASSUME TypeOK, NEW t \in sched \cup (Task \ Known), NEW count \in 1 .. MaxItems,
         NEW items \in [1 .. count -> Report(t)], NEW own \in SUBSET (1 .. count),
         SendResult(t, items, own)
  PROVE  Sent(t, count, items, own)
<1> DEFINE item(i) == [dataId |-> IF i \in own THEN ids + i ELSE items[i].dataId,
                       sensor |-> items[i].sensor, fileName |-> items[i].fileName,
                       path |-> IF items[i].kept THEN sent + i ELSE 0]
           list == [i \in DOMAIN items |-> item(i)]
           m == [task |-> t, items |-> list]
<1>1. count \in Nat /\ ids \in Nat /\ sent \in Nat /\ t \in Task /\ told[t] \in SUBSET (1 .. ids)
  BY TaskAssumption, BoundAssumption DEF TypeOK
<1>2. DOMAIN items = 1 .. count /\ Len(items) = count
  BY <1>1
<1>3. ASSUME NEW i \in 1 .. count
      PROVE  item(i) \in ResultItem /\ items[i].dataId \in 0 .. ids
  <2>1. /\ items[i].dataId \in told[t] \cup {0} /\ items[i].sensor \in Sensor
        /\ items[i].fileName \in Name /\ items[i].kept \in BOOLEAN
    BY DEF Report
  <2>2. (IF i \in own THEN ids + i ELSE items[i].dataId) \in Nat
    BY <1>1, <2>1
  <2>3. (IF items[i].kept THEN sent + i ELSE 0) \in Nat
    BY <1>1
  <2> QED  BY <1>1, <2>1, <2>2, <2>3 DEF ResultItem
<1>4. /\ queue' = Append(queue, m) /\ ids' = ids + count /\ sent' = sent + count
      /\ told' = [told EXCEPT ![t] = @ \cup {item(i).dataId : i \in own}]
      /\ UNCHANGED <<stored, status, data, sched, files, handler, crashes, retried>>
  BY <1>2 DEF SendResult
<1>5. {item(i).dataId : i \in own} = {ids + i : i \in own}
  OBVIOUS
<1>6. list \in Seq(ResultItem)
  BY <1>1, <1>2, <1>3
<1>7. m \in ResultMsg /\ m.task = t /\ m.items = list
  BY <1>1, <1>6 DEF ResultMsg
<1>8. \A i \in 1 .. count :
        /\ list[i].dataId = IF i \in own THEN ids + i ELSE items[i].dataId
        /\ list[i].fileName = items[i].fileName
        /\ list[i].path = IF items[i].kept THEN sent + i ELSE 0
  BY <1>2
<1>9. DOMAIN list = 1 .. count
  BY <1>2
<1> HIDE DEF list, m
<1> QED  BY <1>3, <1>4, <1>5, <1>7, <1>8, <1>9 DEF Sent

LEMMA TypeInit == Init => TypeInv
<1> SUFFICES ASSUME Init PROVE TypeInv  OBVIOUS
<1>1. handler \in [phase : {"idle", "updated", "created", "applied", "blocked"},
                   created : SUBSET DOMAIN files] /\ handler = Idle
  BY DEF Init, Idle
<1>2. TypeOK
  BY <1>1, BoundAssumption DEF Init, TypeOK
<1>3. MessagesKnown /\ RecordsKnown
  BY DEF Init, MessagesKnown, RecordsKnown
<1> QED  BY <1>2, <1>3 DEF TypeInv

\* A task that is created has entries with new dataIds.
LEMMA CreateStep ==
  ASSUME TypeInv, NEW t \in Task, NEW entries \in SUBSET SensorData, NEW count \in Nat,
         Create(t, entries, count),
         \A e \in entries : e.dataId \in (ids + 1) .. (ids + count) /\ e.path = 0
  PROVE  TypeInv'
<1>1. /\ t \in Known \ stored /\ stored' = stored \cup {t} /\ ids' = ids + count
      /\ data' = [data EXCEPT ![t] = entries]
      /\ UNCHANGED <<status, sched, told, files, sent, queue, handler, crashes, retried>>
  BY DEF Create
<1>2. ids \in Nat /\ data \in [Task -> SUBSET SensorData] /\ sent \in Nat
  BY BoundAssumption DEF TypeInv, TypeOK
<1>3. TypeOK'
  <2>1. told' \in [Task -> SUBSET (1 .. ids')] /\ DOMAIN files' \subseteq 1 .. ids'
    BY <1>1, <1>2 DEF TypeInv, TypeOK
  <2>2. data' \in [Task -> SUBSET SensorData] /\ stored' \subseteq Known /\ ids' \in Nat
    BY <1>1, <1>2 DEF TypeInv, TypeOK
  <2> QED  BY <1>1, <2>1, <2>2 DEF TypeInv, TypeOK
<1>4. MessagesKnown'
  BY <1>1, <1>2 DEF TypeInv, MessagesKnown
<1>5. RecordsKnown'
  BY <1>1, <1>2 DEF TypeInv, RecordsKnown
<1> QED  BY <1>3, <1>4, <1>5 DEF TypeInv

\* What CreateForSensors and CreateForGroup give a task.
LEMMA NewEntries ==
  ASSUME TypeOK, NEW count \in Nat, NEW i \in 1 .. count, NEW s \in Sensor,
         NEW n \in Name \cup {NoName}
  PROVE  LET e == NewEntry(ids + i, s, n) IN
         /\ e \in SensorData /\ e.dataId = ids + i
         /\ e.dataId \in (ids + 1) .. (ids + count)
         /\ e.path = 0 /\ e.fileId = 0
<1>1. ids \in Nat
  BY DEF TypeOK
<1> QED  BY <1>1 DEF NewEntry, SensorData

\* Both as one: a task is created with new entries.
LEMMA Creating ==
  ASSUME TypeOK, NEW t \in Task,
         \/ \E count \in 1 .. MaxEntities :
              \E entities \in [1 .. count -> Entity] : CreateForSensors(t, entities)
         \/ \E order \in SetToSeqs(GroupSensor) : CreateForGroup(t, order)
  PROVE  \E entries \in SUBSET SensorData, count \in Nat :
           /\ Create(t, entries, count)
           /\ \A e \in entries : /\ e.dataId \in (ids + 1) .. (ids + count)
                                 /\ e.path = 0 /\ e.fileId = 0
           /\ \A d, e \in entries : d.dataId = e.dataId => d = e
<1>1. ASSUME NEW count \in 1 .. MaxEntities, NEW entities \in [1 .. count -> Entity],
             CreateForSensors(t, entities)
      PROVE  \E entries \in SUBSET SensorData :
               /\ Create(t, entries, count)
               /\ \A e \in entries : /\ e.dataId \in (ids + 1) .. (ids + count)
                                     /\ e.path = 0 /\ e.fileId = 0
               /\ \A d, e \in entries : d.dataId = e.dataId => d = e
  <2> DEFINE entries == {NewEntry(ids + i, entities[i].sensor, entities[i].fileName) :
                           i \in DOMAIN entities}
  <2>1. count \in Nat /\ DOMAIN entities = 1 .. count /\ Len(entities) = count
    BY BoundAssumption
  <2>2. \A i \in 1 .. count :
          entities[i].sensor \in Sensor /\ entities[i].fileName \in Name \cup {NoName}
    BY DEF Entity
  <2>3. \A i \in 1 .. count :
          LET e == NewEntry(ids + i, entities[i].sensor, entities[i].fileName) IN
          /\ e \in SensorData /\ e.dataId = ids + i
          /\ e.dataId \in (ids + 1) .. (ids + count)
          /\ e.path = 0 /\ e.fileId = 0
    BY <2>1, <2>2, NewEntries
  <2>4. Create(t, entries, count)
    BY <1>1, <2>1 DEF CreateForSensors
  <2>5. /\ entries \in SUBSET SensorData
        /\ \A e \in entries : /\ e.dataId \in (ids + 1) .. (ids + count)
                              /\ e.path = 0 /\ e.fileId = 0
    BY <2>1, <2>3
  <2>6. \A d, e \in entries : d.dataId = e.dataId => d = e
    <3>1. \A i, j \in 1 .. count : ids + i = ids + j => i = j
      BY <2>1 DEF TypeOK
    <3> QED  BY <2>1, <2>3, <3>1
  <2> HIDE DEF entries
  <2> QED  BY <2>4, <2>5, <2>6
<1>2. ASSUME NEW order \in SetToSeqs(GroupSensor), CreateForGroup(t, order)
      PROVE  \E entries \in SUBSET SensorData, count \in Nat :
               /\ Create(t, entries, count)
               /\ \A e \in entries : /\ e.dataId \in (ids + 1) .. (ids + count)
                                     /\ e.path = 0 /\ e.fileId = 0
               /\ \A d, e \in entries : d.dataId = e.dataId => d = e
  <2> DEFINE count == Cardinality(GroupSensor)
             entries == {NewEntry(ids + i, order[i], NoName) : i \in DOMAIN order}
  <2>1. count \in Nat
    BY GroupAssumption, FS_CardinalityType
  <2> HIDE DEF count
  <2>2. order \in [1 .. count -> GroupSensor]
    BY <1>2 DEF SetToSeqs, count
  <2>3. order \in [1 .. count -> Sensor] /\ DOMAIN order = 1 .. count /\ Len(order) = count
    BY <2>1, <2>2, GroupAssumption
  <2>4. \A i \in 1 .. count :
          LET e == NewEntry(ids + i, order[i], NoName) IN
          /\ e \in SensorData /\ e.dataId = ids + i
          /\ e.dataId \in (ids + 1) .. (ids + count)
          /\ e.path = 0 /\ e.fileId = 0
    BY <2>1, <2>3, NewEntries
  <2>5. Create(t, entries, count)
    BY <1>2, <2>3 DEF CreateForGroup
  <2>6. /\ entries \in SUBSET SensorData
        /\ \A e \in entries : /\ e.dataId \in (ids + 1) .. (ids + count)
                              /\ e.path = 0 /\ e.fileId = 0
    BY <2>3, <2>4
  <2>7. \A d, e \in entries : d.dataId = e.dataId => d = e
    <3>1. \A i, j \in 1 .. count : ids + i = ids + j => i = j
      BY <2>1 DEF TypeOK
    <3> QED  BY <2>3, <2>4, <3>1
  <2> HIDE DEF entries
  <2> QED  BY <2>1, <2>5, <2>6, <2>7
<1>3. MaxEntities \in Nat /\ \A count \in 1 .. MaxEntities : count \in Nat
  BY BoundAssumption
<1> QED  BY <1>1, <1>2, <1>3

\* What a result makes of the entries is typed, and given out.
LEMMA MergedTypes ==
  ASSUME TypeInv, handler.phase = "created", Head(queue).task \in stored,
         NEW x \in merged(data[Head(queue).task], Head(queue), handler.created)
  PROVE  /\ x \in SensorData /\ x.path \in 0 .. sent
         /\ x.dataId \in 1 .. (ids + Len(Head(queue).items))
<1> DEFINE m == Head(queue)
           entries == data[m.task]
           file(i) == fileNamed(handler.created, m.items[i].fileName)
<1>1. /\ queue # <<>> /\ ids \in Nat /\ sent \in Nat /\ data \in [Task -> SUBSET SensorData]
      /\ handler.created \in SUBSET DOMAIN files /\ DOMAIN files \subseteq 1 .. ids
  BY BoundAssumption DEF TypeInv, TypeOK, Idle
<1>2. /\ m \in ResultMsg /\ DOMAIN m.items = 1 .. Len(m.items) /\ Len(m.items) \in Nat
      /\ \A i \in DOMAIN m.items :
           /\ m.items[i] \in ResultItem
           /\ m.items[i].dataId \in 0 .. ids /\ m.items[i].path \in 0 .. sent
  BY <1>1, HeadIs DEF TypeInv, MessagesKnown
<1>3. m.task \in Task /\ entries \in SUBSET SensorData
      /\ \A e \in entries : e.dataId \in 1 .. ids /\ e.path \in 0 .. sent
  BY <1>1, <1>2 DEF ResultMsg, TypeInv, RecordsKnown
<1>4. \A i \in DOMAIN m.items : file(i) \in Nat
  BY <1>1, Named
<1>5. \/ Untouched(entries, m, x)
      \/ \E e \in entries, i \in DOMAIN m.items :
           Rewritten(entries, m, handler.created, e, i, x)
      \/ \E i \in DOMAIN m.items : Added(entries, m, handler.created, i, x)
  BY Merged
<1> HIDE DEF m, entries
<1>6. CASE Untouched(entries, m, x)
  BY <1>1, <1>2, <1>3, <1>6 DEF Untouched, m
<1>7. ASSUME NEW e \in entries, NEW i \in DOMAIN m.items,
             Rewritten(entries, m, handler.created, e, i, x)
      PROVE  /\ x \in SensorData /\ x.path \in 0 .. sent
             /\ x.dataId \in 1 .. (ids + Len(m.items))
  <2>1. x = [dataId |-> e.dataId, sensor |-> e.sensor, fileName |-> m.items[i].fileName,
             path |-> m.items[i].path, fileId |-> file(i)]
    BY <1>7 DEF Rewritten, mapFileToSensorData
  <2>2. e.sensor \in Sensor /\ m.items[i].fileName \in Name /\ m.items[i].path \in 0 .. sent
        /\ file(i) \in Nat /\ e.dataId \in 1 .. ids
    BY <1>2, <1>3, <1>4 DEF SensorData, ResultItem
  <2> HIDE DEF file
  <2> QED  BY <1>1, <1>2, <2>1, <2>2 DEF SensorData
<1>8. ASSUME NEW i \in DOMAIN m.items, Added(entries, m, handler.created, i, x)
      PROVE  /\ x \in SensorData /\ x.path \in 0 .. sent
             /\ x.dataId \in 1 .. (ids + Len(m.items))
  <2> DEFINE id == IF m.items[i].dataId = 0 THEN ids + i ELSE m.items[i].dataId
  <2>1. x = [dataId |-> id, sensor |-> m.items[i].sensor, fileName |-> m.items[i].fileName,
             path |-> m.items[i].path, fileId |-> file(i)]
    BY <1>8 DEF Added, mapFileToSensorData
  <2>2. m.items[i].sensor \in Sensor /\ m.items[i].fileName \in Name
        /\ m.items[i].path \in 0 .. sent /\ file(i) \in Nat
    BY <1>2, <1>4 DEF ResultItem
  <2>3. id \in 1 .. (ids + Len(m.items))
    BY <1>1, <1>2
  <2> HIDE DEF file, id
  <2> QED  BY <1>1, <1>2, <2>1, <2>2, <2>3 DEF SensorData
<1> QED  BY <1>5, <1>6, <1>7, <1>8 DEF m

\* Every action, and stuttering, keeps the types.
LEMMA TypeStep == TypeInv /\ [Next]_vars => TypeInv'
<1> SUFFICES ASSUME TypeInv, [Next]_vars PROVE TypeInv'  OBVIOUS
<1>1. /\ stored \subseteq Known /\ status \in [Task -> {"NOT_STARTED", "DONE"}]
      /\ data \in [Task -> SUBSET SensorData] /\ sched \subseteq stored
      /\ told \in [Task -> SUBSET (1 .. ids)] /\ ids \in Nat
      /\ DOMAIN files \subseteq 1 .. ids /\ \A k \in DOMAIN files : files[k] \in FileDoc
      /\ sent \in 0 .. MaxSent /\ MaxSent \in Nat /\ sent \in Nat /\ queue \in Seq(ResultMsg)
      /\ handler \in [phase : {"idle", "updated", "created", "applied", "blocked"},
                      created : SUBSET DOMAIN files]
      /\ handler # Idle => queue # <<>>
      /\ handler.phase # "idle" => queue # <<>>
      /\ crashes \in 0 .. MaxCrashes /\ retried \subseteq 1 .. sent
  BY BoundAssumption DEF TypeInv, TypeOK, Idle
<1>2. MessagesKnown /\ RecordsKnown /\ TypeOK
  BY DEF TypeInv
<1>3. ASSUME NEW t \in Task,
             \/ \E count \in 1 .. MaxEntities :
                  \E entities \in [1 .. count -> Entity] : CreateForSensors(t, entities)
             \/ \E order \in SetToSeqs(GroupSensor) : CreateForGroup(t, order)
      PROVE  TypeInv'
  BY <1>2, <1>3, Creating, CreateStep
<1>4. ASSUME NEW t \in Task, NEW gone \in SUBSET Sensor, ScheduleTask(t, gone)
      PROVE  TypeInv'
  <2>1. /\ t \in stored \ sched /\ sched' = sched \cup {t}
        /\ told' = [told EXCEPT ![t] = {e.dataId : e \in {d \in data[t] : d.sensor \notin gone}}]
        /\ UNCHANGED <<stored, status, data, files, ids, sent, queue, handler, crashes,
                       retried>>
    BY <1>4 DEF ScheduleTask
  <2>2. {e.dataId : e \in {d \in data[t] : d.sensor \notin gone}} \in SUBSET (1 .. ids)
    BY <1>2 DEF RecordsKnown
  <2>3. told' \in [Task -> SUBSET (1 .. ids')]
    BY <1>1, <2>1, <2>2
  <2>4. TypeOK'
    BY <1>1, <2>1, <2>3 DEF TypeOK
  <2> QED  BY <1>2, <2>1, <2>4 DEF TypeInv, MessagesKnown, RecordsKnown
<1>5. ASSUME NEW t \in sched \cup (Task \ Known), NEW count \in 1 .. MaxItems,
             sent + count <= MaxSent, NEW items \in [1 .. count -> Report(t)],
             NEW own \in SUBSET (1 .. count), SendResult(t, items, own)
      PROVE  TypeInv'
  <2>0. Sent(t, count, items, own)
    BY <1>1, <1>2, <1>5, Sending
  <2>1. PICK m \in ResultMsg :
           /\ queue' = Append(queue, m) /\ m.task = t /\ DOMAIN m.items = 1 .. count
           /\ \A i \in 1 .. count :
                /\ m.items[i].dataId = IF i \in own THEN ids + i ELSE items[i].dataId
                /\ m.items[i].fileName = items[i].fileName
                /\ m.items[i].path = IF items[i].kept THEN sent + i ELSE 0
                /\ items[i].dataId \in 0 .. ids
           /\ ids' = ids + count /\ sent' = sent + count
           /\ told' = [told EXCEPT ![t] = @ \cup {ids + i : i \in own}]
           /\ UNCHANGED <<stored, status, data, sched, files, handler, crashes, retried>>
    BY <2>0 DEF Sent
  <2>2. count \in Nat /\ t \in Task
    BY <1>1, BoundAssumption, TaskAssumption
  <2>3. \A i \in own : ids + i \in 1 .. (ids + count)
    BY <1>1, <2>2
  <2>4. told' \in [Task -> SUBSET (1 .. ids')]
    BY <1>1, <2>1, <2>2, <2>3
  <2>5. queue' \in Seq(ResultMsg) /\ queue' # <<>> /\ sent' \in 0 .. MaxSent
    BY <1>1, <1>5, <2>1, <2>2
  <2>6. /\ ids' \in Nat /\ DOMAIN files' \subseteq 1 .. ids' /\ retried' \subseteq 1 .. sent'
    BY <1>1, <2>1, <2>2
  <2>7. TypeOK'
    BY <1>1, <2>1, <2>4, <2>5, <2>6 DEF TypeOK
  <2>8. RecordsKnown'
    BY <1>1, <1>2, <2>1, <2>2 DEF RecordsKnown
  <2>9. MessagesKnown'
    <3> SUFFICES ASSUME NEW k \in DOMAIN queue'
                 PROVE  /\ queue'[k].task \in sched \cup (Task \ Known)
                        /\ \A i \in DOMAIN queue'[k].items :
                             /\ queue'[k].items[i].dataId \in 0 .. (ids + count)
                             /\ queue'[k].items[i].path \in 0 .. (sent + count)
      BY <2>1 DEF MessagesKnown
    <3>1. CASE k \in DOMAIN queue
      <4>1. queue'[k] = queue[k]
        BY <1>1, <2>1, <3>1
      <4> QED  BY <1>1, <1>2, <2>2, <3>1, <4>1 DEF MessagesKnown
    <3>2. CASE k \notin DOMAIN queue
      <4>1. queue'[k] = m
        BY <1>1, <2>1, <3>2
      <4>2. \A i \in 1 .. count : /\ m.items[i].dataId \in 0 .. (ids + count)
                                  /\ m.items[i].path \in 0 .. (sent + count)
        <5> SUFFICES ASSUME NEW i \in 1 .. count
                     PROVE  /\ m.items[i].dataId \in 0 .. (ids + count)
                            /\ m.items[i].path \in 0 .. (sent + count)
          OBVIOUS
        <5>1. /\ m.items[i].dataId = IF i \in own THEN ids + i ELSE items[i].dataId
              /\ items[i].dataId \in 0 .. ids
          BY <2>1
        <5>2. m.items[i].path = IF items[i].kept THEN sent + i ELSE 0
          BY <2>1
        <5> QED  BY <1>1, <2>2, <5>1, <5>2
      <4> QED  BY <2>1, <4>1, <4>2
    <3> QED  BY <3>1, <3>2
  <2> QED  BY <2>7, <2>8, <2>9 DEF TypeInv
<1>6. CASE UpdateStatus
  <2>1. /\ status' \in [Task -> {"NOT_STARTED", "DONE"}]
        /\ handler' = [phase |-> "updated", created |-> {}] /\ queue # <<>>
        /\ UNCHANGED <<stored, data, sched, told, files, ids, sent, queue, crashes, retried>>
    BY <1>1, <1>6 DEF UpdateStatus
  <2>2. handler' \in [phase : {"idle", "updated", "created", "applied", "blocked"},
                      created : SUBSET DOMAIN files]
    BY <2>1
  <2> QED
    BY <1>1, <1>2, <2>1, <2>2 DEF TypeInv, TypeOK, MessagesKnown, RecordsKnown
<1>7. CASE CreateFiles
  <2> DEFINE m == Head(queue)
             new == {ids + i : i \in filesOf(m)}
  <2>1. /\ handler.phase = "updated" /\ handler' = [phase |-> "created", created |-> new]
        /\ files' = [k \in DOMAIN files \cup new |->
                       IF k \in new THEN [name |-> m.items[k - ids].fileName,
                                          path |-> m.items[k - ids].path]
                                    ELSE files[k]]
        /\ ids' = ids + Len(m.items)
        /\ UNCHANGED <<stored, status, data, sched, told, sent, queue, crashes, retried>>
    BY <1>7 DEF CreateFiles
  <2>2. /\ Len(m.items) \in Nat /\ DOMAIN m.items = 1 .. Len(m.items)
        /\ \A i \in DOMAIN m.items : m.items[i] \in ResultItem /\ m.items[i].path \in 0 .. sent
    BY <1>1, <1>2, <2>1, HeadIs DEF MessagesKnown
  <2>3. \A i \in filesOf(m) : /\ i \in 1 .. Len(m.items) /\ m.items[i].path \in 1 .. sent
                              /\ m.items[i].fileName \in Name
    BY <1>1, <2>2 DEF filesOf, ResultItem
  <2>4. \A k \in new : k - ids \in filesOf(m) /\ k \in 1 .. (ids + Len(m.items))
    BY <1>1, <2>2, <2>3
  <2> HIDE DEF m, new
  <2>5. /\ DOMAIN files' = DOMAIN files \cup new
        /\ \A k \in DOMAIN files' : files'[k] \in FileDoc /\ files'[k].path \in 1 .. sent
    <3> SUFFICES ASSUME NEW k \in DOMAIN files \cup new
                 PROVE  files'[k] \in FileDoc /\ files'[k].path \in 1 .. sent
      BY <2>1
    <3>1. CASE k \in new
      BY <1>1, <2>1, <2>3, <2>4, <3>1 DEF FileDoc
    <3>2. CASE k \notin new
      BY <1>1, <1>2, <2>1, <3>2 DEF RecordsKnown
    <3> QED  BY <3>1, <3>2
  <2>6. DOMAIN files' \subseteq 1 .. ids' /\ ids' \in Nat
    BY <1>1, <2>1, <2>2, <2>4, <2>5
  <2>7. told' \in [Task -> SUBSET (1 .. ids')]
    BY <1>1, <2>1, <2>2
  <2>8. handler' \in [phase : {"idle", "updated", "created", "applied", "blocked"},
                      created : SUBSET DOMAIN files']
    BY <2>1, <2>5
  <2>9. TypeOK'
    BY <1>1, <2>1, <2>5, <2>6, <2>7, <2>8 DEF TypeOK
  <2>10. MessagesKnown'
    BY <1>1, <1>2, <2>1, <2>2 DEF MessagesKnown
  <2>11. \A t \in Task : \A e \in data[t] : e.dataId \in 1 .. ids'
    BY <1>1, <1>2, <2>1, <2>2 DEF RecordsKnown
  <2>12. RecordsKnown'
    BY <1>2, <2>1, <2>5, <2>11 DEF RecordsKnown
  <2> QED  BY <2>9, <2>10, <2>12 DEF TypeInv
<1>8. CASE SaveResult
  <2> DEFINE m == Head(queue)
             entries == merged(data[m.task], m, handler.created)
  <2>1. /\ handler.phase = "created" /\ handler' = [handler EXCEPT !.phase = "applied"]
        /\ ids' = ids + Len(m.items)
        /\ data' = IF m.task \in stored THEN [data EXCEPT ![m.task] = entries] ELSE data
        /\ status' = IF m.task \in stored THEN [status EXCEPT ![m.task] = "DONE"] ELSE status
        /\ UNCHANGED <<stored, sched, told, files, sent, queue, crashes, retried>>
    BY <1>8 DEF SaveResult
  <2>2. m.task \in Task /\ Len(m.items) \in Nat
    BY <1>1, <1>2, <2>1, HeadIs DEF ResultMsg
  <2>3. m.task \in stored => \A x \in entries :
          /\ x \in SensorData /\ x.path \in 0 .. sent
          /\ x.dataId \in 1 .. (ids + Len(m.items))
    BY <2>1, MergedTypes
  <2> HIDE DEF m, entries
  <2>4. /\ data' \in [Task -> SUBSET SensorData]
        /\ status' \in [Task -> {"NOT_STARTED", "DONE"}]
    BY <1>1, <2>1, <2>2, <2>3
  <2>5. /\ handler' \in [phase : {"idle", "updated", "created", "applied", "blocked"},
                         created : SUBSET DOMAIN files']
        /\ ids' \in Nat /\ DOMAIN files' \subseteq 1 .. ids'
        /\ told' \in [Task -> SUBSET (1 .. ids')] /\ queue' # <<>>
    <3>1. handler' \in [phase : {"idle", "updated", "created", "applied", "blocked"},
                        created : SUBSET DOMAIN files']
      BY <1>1, <2>1
    <3>2. /\ ids' \in Nat /\ DOMAIN files' \subseteq 1 .. ids' /\ queue' # <<>>
          /\ 1 .. ids \subseteq 1 .. ids'
      BY <1>1, <2>1, <2>2
    <3>3. told' \in [Task -> SUBSET (1 .. ids')]
      BY <1>1, <2>1, <3>2
    <3> QED  BY <3>1, <3>2, <3>3
  <2>6. TypeOK'
    BY <1>1, <2>1, <2>4, <2>5 DEF TypeOK
  <2>7. MessagesKnown'
    BY <1>1, <1>2, <2>1, <2>2 DEF MessagesKnown
  <2>8. RecordsKnown'
    <3>1. ASSUME NEW t \in Task, t \notin stored PROVE data'[t] = {}
      BY <1>1, <1>2, <2>1, <3>1 DEF RecordsKnown
    <3>2. ASSUME NEW t \in Task, NEW e \in data'[t]
          PROVE  e.dataId \in 1 .. ids' /\ e.path \in 0 .. sent'
      <4>1. CASE t = m.task /\ m.task \in stored
        BY <1>1, <2>1, <2>3, <3>2, <4>1
      <4>2. CASE ~(t = m.task /\ m.task \in stored)
        BY <1>1, <1>2, <2>1, <2>2, <3>2, <4>2 DEF RecordsKnown
      <4> QED  BY <4>1, <4>2
    <3> QED  BY <1>2, <2>1, <3>1, <3>2 DEF RecordsKnown
  <2> QED  BY <2>6, <2>7, <2>8 DEF TypeInv
<1>9. CASE Ack
  <2>1. /\ queue # <<>> /\ queue' = Tail(queue) /\ handler' = Idle
        /\ UNCHANGED <<stored, status, data, sched, told, files, ids, sent, crashes, retried>>
    BY <1>1, <1>9 DEF Ack
  <2>2. /\ queue' \in Seq(ResultMsg)
        /\ \A k \in DOMAIN queue' : k + 1 \in DOMAIN queue /\ queue'[k] = queue[k + 1]
    BY <1>2, <2>1, HeadIs
  <2>3. handler' \in [phase : {"idle", "updated", "created", "applied", "blocked"},
                      created : SUBSET DOMAIN files']
    BY <2>1 DEF Idle
  <2>4. TypeOK'
    BY <1>1, <2>1, <2>2, <2>3 DEF TypeOK
  <2> QED  BY <1>2, <2>1, <2>2, <2>4 DEF TypeInv, MessagesKnown, RecordsKnown
<1>10. CASE Fail
  <2>1. /\ queue # <<>> /\ handler' = [handler EXCEPT !.phase = "blocked"]
        /\ UNCHANGED <<stored, status, data, sched, told, files, ids, sent, queue, crashes,
                       retried>>
    BY <1>1, <1>10 DEF Fail
  <2> QED  BY <1>1, <1>2, <2>1 DEF TypeInv, TypeOK, MessagesKnown, RecordsKnown
<1>11. CASE Crash
  <2>1. /\ handler' = Idle /\ crashes' \in 0 .. MaxCrashes
        /\ UNCHANGED <<stored, status, data, sched, told, files, ids, sent, queue>>
    BY <1>1, <1>11, BoundAssumption DEF Crash
  <2>2. retried' \subseteq 1 .. sent
    <3>1. CASE handler.created = {}
      BY <1>1, <1>11, <3>1 DEF Crash
    <3>2. CASE handler.created # {}
      <4>1. queue # <<>>
        BY <1>1, <3>2 DEF Idle
      <4>2. \A i \in DOMAIN Head(queue).items : Head(queue).items[i].path \in 0 .. sent
        BY <1>2, <4>1, HeadIs DEF MessagesKnown
      <4>3. pathsOf(Head(queue)) \subseteq 1 .. sent
        BY <1>1, <4>2 DEF pathsOf
      <4> QED  BY <1>1, <1>11, <3>2, <4>3 DEF Crash
    <3> QED  BY <3>1, <3>2
  <2>3. handler' \in [phase : {"idle", "updated", "created", "applied", "blocked"},
                      created : SUBSET DOMAIN files']
    BY <2>1 DEF Idle
  <2>4. TypeOK'
    BY <1>1, <2>1, <2>2, <2>3 DEF TypeOK
  <2> QED  BY <1>2, <2>1, <2>4 DEF TypeInv, MessagesKnown, RecordsKnown
<1>12. CASE UNCHANGED vars
  BY <1>1, <1>2, <1>12 DEF vars, TypeInv, TypeOK, MessagesKnown, RecordsKnown
<1> QED
  BY <1>3, <1>4, <1>5, <1>6, <1>7, <1>8, <1>9, <1>10, <1>11, <1>12 DEF Next

(* Every variable has the type written down for it: in particular no file is  *)
(* made for an item without a stored object.                                  *)
THEOREM Typing == Spec => []TypeOK
<1>1. TypeInv => TypeOK
  BY DEF TypeInv
<1> QED  BY <1>1, TypeInit, TypeStep, PTL DEF Spec

----------------------------------------------------------------------------
(* Entries and their ids.                                                  *)

\* The items of a message have different ids, and different names unless names may
\* be shared; every object is reported by one item of one message.
MessagesDistinct ==
  /\ \A k \in DOMAIN queue : \A i, j \in DOMAIN queue[k].items :
       i # j =>
       /\ queue[k].items[i].dataId = queue[k].items[j].dataId => queue[k].items[i].dataId = 0
       /\ queue[k].items[i].fileName = queue[k].items[j].fileName => SharedNames
  /\ \A k, l \in DOMAIN queue : \A i \in DOMAIN queue[k].items, j \in DOMAIN queue[l].items :
       queue[k].items[i].path = queue[l].items[j].path
       => (k = l /\ i = j) \/ queue[k].items[i].path = 0

LEMMA MessagesStep == TypeInv /\ MessagesDistinct /\ [Next]_vars => MessagesDistinct'
<1> SUFFICES ASSUME TypeInv, MessagesDistinct, [Next]_vars PROVE MessagesDistinct'  OBVIOUS
<1>1. TypeOK /\ MessagesKnown /\ queue \in Seq(ResultMsg) /\ ids \in Nat /\ sent \in Nat
  BY BoundAssumption DEF TypeInv, TypeOK
<1>2. CASE UNCHANGED queue
  BY <1>2 DEF MessagesDistinct
<1>3. ASSUME NEW t \in sched \cup (Task \ Known), NEW count \in 1 .. MaxItems,
             NEW items \in [1 .. count -> Report(t)],
             NEW own \in SUBSET (1 .. count), SendResult(t, items, own)
      PROVE  MessagesDistinct'
  <2>0. Sent(t, count, items, own)
    BY <1>1, <1>3, Sending
  <2>1. PICK m \in ResultMsg :
           /\ queue' = Append(queue, m) /\ m.task = t /\ DOMAIN m.items = 1 .. count
           /\ \A i \in 1 .. count :
                /\ m.items[i].dataId = IF i \in own THEN ids + i ELSE items[i].dataId
                /\ m.items[i].fileName = items[i].fileName
                /\ m.items[i].path = IF items[i].kept THEN sent + i ELSE 0
                /\ items[i].dataId \in 0 .. ids
           /\ ids' = ids + count /\ sent' = sent + count
           /\ told' = [told EXCEPT ![t] = @ \cup {ids + i : i \in own}]
           /\ UNCHANGED <<stored, status, data, sched, files, handler, crashes, retried>>
    BY <2>0 DEF Sent
  <2>2. count \in Nat
    BY BoundAssumption
  <2>3. \A i, j \in 1 .. count : i # j =>
          /\ items[i].dataId = items[j].dataId => items[i].dataId = 0
          /\ items[i].fileName = items[j].fileName => SharedNames
    BY <1>3 DEF SendResult
  <2>4. ASSUME NEW i \in 1 .. count, NEW j \in 1 .. count, i # j
        PROVE  /\ m.items[i].dataId = m.items[j].dataId => m.items[i].dataId = 0
               /\ m.items[i].fileName = m.items[j].fileName => SharedNames
               /\ m.items[i].path = m.items[j].path => m.items[i].path = 0
    <3>1. /\ m.items[i].dataId = IF i \in own THEN ids + i ELSE items[i].dataId
          /\ m.items[j].dataId = IF j \in own THEN ids + j ELSE items[j].dataId
          /\ items[i].dataId \in 0 .. ids /\ items[j].dataId \in 0 .. ids
          /\ i \in 1 .. count /\ j \in 1 .. count
      BY <2>1
    <3>2. m.items[i].dataId = m.items[j].dataId => m.items[i].dataId = 0
      BY <1>1, <2>2, <2>3, <2>4, <3>1
    <3>3. /\ m.items[i].path = IF items[i].kept THEN sent + i ELSE 0
          /\ m.items[j].path = IF items[j].kept THEN sent + j ELSE 0
      BY <2>1
    <3>4. m.items[i].path = m.items[j].path => m.items[i].path = 0
      BY <1>1, <2>2, <2>4, <3>3
    <3> QED  BY <2>1, <2>3, <2>4, <3>2, <3>4
  <2>5. ASSUME NEW l \in DOMAIN queue, NEW j \in DOMAIN queue[l].items, NEW i \in 1 .. count
        PROVE  queue[l].items[j].path = m.items[i].path => m.items[i].path = 0
    <3>1. queue[l].items[j].path \in 0 .. sent
      BY <1>1 DEF MessagesKnown
    <3>2. m.items[i].path = IF items[i].kept THEN sent + i ELSE 0
      BY <2>1
    <3> QED  BY <1>1, <2>2, <3>1, <3>2
  <2>6. \A k \in DOMAIN queue' : \/ k \in DOMAIN queue /\ queue'[k] = queue[k]
                                 \/ k = Len(queue) + 1 /\ queue'[k] = m
    BY <1>1, <2>1
  <2>7. ASSUME NEW k \in DOMAIN queue', NEW i \in DOMAIN queue'[k].items,
               NEW j \in DOMAIN queue'[k].items, i # j
        PROVE  /\ queue'[k].items[i].dataId = queue'[k].items[j].dataId
                  => queue'[k].items[i].dataId = 0
               /\ queue'[k].items[i].fileName = queue'[k].items[j].fileName => SharedNames
    <3>1. CASE k \in DOMAIN queue /\ queue'[k] = queue[k]
      BY <2>7, <3>1 DEF MessagesDistinct
    <3>2. CASE queue'[k] = m
      BY <2>1, <2>4, <2>7, <3>2
    <3> QED  BY <2>6, <3>1, <3>2
  <2>8. ASSUME NEW k \in DOMAIN queue', NEW l \in DOMAIN queue',
               NEW i \in DOMAIN queue'[k].items, NEW j \in DOMAIN queue'[l].items,
               queue'[k].items[i].path = queue'[l].items[j].path
        PROVE  (k = l /\ i = j) \/ queue'[k].items[i].path = 0
    <3>1. CASE k \in DOMAIN queue /\ queue'[k] = queue[k] /\ l \in DOMAIN queue /\ queue'[l] = queue[l]
      BY <2>8, <3>1 DEF MessagesDistinct
    <3>2. CASE k \in DOMAIN queue /\ queue'[k] = queue[k] /\ l = Len(queue) + 1 /\ queue'[l] = m
      BY <2>1, <2>5, <2>8, <3>2
    <3>3. CASE k = Len(queue) + 1 /\ queue'[k] = m /\ l \in DOMAIN queue /\ queue'[l] = queue[l]
      BY <2>1, <2>5, <2>8, <3>3
    <3>4. CASE k = Len(queue) + 1 /\ queue'[k] = m /\ l = Len(queue) + 1 /\ queue'[l] = m
      BY <2>1, <2>4, <2>8, <3>4
    <3> QED  BY <2>6, <3>1, <3>2, <3>3, <3>4
  <2> QED  BY <2>7, <2>8 DEF MessagesDistinct
<1>4. CASE Ack
  <2>1. /\ queue' \in Seq(ResultMsg)
        /\ \A k \in DOMAIN queue' : k \in Nat /\ k + 1 \in DOMAIN queue /\ queue'[k] = queue[k + 1]
    <3>1. queue # <<>> /\ queue' = Tail(queue)
      BY <1>4 DEF Ack, TypeInv, TypeOK, Idle
    <3> QED  BY <1>1, <3>1, HeadIs
  <2>2. \A k, l \in DOMAIN queue' : k + 1 = l + 1 => k = l
    BY <2>1
  <2> QED  BY <2>1, <2>2 DEF MessagesDistinct
<1> QED
  BY <1>2, <1>3, <1>4
  DEF Next, vars, CreateForSensors, CreateForGroup, Create, ScheduleTask, UpdateStatus,
      CreateFiles, SaveResult, Fail, Crash

\* An entry is as item i has left it.
Reported(entries, m, created, i, x) ==
  \/ \E e \in entries : Rewritten(entries, m, created, e, i, x)
  \/ Added(entries, m, created, i, x)

\* It says what the item says, has its id or a new one, and is the only one.
LEMMA ReportedIs ==
  ASSUME TypeInv, MessagesDistinct, EntriesDistinct, queue # <<>>,
         Head(queue).task \in Task,
         NEW x, NEW i \in DOMAIN Head(queue).items,
         Reported(data[Head(queue).task], Head(queue), handler.created, i, x)
  PROVE  /\ x.path = Head(queue).items[i].path
         /\ x.fileName = Head(queue).items[i].fileName
         /\ x.fileId = fileNamed(handler.created, x.fileName)
         /\ x.dataId = IF Head(queue).items[i].dataId = 0 THEN ids + i
                       ELSE Head(queue).items[i].dataId
         /\ \A y : Reported(data[Head(queue).task], Head(queue), handler.created, i, y)
                   => x = y
<1> DEFINE m == Head(queue)
           entries == data[m.task]
<1>1. \A e \in entries : e.dataId # 0
  BY DEF TypeInv, RecordsKnown
<1>2. \A e, f \in entries : e.dataId = f.dataId => e = f
  BY DEF EntriesDistinct
<1> HIDE DEF entries, m
<1>3. CASE \E e \in entries : Rewritten(entries, m, handler.created, e, i, x)
  <2>1. PICK e \in entries : Rewritten(entries, m, handler.created, e, i, x)
    BY <1>3
  <2>2. \A y : Reported(entries, m, handler.created, i, y) => x = y
    BY <1>2, <2>1 DEF Reported, Rewritten, Added
  <2> QED
    BY <1>1, <2>1, <2>2 DEF Rewritten, mapFileToSensorData, m, entries
<1>4. CASE Added(entries, m, handler.created, i, x)
  <2>1. \A y : Reported(entries, m, handler.created, i, y) => x = y
    BY <1>4 DEF Reported, Rewritten, Added
  <2> QED
    BY <1>4, <2>1 DEF Added, mapFileToSensorData, m, entries
<1> QED  BY <1>3, <1>4 DEF Reported, m, entries

\* The entries of the task in work before the result and after it.
LEMMA Saving ==
  ASSUME TypeInv, SaveResult
  PROVE  /\ queue # <<>> /\ handler.phase = "created" /\ Head(queue).task \in Task
         /\ handler' = [handler EXCEPT !.phase = "applied"]
         /\ ids' = ids + Len(Head(queue).items)
         /\ UNCHANGED <<stored, sched, told, files, sent, queue, crashes, retried>>
         /\ \A t \in Task : t # Head(queue).task \/ t \notin stored => data'[t] = data[t]
         /\ Head(queue).task \in stored =>
              LET m == Head(queue) IN
              \A x : x \in data'[m.task] <=>
                \/ Untouched(data[m.task], m, x)
                \/ \E i \in DOMAIN m.items :
                     Reported(data[m.task], m, handler.created, i, x)
<1> DEFINE m == Head(queue)
<1>1. /\ handler.phase = "created" /\ handler' = [handler EXCEPT !.phase = "applied"]
      /\ ids' = ids + Len(m.items)
      /\ data' = IF m.task \in stored
                 THEN [data EXCEPT ![m.task] = merged(data[m.task], m, handler.created)]
                 ELSE data
      /\ UNCHANGED <<stored, sched, told, files, sent, queue, crashes, retried>>
  BY DEF SaveResult
<1>2. queue # <<>> /\ data \in [Task -> SUBSET SensorData] /\ TypeOK
  BY <1>1 DEF TypeInv, TypeOK, Idle
<1>3. m.task \in Task
  BY <1>2, HeadIs DEF ResultMsg
<1> HIDE DEF m
<1>4. \A t \in Task : t # m.task \/ t \notin stored => data'[t] = data[t]
  BY <1>1, <1>2, <1>3
<1>5. m.task \in stored => data'[m.task] = merged(data[m.task], m, handler.created)
  BY <1>1, <1>2, <1>3
<1>6. m.task \in stored =>
        \A x : x \in data'[m.task] <=>
          \/ Untouched(data[m.task], m, x)
          \/ \E i \in DOMAIN m.items : Reported(data[m.task], m, handler.created, i, x)
  BY <1>5, Merged DEF Reported
<1> QED  BY <1>1, <1>2, <1>3, <1>4, <1>6 DEF m

LEMMA EntriesStep ==
  TypeInv /\ MessagesDistinct /\ EntriesDistinct /\ [Next]_vars => EntriesDistinct'
<1> SUFFICES ASSUME TypeInv, MessagesDistinct, EntriesDistinct, [Next]_vars
             PROVE  EntriesDistinct'
  OBVIOUS
<1>1. TypeOK /\ ids \in Nat /\ data \in [Task -> SUBSET SensorData]
  BY DEF TypeInv, TypeOK
<1>2. CASE UNCHANGED data
  BY <1>2 DEF EntriesDistinct
<1>3. ASSUME NEW t \in Task,
             \/ \E count \in 1 .. MaxEntities :
                  \E entities \in [1 .. count -> Entity] : CreateForSensors(t, entities)
             \/ \E order \in SetToSeqs(GroupSensor) : CreateForGroup(t, order)
      PROVE  EntriesDistinct'
  <2>1. PICK entries \in SUBSET SensorData, count \in Nat :
           /\ Create(t, entries, count)
           /\ \A e \in entries : /\ e.dataId \in (ids + 1) .. (ids + count)
                                 /\ e.path = 0 /\ e.fileId = 0
           /\ \A d, e \in entries : d.dataId = e.dataId => d = e
    BY <1>1, <1>3, Creating
  <2>2. data' = [data EXCEPT ![t] = entries]
    BY <2>1 DEF Create
  <2> QED  BY <1>1, <2>1, <2>2 DEF EntriesDistinct
<1>4. CASE SaveResult
  <2> DEFINE m == Head(queue)
             entries == data[m.task]
             made(i, x) == Reported(entries, m, handler.created, i, x)
  <2>1. queue # <<>> /\ m.task \in Task
    BY <1>4, Saving
  <2>2. /\ \A i \in DOMAIN m.items : m.items[i].dataId \in 0 .. ids /\ i \in Nat \ {0}
        /\ \A i, j \in DOMAIN m.items :
             i # j => (m.items[i].dataId = m.items[j].dataId => m.items[i].dataId = 0)
    BY <1>1, <2>1, HeadIs DEF TypeInv, MessagesKnown, MessagesDistinct
  <2>3. \A e \in entries : e.dataId \in 1 .. ids
    BY <2>1 DEF TypeInv, RecordsKnown
  <2>4. \A i \in DOMAIN m.items : \A x : made(i, x) =>
          /\ x.dataId = IF m.items[i].dataId = 0 THEN ids + i ELSE m.items[i].dataId
          /\ \A y : made(i, y) => x = y
    BY <2>1, ReportedIs
  <2> HIDE DEF m, entries, made
  <2>5. ASSUME m.task \in stored, NEW d \in data'[m.task], NEW e \in data'[m.task],
               d.dataId = e.dataId
        PROVE  d = e
    <3>1. /\ Untouched(entries, m, d) \/ \E i \in DOMAIN m.items : made(i, d)
          /\ Untouched(entries, m, e) \/ \E i \in DOMAIN m.items : made(i, e)
      BY <1>4, <2>5, Saving DEF m, entries, made
    <3>2. CASE Untouched(entries, m, d) /\ Untouched(entries, m, e)
      BY <2>1, <2>5, <3>2 DEF Untouched, EntriesDistinct, entries
    <3>3. ASSUME NEW x, NEW y, Untouched(entries, m, x),
                 NEW i \in DOMAIN m.items, made(i, y)
          PROVE  x.dataId # y.dataId
      BY <1>1, <2>2, <2>3, <2>4, <3>3 DEF Untouched
    <3>4. ASSUME NEW i \in DOMAIN m.items, made(i, d), NEW j \in DOMAIN m.items, made(j, e)
          PROVE  d = e
      <4>1. i = j
        BY <1>1, <2>2, <2>4, <2>5, <3>4
      <4> QED  BY <2>4, <3>4, <4>1
    <3> QED  BY <2>5, <3>1, <3>2, <3>3, <3>4
  <2>6. \A t \in Task : t # m.task \/ t \notin stored => data'[t] = data[t]
    BY <1>4, Saving DEF m
  <2> QED  BY <2>5, <2>6 DEF EntriesDistinct
<1> QED
  BY <1>2, <1>3, <1>4
  DEF Next, vars, ScheduleTask, SendResult, UpdateStatus, CreateFiles, Ack, Fail, Crash

(* A dataId names one entry of a task, whatever results repeat, add or are    *)
(* delivered again.                                                           *)
THEOREM Distinct == Spec => []EntriesDistinct
<1>1. Init => MessagesDistinct /\ EntriesDistinct
  BY DEF Init, MessagesDistinct, EntriesDistinct
<1> QED  BY <1>1, TypeInit, TypeStep, MessagesStep, EntriesStep, PTL DEF Spec

(* Handling results never takes an entry from a task, nor another sensor.     *)
THEOREM Kept == Spec => EntriesKept
<1>1. ASSUME TypeInv, [Next]_vars, NEW t \in Task, NEW d \in data[t]
      PROVE  \E e \in data'[t] : e.dataId = d.dataId /\ e.sensor = d.sensor
  <2>1. TypeOK /\ data \in [Task -> SUBSET SensorData]
    BY <1>1 DEF TypeInv, TypeOK
  <2>2. CASE data'[t] = data[t]
    BY <1>1, <2>2
  <2>3. ASSUME NEW u \in Task, NEW entries, NEW count, Create(u, entries, count)
        PROVE  data'[t] = data[t]
    <3>1. u \notin stored /\ data' = [data EXCEPT ![u] = entries]
      BY <2>3 DEF Create
    <3>2. t # u
      BY <1>1, <3>1 DEF TypeInv, RecordsKnown
    <3> QED  BY <2>1, <3>1, <3>2
  <2>4. CASE SaveResult
    <3> DEFINE m == Head(queue)
    <3>1. CASE t # m.task \/ t \notin stored
      BY <1>1, <2>2, <2>4, <3>1, Saving
    <3>2. CASE t = m.task /\ t \in stored
      <4>1. CASE Untouched(data[t], m, d)
        BY <1>1, <2>4, <3>2, <4>1, Saving
      <4>2. ASSUME NEW i \in DOMAIN m.items, m.items[i].dataId = d.dataId
            PROVE  \E e \in data'[t] : e.dataId = d.dataId /\ e.sensor = d.sensor
        <5> DEFINE x == mapFileToSensorData(m.items[i], d.sensor, d.dataId,
                          fileNamed(handler.created, m.items[i].fileName))
        <5>1. Rewritten(data[t], m, handler.created, d, i, x)
          BY <1>1, <4>2 DEF Rewritten
        <5>2. x.dataId = d.dataId /\ x.sensor = d.sensor
          BY DEF mapFileToSensorData
        <5> HIDE DEF x
        <5>3. x \in data'[t]
          BY <1>1, <2>4, <3>2, <4>2, <5>1, Saving DEF Reported
        <5> QED  BY <5>2, <5>3
      <4> QED  BY <1>1, <4>1, <4>2 DEF Untouched
    <3> QED  BY <3>1, <3>2
  <2> QED
    BY <1>1, <2>2, <2>3, <2>4
    DEF Next, vars, CreateForSensors, CreateForGroup, ScheduleTask, SendResult,
        UpdateStatus, CreateFiles, Ack, Fail, Crash
<1>2. TypeInv /\ [Next]_vars
      => [\A t \in Task : \A d \in data[t] :
            \E e \in data'[t] : e.dataId = d.dataId /\ e.sensor = d.sensor]_vars
  BY <1>1
<1> QED  BY <1>2, TypeInit, TypeStep, PTL DEF Spec, EntriesKept

----------------------------------------------------------------------------
(* Files.                                                                  *)

DocOf(item) == [name |-> item.fileName, path |-> item.path]

\* The files this delivery has made are those of the items with an object.
CreatedIsReported ==
  /\ handler.phase \in {"idle", "updated"} => handler.created = {}
  /\ \A k \in handler.created :
       \E i \in filesOf(Head(queue)) : files[k] = DocOf(Head(queue).items[i])
  /\ handler.phase \in {"created", "applied"} =>
       \A i \in filesOf(Head(queue)) :
         \E k \in handler.created : files[k] = DocOf(Head(queue).items[i])

\* An object that a message in the queue reports has files only of this delivery, or
\* of one before that was cut short,
FilesAreNew ==
  \A k \in DOMAIN files, l \in DOMAIN queue : \A i \in filesOf(queue[l]) :
    files[k].path = queue[l].items[i].path
    => files[k].path \in retried \/ (l = 1 /\ k \in handler.created)

\* and an entry only when the result is applied.
EntriesAreNew ==
  \A t \in Task : \A e \in data[t], l \in DOMAIN queue : \A i \in filesOf(queue[l]) :
    e.path = queue[l].items[i].path
    => e.path \in retried \/ (l = 1 /\ handler.phase = "applied")

\* What the data-service sends goes to the end, with objects of its own.
LEMMA Appended ==
  ASSUME TypeInv, NEW t \in sched \cup (Task \ Known), NEW count \in 1 .. MaxItems,
         NEW items \in [1 .. count -> Report(t)], NEW own \in SUBSET (1 .. count),
         SendResult(t, items, own)
  PROVE  /\ UNCHANGED <<stored, data, files, handler, retried>>
         /\ queue # <<>> => Head(queue') = Head(queue)
         /\ \A l \in DOMAIN queue' :
              \/ l \in DOMAIN queue /\ queue'[l] = queue[l]
              \/ \A i \in filesOf(queue'[l]) :
                   queue'[l].items[i].path > sent /\ queue'[l].items[i].path \in Nat
<1>0. Sent(t, count, items, own)
  BY Sending DEF TypeInv
<1>1. PICK m \in ResultMsg :
           /\ queue' = Append(queue, m) /\ m.task = t /\ DOMAIN m.items = 1 .. count
           /\ \A i \in 1 .. count :
                /\ m.items[i].dataId = IF i \in own THEN ids + i ELSE items[i].dataId
                /\ m.items[i].fileName = items[i].fileName
                /\ m.items[i].path = IF items[i].kept THEN sent + i ELSE 0
                /\ items[i].dataId \in 0 .. ids
           /\ ids' = ids + count /\ sent' = sent + count
           /\ told' = [told EXCEPT ![t] = @ \cup {ids + i : i \in own}]
           /\ UNCHANGED <<stored, status, data, sched, files, handler, crashes, retried>>
  BY <1>0 DEF Sent
<1>2. queue \in Seq(ResultMsg) /\ sent \in Nat /\ count \in Nat
  BY BoundAssumption DEF TypeInv, TypeOK
<1>3. queue # <<>> => Head(queue') = Head(queue)
  BY <1>1, <1>2
<1>4. \A l \in DOMAIN queue' : \/ l \in DOMAIN queue /\ queue'[l] = queue[l]
                               \/ queue'[l] = m
  BY <1>1, <1>2
<1>5. \A i \in filesOf(m) : m.items[i].path > sent /\ m.items[i].path \in Nat
  <2> SUFFICES ASSUME NEW i \in filesOf(m)
               PROVE  m.items[i].path > sent /\ m.items[i].path \in Nat
    OBVIOUS
  <2>1. i \in 1 .. count /\ m.items[i].path # 0
    BY <1>1 DEF filesOf
  <2>2. m.items[i].path = IF items[i].kept THEN sent + i ELSE 0
    BY <1>1, <2>1
  <2> QED  BY <1>2, <2>1, <2>2
<1> QED  BY <1>1, <1>3, <1>4, <1>5

\* An acknowledged message is gone, and the others move up.
LEMMA Acknowledged ==
  ASSUME TypeInv, Ack
  PROVE  /\ handler' = Idle /\ UNCHANGED <<stored, data, files, retried>>
         /\ \A l \in DOMAIN queue' :
              l + 1 \in DOMAIN queue /\ l + 1 # 1 /\ queue'[l] = queue[l + 1]
<1>1. queue # <<>> /\ queue' = Tail(queue)
  BY DEF Ack, TypeInv, TypeOK, Idle
<1>2. queue \in Seq(ResultMsg)
  BY DEF TypeInv, TypeOK
<1>3. \A l \in DOMAIN queue' :
        l + 1 \in DOMAIN queue /\ l + 1 # 1 /\ queue'[l] = queue[l + 1]
  BY <1>1, <1>2
<1> QED  BY <1>3 DEF Ack

\* What CreateFiles makes: a file of its own for each item with an object.
LEMMA Making ==
  ASSUME TypeInv, CreateFiles
  PROVE  LET m == Head(queue) IN
         /\ queue # <<>> /\ 1 \in DOMAIN queue /\ m = queue[1]
         /\ handler.phase = "updated" /\ handler'.phase = "created"
         /\ UNCHANGED <<stored, data, queue, retried>>
         /\ DOMAIN files' = DOMAIN files \cup handler'.created
         /\ \A k \in DOMAIN files : k \notin handler'.created /\ files'[k] = files[k]
         /\ \A k \in handler'.created :
              k - ids \in filesOf(m) /\ files'[k] = DocOf(m.items[k - ids])
         /\ \A i \in filesOf(m) :
              ids + i \in handler'.created /\ files'[ids + i] = DocOf(m.items[i])
         /\ \A k, l \in handler'.created : k - ids = l - ids => k = l
<1> DEFINE m == Head(queue)
           new == {ids + i : i \in filesOf(m)}
<1>1. /\ handler.phase = "updated" /\ handler' = [phase |-> "created", created |-> new]
      /\ files' = [k \in DOMAIN files \cup new |->
                     IF k \in new THEN DocOf(m.items[k - ids]) ELSE files[k]]
      /\ UNCHANGED <<stored, data, queue, retried>>
  BY DEF CreateFiles, DocOf
<1>2. /\ TypeOK /\ queue # <<>> /\ ids \in Nat /\ DOMAIN files \subseteq 1 .. ids
  BY <1>1 DEF TypeInv, TypeOK, Idle
<1>3. /\ 1 \in DOMAIN queue /\ m = queue[1] /\ Len(m.items) \in Nat
      /\ filesOf(m) \subseteq 1 .. Len(m.items)
  BY <1>2, HeadIs DEF filesOf
<1>4. \A k \in new : k - ids \in filesOf(m) /\ k \in Nat /\ k > ids
  BY <1>2, <1>3
<1>5. \A i \in filesOf(m) : ids + i \in new /\ (ids + i) - ids = i
  BY <1>2, <1>3
<1> HIDE DEF new, m
<1>6. \A k \in DOMAIN files : k \notin new
  BY <1>2, <1>4
<1>7. \A k, l \in new : k - ids = l - ids => k = l
  BY <1>2, <1>4
<1>8. /\ DOMAIN files' = DOMAIN files \cup new
      /\ \A k \in DOMAIN files : files'[k] = files[k]
      /\ \A k \in new : files'[k] = DocOf(m.items[k - ids])
  BY <1>1, <1>6
<1>9. \A i \in filesOf(m) : files'[ids + i] = DocOf(m.items[i])
  BY <1>5, <1>8
<1> QED  BY <1>1, <1>2, <1>3, <1>4, <1>5, <1>6, <1>7, <1>8, <1>9 DEF m

LEMMA CreatedStep == TypeInv /\ CreatedIsReported /\ [Next]_vars => CreatedIsReported'
<1> SUFFICES ASSUME TypeInv, CreatedIsReported, [Next]_vars PROVE CreatedIsReported'
  OBVIOUS
<1>1. handler # Idle => queue # <<>>
  BY DEF TypeInv, TypeOK
<1>2. CASE handler' = Idle
  BY <1>2 DEF CreatedIsReported, Idle
<1>3. ASSUME UNCHANGED <<handler, files>>, queue # <<>> => Head(queue') = Head(queue)
      PROVE  CreatedIsReported'
  <2>1. CASE queue = <<>>
    BY <1>1, <1>2, <1>3, <2>1
  <2>2. CASE Head(queue') = Head(queue)
    BY <1>3, <2>2 DEF CreatedIsReported, filesOf
  <2> QED  BY <1>3, <2>1, <2>2
<1>4. ASSUME NEW t \in sched \cup (Task \ Known), NEW count \in 1 .. MaxItems,
             NEW items \in [1 .. count -> Report(t)],
             NEW own \in SUBSET (1 .. count), SendResult(t, items, own)
      PROVE  CreatedIsReported'
  BY <1>3, <1>4, Appended
<1>5. CASE UpdateStatus
  BY <1>5 DEF UpdateStatus, CreatedIsReported
<1>6. CASE CreateFiles
  <2>1. /\ Head(queue') = Head(queue) /\ handler'.phase = "created"
        /\ \A k \in handler'.created :
             k - ids \in filesOf(Head(queue)) /\ files'[k] = DocOf(Head(queue).items[k - ids])
        /\ \A i \in filesOf(Head(queue)) :
             ids + i \in handler'.created /\ files'[ids + i] = DocOf(Head(queue).items[i])
    BY <1>6, Making
  <2> QED  BY <2>1 DEF CreatedIsReported, filesOf
<1>7. CASE SaveResult
  <2>1. /\ UNCHANGED <<queue, files>> /\ handler.phase = "created"
        /\ handler'.phase = "applied" /\ handler'.created = handler.created
    BY <1>7 DEF SaveResult, TypeInv, TypeOK
  <2> QED  BY <2>1 DEF CreatedIsReported, filesOf
<1>8. CASE Fail
  <2>1. /\ UNCHANGED <<queue, files>> /\ handler'.phase = "blocked"
        /\ handler'.created = handler.created
    BY <1>8 DEF Fail, TypeInv, TypeOK
  <2> QED  BY <2>1 DEF CreatedIsReported, filesOf
<1> QED
  BY <1>2, <1>3, <1>4, <1>5, <1>6, <1>7, <1>8
  DEF Next, vars, CreateForSensors, CreateForGroup, Create, ScheduleTask, Ack, Crash

\* A restart in the middle of a delivery with files leaves its objects as retried.
LEMMA Restarting ==
  ASSUME TypeInv, Crash
  PROVE  /\ handler' = Idle /\ UNCHANGED <<stored, data, files, queue>>
         /\ retried \subseteq retried'
         /\ handler.created # {} =>
              \A i \in filesOf(Head(queue)) : Head(queue).items[i].path \in retried'
<1>1. handler.created # {} => retried' = retried \cup pathsOf(Head(queue))
  BY DEF Crash
<1>2. \A i \in filesOf(Head(queue)) :
        Head(queue).items[i].path \in pathsOf(Head(queue))
  BY DEF filesOf, pathsOf
<1> QED  BY <1>1, <1>2 DEF Crash

LEMMA FilesStep ==
  TypeInv /\ MessagesDistinct /\ CreatedIsReported /\ FilesAreNew /\ [Next]_vars
  => FilesAreNew'
<1> SUFFICES ASSUME TypeInv, MessagesDistinct, CreatedIsReported, FilesAreNew, [Next]_vars
             PROVE  FilesAreNew'
  OBVIOUS
<1>1. /\ TypeOK /\ sent \in Nat /\ handler.created \subseteq DOMAIN files
      /\ \A k \in DOMAIN files : files[k].path \in 1 .. sent
  BY BoundAssumption DEF TypeInv, TypeOK, RecordsKnown
<1>2. ASSUME UNCHANGED <<files, queue, retried>>, handler.created \subseteq handler'.created
      PROVE  FilesAreNew'
  BY <1>2 DEF FilesAreNew, filesOf
<1>3. ASSUME NEW t \in sched \cup (Task \ Known), NEW count \in 1 .. MaxItems,
             NEW items \in [1 .. count -> Report(t)],
             NEW own \in SUBSET (1 .. count), SendResult(t, items, own)
      PROVE  FilesAreNew'
  <2> SUFFICES ASSUME NEW k \in DOMAIN files, NEW l \in DOMAIN queue',
                      NEW i \in filesOf(queue'[l]),
                      files[k].path = queue'[l].items[i].path
               PROVE  files[k].path \in retried \/ (l = 1 /\ k \in handler.created)
    BY <1>3, Appended DEF FilesAreNew, filesOf
  <2>1. l \in DOMAIN queue /\ queue'[l] = queue[l]
    BY <1>1, <1>3, Appended
  <2> QED  BY <2>1 DEF FilesAreNew
<1>4. CASE UpdateStatus
  <2>1. handler.created = {} /\ UNCHANGED <<files, queue, retried>>
    BY <1>4 DEF UpdateStatus, CreatedIsReported
  <2> QED  BY <1>2, <2>1
<1>5. CASE CreateFiles
  <2> SUFFICES ASSUME NEW k \in DOMAIN files', NEW l \in DOMAIN queue, NEW j \in filesOf(queue[l]),
                      files'[k].path = queue[l].items[j].path
               PROVE  files'[k].path \in retried \/ (l = 1 /\ k \in handler'.created)
    BY <1>5, Making DEF FilesAreNew, filesOf
  <2>1. CASE k \in handler'.created
    <3>1. /\ 1 \in DOMAIN queue /\ k - ids \in filesOf(queue[1])
          /\ files'[k] = DocOf(queue[1].items[k - ids])
      BY <1>5, <2>1, Making
    <3>2. /\ k - ids \in DOMAIN queue[1].items /\ queue[1].items[k - ids].path # 0
          /\ j \in DOMAIN queue[l].items
          /\ queue[1].items[k - ids].path = queue[l].items[j].path
      BY <3>1 DEF filesOf, DocOf
    <3>3. 1 = l
      BY <3>1, <3>2 DEF MessagesDistinct
    <3> QED  BY <2>1, <3>3
  <2>2. CASE k \notin handler'.created
    <3>1. k \in DOMAIN files /\ files'[k] = files[k] /\ handler.created = {}
      BY <1>5, <2>2, Making DEF CreatedIsReported
    <3> QED  BY <3>1 DEF FilesAreNew
  <2> QED  BY <2>1, <2>2
<1>6. CASE Ack
  <2> SUFFICES ASSUME NEW k \in DOMAIN files, NEW l \in DOMAIN queue', NEW i \in filesOf(queue'[l]),
                      files[k].path = queue'[l].items[i].path
               PROVE  files[k].path \in retried
    BY <1>6, Acknowledged DEF FilesAreNew, filesOf
  <2>1. l + 1 \in DOMAIN queue /\ l + 1 # 1 /\ queue'[l] = queue[l + 1]
    BY <1>6, Acknowledged
  <2> QED  BY <2>1 DEF FilesAreNew
<1>7. CASE Crash
  <2> SUFFICES ASSUME NEW k \in DOMAIN files, NEW l \in DOMAIN queue, NEW i \in filesOf(queue[l]),
                      files[k].path = queue[l].items[i].path
               PROVE  files[k].path \in retried'
    BY <1>7, Restarting DEF FilesAreNew, filesOf
  <2>1. CASE files[k].path \in retried
    BY <1>7, <2>1, Restarting
  <2>2. CASE l = 1 /\ k \in handler.created
    <3>1. queue # <<>> /\ Head(queue) = queue[1]
      BY <1>1, <2>2, HeadIs DEF TypeOK, Idle
    <3> QED  BY <1>7, <2>2, <3>1, Restarting
  <2> QED  BY <2>1, <2>2 DEF FilesAreNew
<1>8. CASE SaveResult \/ Fail
  <2>1. UNCHANGED <<files, queue, retried>> /\ handler'.created = handler.created
    BY <1>8, <1>1 DEF SaveResult, Fail, TypeOK
  <2> QED  BY <1>2, <2>1
<1> QED
  BY <1>2, <1>3, <1>4, <1>5, <1>6, <1>7, <1>8
  DEF Next, vars, CreateForSensors, CreateForGroup, Create, ScheduleTask

LEMMA EntriesNewStep ==
  TypeInv /\ MessagesDistinct /\ EntriesDistinct /\ CreatedIsReported /\ EntriesAreNew
  /\ [Next]_vars => EntriesAreNew'
<1> SUFFICES ASSUME TypeInv, MessagesDistinct, EntriesDistinct, CreatedIsReported,
                    EntriesAreNew, [Next]_vars
             PROVE  EntriesAreNew'
  OBVIOUS
<1>1. /\ TypeOK /\ sent \in Nat /\ data \in [Task -> SUBSET SensorData]
      /\ \A t \in Task : \A e \in data[t] : e.path \in 0 .. sent
  BY BoundAssumption DEF TypeInv, TypeOK, RecordsKnown
<1>2. ASSUME UNCHANGED <<data, queue, retried>>,
             handler'.phase = handler.phase \/ handler.phase # "applied"
      PROVE  EntriesAreNew'
  BY <1>2 DEF EntriesAreNew, filesOf
<1>3. ASSUME NEW t \in Task,
             \/ \E count \in 1 .. MaxEntities :
                  \E entities \in [1 .. count -> Entity] : CreateForSensors(t, entities)
             \/ \E order \in SetToSeqs(GroupSensor) : CreateForGroup(t, order)
      PROVE  EntriesAreNew'
  <2>1. PICK entries \in SUBSET SensorData, count \in Nat :
           /\ Create(t, entries, count)
           /\ \A e \in entries : /\ e.dataId \in (ids + 1) .. (ids + count)
                                 /\ e.path = 0 /\ e.fileId = 0
           /\ \A d, e \in entries : d.dataId = e.dataId => d = e
    BY <1>1, <1>3, Creating
  <2>2. data' = [data EXCEPT ![t] = entries] /\ UNCHANGED <<queue, handler, retried>>
    BY <2>1 DEF Create
  <2>3. \A u \in Task : \A e \in data'[u] : e \in data[u] \/ e.path = 0
    BY <1>1, <2>1, <2>2
  <2> QED  BY <2>2, <2>3 DEF EntriesAreNew, filesOf
<1>4. ASSUME NEW t \in sched \cup (Task \ Known), NEW count \in 1 .. MaxItems,
             NEW items \in [1 .. count -> Report(t)],
             NEW own \in SUBSET (1 .. count), SendResult(t, items, own)
      PROVE  EntriesAreNew'
  <2> SUFFICES ASSUME NEW u \in Task, NEW e \in data[u], NEW l \in DOMAIN queue',
                      NEW i \in filesOf(queue'[l]), e.path = queue'[l].items[i].path
               PROVE  e.path \in retried \/ (l = 1 /\ handler.phase = "applied")
    BY <1>4, Appended DEF EntriesAreNew, filesOf
  <2>1. l \in DOMAIN queue /\ queue'[l] = queue[l]
    BY <1>1, <1>4, Appended
  <2> QED  BY <2>1 DEF EntriesAreNew
<1>5. CASE SaveResult
  <2> DEFINE m == Head(queue)
  <2>1. /\ queue # <<>> /\ m.task \in Task /\ handler.phase = "created"
        /\ handler'.phase = "applied" /\ UNCHANGED <<queue, retried>>
        /\ \A t \in Task : t # m.task \/ t \notin stored => data'[t] = data[t]
    BY <1>1, <1>5, Saving DEF TypeOK
  <2>2. 1 \in DOMAIN queue /\ m = queue[1]
    BY <1>1, <2>1, HeadIs
  <2> SUFFICES ASSUME NEW t \in Task, NEW e \in data'[t], NEW l \in DOMAIN queue,
                      NEW j \in filesOf(queue[l]), e.path = queue[l].items[j].path
               PROVE  e.path \in retried \/ l = 1
    BY <2>1 DEF EntriesAreNew, filesOf
  <2>3. CASE e \in data[t]
    BY <2>1, <2>3 DEF EntriesAreNew
  <2>4. CASE e \notin data[t]
    <3>1. t = m.task /\ t \in stored
      BY <2>1, <2>4
    <3>2. PICK i \in DOMAIN m.items : Reported(data[m.task], m, handler.created, i, e)
      BY <1>5, <2>4, <3>1, Saving DEF Untouched
    <3>3. e.path = m.items[i].path
      BY <2>1, <3>2, ReportedIs
    <3>4. queue[l].items[j].path # 0 /\ j \in DOMAIN queue[l].items
      BY DEF filesOf
    <3> QED  BY <2>2, <3>3, <3>4 DEF MessagesDistinct
  <2> QED  BY <2>3, <2>4
<1>6. CASE Ack
  <2> SUFFICES ASSUME NEW t \in Task, NEW e \in data[t], NEW l \in DOMAIN queue',
                      NEW i \in filesOf(queue'[l]), e.path = queue'[l].items[i].path
               PROVE  e.path \in retried
    BY <1>6, Acknowledged DEF EntriesAreNew, filesOf
  <2>1. l + 1 \in DOMAIN queue /\ l + 1 # 1 /\ queue'[l] = queue[l + 1]
    BY <1>6, Acknowledged
  <2> QED  BY <2>1 DEF EntriesAreNew
<1>7. CASE Crash
  <2> SUFFICES ASSUME NEW t \in Task, NEW e \in data[t], NEW l \in DOMAIN queue,
                      NEW i \in filesOf(queue[l]), e.path = queue[l].items[i].path
               PROVE  e.path \in retried'
    BY <1>7, Restarting DEF EntriesAreNew, filesOf
  <2>1. CASE e.path \in retried
    BY <1>7, <2>1, Restarting
  <2>2. CASE l = 1 /\ handler.phase = "applied"
    <3>1. queue # <<>> /\ Head(queue) = queue[1]
      BY <1>1, <2>2, HeadIs DEF TypeOK, Idle
    <3>2. handler.created # {}
      BY <2>2, <3>1 DEF CreatedIsReported
    <3> QED  BY <1>7, <2>2, <3>1, <3>2, Restarting
  <2> QED  BY <2>1, <2>2 DEF EntriesAreNew
<1>8. CASE UpdateStatus \/ CreateFiles \/ Fail
  <2>1. UNCHANGED <<data, queue, retried>> /\ handler.phase # "applied"
    BY <1>8 DEF UpdateStatus, CreateFiles, Fail
  <2> QED  BY <1>2, <2>1
<1>9. CASE UNCHANGED vars \/ \E t \in Task, gone \in SUBSET Sensor : ScheduleTask(t, gone)
  BY <1>2, <1>9 DEF vars, ScheduleTask
<1> QED
  BY <1>3, <1>4, <1>5, <1>6, <1>7, <1>8, <1>9 DEF Next

LEMMA OnceStep ==
  TypeInv /\ MessagesDistinct /\ EntriesDistinct /\ CreatedIsReported /\ FilesAreNew
  /\ EntriesAreNew /\ RecordedOnce /\ [Next]_vars => RecordedOnce'
<1> SUFFICES ASSUME TypeInv, MessagesDistinct, EntriesDistinct, CreatedIsReported,
                    FilesAreNew, EntriesAreNew, RecordedOnce, [Next]_vars
             PROVE  RecordedOnce'
  OBVIOUS
<1>1. TypeOK /\ data \in [Task -> SUBSET SensorData]
  BY DEF TypeInv, TypeOK
<1>2. ASSUME UNCHANGED <<data, files>>, retried \subseteq retried' PROVE RecordedOnce'
  BY <1>2 DEF RecordedOnce
<1>3. ASSUME NEW t \in Task,
             \/ \E count \in 1 .. MaxEntities :
                  \E entities \in [1 .. count -> Entity] : CreateForSensors(t, entities)
             \/ \E order \in SetToSeqs(GroupSensor) : CreateForGroup(t, order)
      PROVE  RecordedOnce'
  <2>1. PICK entries \in SUBSET SensorData, count \in Nat :
           /\ Create(t, entries, count)
           /\ \A e \in entries : /\ e.dataId \in (ids + 1) .. (ids + count)
                                 /\ e.path = 0 /\ e.fileId = 0
           /\ \A d, e \in entries : d.dataId = e.dataId => d = e
    BY <1>1, <1>3, Creating
  <2>2. data' = [data EXCEPT ![t] = entries] /\ UNCHANGED <<files, retried>>
    BY <2>1 DEF Create
  <2>3. \A u \in Task : data'[u] = data[u] \/ \A e \in data'[u] : e.path = 0
    BY <1>1, <2>1, <2>2
  <2> QED  BY <2>2, <2>3 DEF RecordedOnce
<1>4. CASE CreateFiles
  <2>1. UNCHANGED <<data, retried>> /\ DOMAIN files' = DOMAIN files \cup handler'.created
    BY <1>4, Making
  <2>2. ASSUME NEW k \in DOMAIN files, NEW l \in handler'.created,
               files'[k].path = files'[l].path
        PROVE  files'[k].path \in retried
    <3>1. /\ files'[k] = files[k] /\ 1 \in DOMAIN queue /\ l - ids \in filesOf(queue[1])
          /\ files'[l] = DocOf(queue[1].items[l - ids]) /\ handler.created = {}
      BY <1>4, Making DEF CreatedIsReported
    <3> QED  BY <2>2, <3>1 DEF FilesAreNew, DocOf
  <2>3. ASSUME NEW k \in handler'.created, NEW l \in handler'.created,
               files'[k].path = files'[l].path
        PROVE  k = l
    <3>1. /\ 1 \in DOMAIN queue /\ k - ids \in filesOf(queue[1]) /\ l - ids \in filesOf(queue[1])
          /\ files'[k] = DocOf(queue[1].items[k - ids])
          /\ files'[l] = DocOf(queue[1].items[l - ids])
          /\ k - ids = l - ids => k = l
      BY <1>4, Making
    <3>2. /\ k - ids \in DOMAIN queue[1].items /\ l - ids \in DOMAIN queue[1].items
          /\ queue[1].items[k - ids].path # 0
          /\ queue[1].items[k - ids].path = queue[1].items[l - ids].path
      BY <2>3, <3>1 DEF filesOf, DocOf
    <3> QED  BY <3>1, <3>2 DEF MessagesDistinct
  <2>4. \A k \in DOMAIN files : files'[k] = files[k]
    BY <1>4, Making
  <2>5. ASSUME NEW k \in DOMAIN files', NEW l \in DOMAIN files', files'[k].path = files'[l].path
        PROVE  k = l \/ files'[k].path \in retried
    <3>1. CASE k \in DOMAIN files /\ l \in DOMAIN files
      BY <2>4, <2>5, <3>1 DEF RecordedOnce
    <3>2. CASE k \in handler'.created /\ l \in DOMAIN files
      BY <2>2, <2>5, <3>2
    <3>3. CASE k \in DOMAIN files /\ l \in handler'.created
      BY <2>2, <2>5, <3>3
    <3>4. CASE k \in handler'.created /\ l \in handler'.created
      BY <2>3, <2>5, <3>4
    <3> QED  BY <2>1, <2>5, <3>1, <3>2, <3>3, <3>4
  <2> QED  BY <2>1, <2>5 DEF RecordedOnce
<1>5. CASE SaveResult
  <2> DEFINE m == Head(queue)
             made(i, x) == Reported(data[m.task], m, handler.created, i, x)
  <2>1. /\ queue # <<>> /\ m.task \in Task /\ handler.phase = "created"
        /\ UNCHANGED <<files, retried>>
        /\ \A t \in Task : t # m.task \/ t \notin stored => data'[t] = data[t]
    BY <1>5, Saving
  <2>2. 1 \in DOMAIN queue /\ m = queue[1]
    BY <1>1, <2>1, HeadIs
  <2>3. \A i \in DOMAIN m.items : \A x : made(i, x) =>
          x.path = m.items[i].path /\ \A y : made(i, y) => x = y
    BY <2>1, ReportedIs
  <2>4. m.task \in stored => \A x \in data'[m.task] :
          x \in data[m.task] \/ \E i \in DOMAIN m.items : made(i, x)
    BY <1>5, Saving DEF Untouched
  <2> HIDE DEF made, m
  <2>5. ASSUME NEW d \in data[m.task], NEW e, NEW i \in DOMAIN m.items, made(i, e),
               d.path = e.path
        PROVE  d.path = 0 \/ d.path \in retried
    <3>1. d.path # 0 => i \in filesOf(queue[1]) /\ d.path = queue[1].items[i].path
      BY <2>2, <2>3, <2>5 DEF filesOf
    <3> QED  BY <2>1, <2>2, <3>1 DEF EntriesAreNew
  <2>6. ASSUME NEW d, NEW i \in DOMAIN m.items, made(i, d),
               NEW e, NEW j \in DOMAIN m.items, made(j, e), d.path = e.path
        PROVE  d = e \/ d.path = 0
    <3>1. d.path = m.items[i].path /\ e.path = m.items[j].path
      BY <2>3, <2>6
    <3>2. i = j \/ d.path = 0
      BY <2>2, <2>6, <3>1 DEF MessagesDistinct
    <3> QED  BY <2>3, <2>6, <3>2
  <2>7. ASSUME NEW t \in Task, NEW d \in data'[t], NEW e \in data'[t], d.path = e.path
        PROVE  d = e \/ d.path = 0 \/ d.path \in retried
    <3>1. CASE d \in data[t] /\ e \in data[t]
      BY <2>7, <3>1 DEF RecordedOnce
    <3>2. CASE ~(d \in data[t] /\ e \in data[t])
      <4>1. t = m.task /\ t \in stored
        BY <2>1, <2>7, <3>2
      <4> QED  BY <2>4, <2>5, <2>6, <2>7, <3>2, <4>1
    <3> QED  BY <3>1, <3>2
  <2> QED  BY <2>1, <2>7 DEF RecordedOnce
<1>6. CASE Crash
  BY <1>2, <1>6, Restarting
<1> QED
  BY <1>2, <1>3, <1>4, <1>5, <1>6
  DEF Next, vars, ScheduleTask, SendResult, UpdateStatus, Ack, Fail

LEMMA AppliedStep ==
  TypeInv /\ CreatedIsReported /\ AppliedResultIsRecorded /\ [Next]_vars
  => AppliedResultIsRecorded'
<1> SUFFICES ASSUME TypeInv, CreatedIsReported, AppliedResultIsRecorded, [Next]_vars,
                    handler'.phase = "applied", Head(queue').task \in stored'
             PROVE  AppliedResultIsRecorded'
  BY DEF AppliedResultIsRecorded
<1>1. /\ TypeOK /\ data \in [Task -> SUBSET SensorData] /\ sched \subseteq stored
      /\ handler # Idle => queue # <<>>
      /\ handler \in [phase : {"idle", "updated", "created", "applied", "blocked"},
                      created : SUBSET DOMAIN files]
  BY DEF TypeInv, TypeOK
<1>2. ASSUME UNCHANGED handler, Head(queue') = Head(queue), Head(queue).task \in stored,
             data'[Head(queue).task] = data[Head(queue).task]
      PROVE  AppliedResultIsRecorded'
  BY <1>2 DEF AppliedResultIsRecorded
<1>3. handler.phase = "applied" =>
        /\ queue # <<>> /\ Head(queue).task \in Task
        /\ Head(queue).task \in sched \cup (Task \ Known)
  <2>1. ASSUME queue # <<>>
        PROVE  /\ Head(queue).task \in Task /\ Head(queue).task \in sched \cup (Task \ Known)
    BY <1>1, <2>1, HeadIs DEF ResultMsg, TypeInv, MessagesKnown
  <2> QED  BY <1>1, <2>1 DEF Idle
<1>4. CASE UNCHANGED <<queue, stored, data, handler>>
  BY <1>2, <1>4
<1>5. ASSUME NEW t \in Task, NEW entries, NEW count, Create(t, entries, count)
      PROVE  AppliedResultIsRecorded'
  <2>1. /\ t \in Known \ stored /\ stored' = stored \cup {t}
        /\ data' = [data EXCEPT ![t] = entries] /\ UNCHANGED <<queue, handler>>
    BY <1>5 DEF Create
  <2>2. Head(queue).task # t /\ Head(queue).task \in Task
    BY <1>1, <1>3, <2>1
  <2> QED  BY <1>1, <1>2, <2>1, <2>2
<1>6. ASSUME NEW t \in sched \cup (Task \ Known), NEW count \in 1 .. MaxItems,
             NEW items \in [1 .. count -> Report(t)],
             NEW own \in SUBSET (1 .. count), SendResult(t, items, own)
      PROVE  AppliedResultIsRecorded'
  <2>1. UNCHANGED <<handler, data, stored>> /\ (queue # <<>> => Head(queue') = Head(queue))
    BY <1>6, Appended
  <2> QED  BY <1>2, <1>3, <2>1
<1>7. CASE SaveResult
  <2> DEFINE m == Head(queue)
             entries == data[m.task]
             file(i) == fileNamed(handler.created, m.items[i].fileName)
  <2>1. /\ queue # <<>> /\ handler.phase = "created" /\ m.task \in Task
        /\ handler'.created = handler.created /\ UNCHANGED <<stored, queue, files>>
    BY <1>1, <1>7, Saving
  <2>2. m.task \in stored
    BY <2>1
  <2>3. \A x : \A i \in DOMAIN m.items :
          Reported(entries, m, handler.created, i, x) => x \in data'[m.task]
    BY <1>7, <2>2, Saving
  <2>4. ASSUME NEW i \in DOMAIN m.items, m.items[i].path # 0
        PROVE  \E x \in data'[m.task] :
                 /\ x.path = m.items[i].path /\ x.fileName = m.items[i].fileName
                 /\ x.fileId \in handler.created
    <3>1. PICK k \in handler.created : files[k] = DocOf(m.items[i])
      BY <2>1, <2>4 DEF CreatedIsReported, filesOf
    <3>2. file(i) \in handler.created
      BY <1>1, <3>1, Named DEF DocOf, TypeOK
    <3>3. file(i) # 0
      BY <1>1, <3>2 DEF TypeOK
    <3>4. CASE \E e \in entries : m.items[i].dataId = e.dataId
      <4>1. PICK e \in entries : m.items[i].dataId = e.dataId
        BY <3>4
      <4> DEFINE x == mapFileToSensorData(m.items[i], e.sensor, e.dataId, file(i))
      <4>2. Rewritten(entries, m, handler.created, e, i, x)
        BY <4>1 DEF Rewritten
      <4>3. /\ x.path = m.items[i].path /\ x.fileName = m.items[i].fileName
            /\ x.fileId = file(i)
        BY DEF mapFileToSensorData
      <4> HIDE DEF x
      <4> QED  BY <2>3, <3>2, <4>2, <4>3 DEF Reported
    <3>5. CASE ~\E e \in entries : m.items[i].dataId = e.dataId
      <4> DEFINE x == mapFileToSensorData(m.items[i], m.items[i].sensor,
                        IF m.items[i].dataId = 0 THEN ids + i ELSE m.items[i].dataId, file(i))
      <4>2. Added(entries, m, handler.created, i, x)
        BY <3>3, <3>5 DEF Added
      <4>3. /\ x.path = m.items[i].path /\ x.fileName = m.items[i].fileName
            /\ x.fileId = file(i)
        BY DEF mapFileToSensorData
      <4> HIDE DEF x
      <4> QED  BY <2>3, <3>2, <4>2, <4>3 DEF Reported
    <3> QED  BY <3>4, <3>5
  <2> QED  BY <2>1, <2>4 DEF AppliedResultIsRecorded
<1>8. CASE UpdateStatus \/ CreateFiles \/ Ack \/ Fail \/ Crash
  BY <1>1, <1>8 DEF UpdateStatus, CreateFiles, Ack, Fail, Crash, Idle
<1> QED
  BY <1>4, <1>5, <1>6, <1>7, <1>8
  DEF Next, vars, CreateForSensors, CreateForGroup, ScheduleTask

LEMMA LinkedStep ==
  TypeInv /\ MessagesDistinct /\ EntriesDistinct /\ CreatedIsReported
  /\ LinkedFileIsOwn /\ ~SharedNames /\ [Next]_vars => LinkedFileIsOwn'
<1> SUFFICES ASSUME TypeInv, MessagesDistinct, EntriesDistinct, CreatedIsReported,
                    LinkedFileIsOwn, ~SharedNames, [Next]_vars
             PROVE  LinkedFileIsOwn'
  OBVIOUS
<1>1. TypeOK /\ data \in [Task -> SUBSET SensorData]
  BY DEF TypeInv, TypeOK
<1>2. CASE UNCHANGED <<data, files>>
  BY <1>2 DEF LinkedFileIsOwn
<1>3. ASSUME NEW t \in Task,
             \/ \E count \in 1 .. MaxEntities :
                  \E entities \in [1 .. count -> Entity] : CreateForSensors(t, entities)
             \/ \E order \in SetToSeqs(GroupSensor) : CreateForGroup(t, order)
      PROVE  LinkedFileIsOwn'
  <2>1. PICK entries \in SUBSET SensorData, count \in Nat :
           /\ Create(t, entries, count)
           /\ \A e \in entries : /\ e.dataId \in (ids + 1) .. (ids + count)
                                 /\ e.path = 0 /\ e.fileId = 0
           /\ \A d, e \in entries : d.dataId = e.dataId => d = e
    BY <1>1, <1>3, Creating
  <2>2. data' = [data EXCEPT ![t] = entries] /\ UNCHANGED files
    BY <2>1 DEF Create
  <2>3. \A u \in Task : \A e \in data'[u] : e \in data[u] \/ e.fileId = 0
    BY <1>1, <2>1, <2>2
  <2> QED  BY <2>2, <2>3 DEF LinkedFileIsOwn
<1>4. CASE CreateFiles
  <2>1. /\ UNCHANGED data /\ DOMAIN files \subseteq DOMAIN files'
        /\ \A k \in DOMAIN files : files'[k] = files[k]
    BY <1>4, Making
  <2> QED  BY <2>1 DEF LinkedFileIsOwn
<1>5. CASE SaveResult
  <2> DEFINE m == Head(queue)
  <2>1. /\ queue # <<>> /\ m.task \in Task /\ UNCHANGED files
        /\ \A t \in Task : t # m.task \/ t \notin stored => data'[t] = data[t]
    BY <1>5, Saving
  <2>2. 1 \in DOMAIN queue /\ m = queue[1]
    BY <1>1, <2>1, HeadIs
  <2>3. ASSUME NEW x, NEW i \in DOMAIN m.items,
               Reported(data[m.task], m, handler.created, i, x), x.fileId # 0
        PROVE  x.fileId \in DOMAIN files
               /\ files[x.fileId] = [name |-> x.fileName, path |-> x.path]
    <3>1. /\ x.path = m.items[i].path /\ x.fileName = m.items[i].fileName
          /\ x.fileId = fileNamed(handler.created, x.fileName)
      BY <2>1, <2>3, ReportedIs
    <3>2. x.fileId \in handler.created /\ files[x.fileId].name = x.fileName
      BY <1>1, <2>3, <3>1, Named DEF TypeOK
    <3>3. PICK j \in filesOf(m) : files[x.fileId] = DocOf(m.items[j])
      BY <3>2 DEF CreatedIsReported
    <3>4. j \in DOMAIN m.items /\ m.items[j].fileName = m.items[i].fileName
      BY <3>1, <3>2, <3>3 DEF filesOf, DocOf
    <3>5. i = j
      BY <2>2, <3>4 DEF MessagesDistinct
    <3> QED  BY <1>1, <3>1, <3>2, <3>3, <3>5 DEF DocOf, TypeOK
  <2>4. m.task \in stored => \A x \in data'[m.task] :
          \/ x \in data[m.task]
          \/ \E i \in DOMAIN m.items : Reported(data[m.task], m, handler.created, i, x)
    BY <1>5, Saving DEF Untouched
  <2> HIDE DEF m
  <2> SUFFICES ASSUME NEW t \in Task, NEW e \in data'[t], e.fileId # 0
               PROVE  e.fileId \in DOMAIN files
                      /\ files[e.fileId] = [name |-> e.fileName, path |-> e.path]
    BY <2>1 DEF LinkedFileIsOwn
  <2>5. CASE e \in data[t]
    BY <2>5 DEF LinkedFileIsOwn
  <2>6. CASE e \notin data[t]
    BY <2>1, <2>3, <2>4, <2>6
  <2> QED  BY <2>5, <2>6
<1> QED
  BY <1>2, <1>3, <1>4, <1>5
  DEF Next, vars, ScheduleTask, SendResult, UpdateStatus, Ack, Fail, Crash

ResultInv ==
  MessagesDistinct /\ EntriesDistinct /\ CreatedIsReported /\ FilesAreNew /\ EntriesAreNew

LEMMA ResultInit ==
  Init => ResultInv /\ RecordedOnce /\ AppliedResultIsRecorded /\ LinkedFileIsOwn
<1> SUFFICES ASSUME Init
             PROVE  ResultInv /\ RecordedOnce /\ AppliedResultIsRecorded /\ LinkedFileIsOwn
  OBVIOUS
<1>1. /\ DOMAIN files = {} /\ DOMAIN queue = {} /\ handler.created = {}
      /\ handler.phase = "idle" /\ \A t \in Task : data[t] = {}
  BY DEF Init, Idle
<1> QED
  BY <1>1
  DEF ResultInv, MessagesDistinct, EntriesDistinct, CreatedIsReported, FilesAreNew,
      EntriesAreNew, RecordedOnce, AppliedResultIsRecorded, LinkedFileIsOwn

LEMMA ResultStep == TypeInv /\ ResultInv /\ [Next]_vars => ResultInv'
BY MessagesStep, EntriesStep, CreatedStep, FilesStep, EntriesNewStep DEF ResultInv

(* When a result is applied, every file it reports as stored is in the        *)
(* payload of its task, linked to a file document made by this delivery.      *)
THEOREM Applied == Spec => []AppliedResultIsRecorded
<1>1. TypeInv /\ ResultInv /\ AppliedResultIsRecorded /\ [Next]_vars
      => AppliedResultIsRecorded'
  BY AppliedStep DEF ResultInv
<1> QED  BY <1>1, ResultInit, ResultStep, TypeInit, TypeStep, PTL DEF Spec

(* No stored object gets two file documents or two entries, unless a restart  *)
(* made the broker deliver its result again after files had been made.        *)
THEOREM Once == Spec => []RecordedOnce
<1>1. TypeInv /\ ResultInv /\ RecordedOnce /\ [Next]_vars => RecordedOnce'
  BY OnceStep DEF ResultInv
<1> QED  BY <1>1, ResultInit, ResultStep, TypeInit, TypeStep, PTL DEF Spec

(* Where the files of a result have names of their own, the file an entry     *)
(* links is the one made of the entry's own stored object.                    *)
THEOREM Linked ==
  ASSUME ~SharedNames
  PROVE  Spec => []LinkedFileIsOwn
<1>1. TypeInv /\ ResultInv /\ LinkedFileIsOwn /\ [Next]_vars => LinkedFileIsOwn'
  BY LinkedStep DEF ResultInv
<1> QED  BY <1>1, ResultInit, ResultStep, TypeInit, TypeStep, PTL DEF Spec
=============================================================================
