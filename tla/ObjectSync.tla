---------------------------- MODULE ObjectSync -----------------------------
(***************************************************************************)
(* Object-sync tasks: what the consumer of coreservice.tasks.status does   *)
(* with the sensors and groups a PROCESSING message reports                *)
(* (ObjectSyncTaskMessageHandler), over the collections SensorsService and *)
(* GroupsService keep, while administrators create and delete sensors and  *)
(* groups over HTTP.                                                       *)
(***************************************************************************)
EXTENDS Naturals, Sequences, FiniteSets

CONSTANTS Triple,      \* managedObjectId, managedObjectName, valueFragmentType
          Bare,        \* those without a valueFragmentType
          CaseOf,      \* triples that differ in case only have one image
          GroupMO,     \* managedObjectIds of groups
          Message,     \* the messages the data-service may send
          MaxMessages, \* bound on the messages sent
          MaxCalls,    \* bound on the HTTP calls
          MaxCrashes   \* bound on restarts of the service

\* An object of a message is a sensor, or a group with sensors and with groups,
\* whose own objects the message type does not require and the code ignores.
SensorObject == [type : {"SENSOR"}, triple : Triple \ Bare]
GroupObject  == [type : {"GROUP"}, id : GroupMO, sensors : Seq(Triple),
                 groups : Seq(GroupMO)]

ASSUME BareAssumption    == Bare \subseteq Triple
ASSUME MessageAssumption == Message \subseteq Seq(SensorObject \cup GroupObject)
ASSUME CaseAssumption    == CaseOf \in [Triple -> Triple]
ASSUME BoundAssumption   == MaxMessages \in Nat /\ MaxCalls \in Nat /\ MaxCrashes \in Nat

VARIABLES
  sensor,      \* the sensor documents ever created; the index is the _id
  group,       \* the group documents ever created
  goneSensors, \* those that were deleted
  goneGroups,
  queue,       \* messages in coreservice.tasks.status
  sync,        \* the handler of Head(queue)
  sent, calls, crashes, \* messages, HTTP calls and restarts so far
  twins,       \* history: triples and groups an HTTP call, or a message that
               \* repeats one, may have made a second of
  removed      \* history: those removed, and groups whose update failed, since
               \* Head(queue) was last delivered

vars == <<sensor, group, goneSensors, goneGroups, queue, sync, sent, calls,
          crashes, twins, removed>>

----------------------------------------------------------------------------
Sensors == DOMAIN sensor \ goneSensors
Groups  == DOMAIN group \ goneGroups

\* at is the object of the message in work, next what is next in it; found are
\* the sensors as its look-up returned them, target the group, sensors and
\* groups the ids collected.
Phase == {"idle", "objects", "createSensor", "sensors", "groups", "createNested",
          "findGroup", "updateGroup", "createGroup", "applied", "blocked"}

Idle == [phase |-> "idle", at |-> 1, next |-> 1, found |-> {}, target |-> 0,
         sensors |-> {}, groups |-> {}]

Object == Head(queue)[sync.at]

\* On to the next object of the message.
ObjectDone ==
  IF sync.at = Len(Head(queue)) THEN [Idle EXCEPT !.phase = "applied"]
                                ELSE [Idle EXCEPT !.phase = "objects", !.at = sync.at + 1]

\* On to the groups in the group, and to the group itself, when s is through
\* with what comes before.
AfterGroups(s) ==
  IF s.next > Len(Object.groups) THEN [s EXCEPT !.phase = "findGroup"]
                                 ELSE [s EXCEPT !.phase = "groups"]

AfterSensors(s) ==
  IF s.next > Len(Object.sensors) THEN AfterGroups([s EXCEPT !.next = 1]) ELSE s

\* The handler has looked t (or group id) up and may be about to create it.
SensorAwaited(t) ==
  \/ sync.phase = "createSensor" /\ Object.triple = t
  \/ sync.phase = "sensors" /\ \E i \in sync.next .. Len(Object.sensors) :
       Object.sensors[i] = t

GroupAwaited(id) ==
  \/ sync.phase = "createNested" /\ Object.groups[sync.next] = id
  \/ sync.phase = "createGroup" /\ Object.id = id

----------------------------------------------------------------------------
(* Documents.  The definitions named ...Wrong are slips a change of the     *)
(* code could make; no action uses them, and a property notices each.       *)

\* Nothing left out.
noneSkippedWrong(triple) == FALSE

\* getAndCreateGroupSensorIds leaves out a sensor without a valueFragmentType.
skipped(triple) == triple \in Bare

\* A look-up by a field that is not stored: it returns nothing.
unmatchedWrong(triples) == {}

\* findOne and findManyByFilterQuery of SensorsService; the collation of the
\* schema compares without case.
sensorsLike(triples) ==
  {i \in Sensors : \E t \in triples : CaseOf[sensor[i]] = CaseOf[t]}

\* A look-up without the id: it returns any group.
anyGroupWrong(id) == Groups

\* findOne of GroupsService.
groupsLike(id) == {g \in Groups : group[g].id = id}

\* The sensors replaced, not merged.
replacedWrong(g, sensors) == [g EXCEPT !.sensors = sensors]

\* updateGroups: $addToSet.  The operator for the groups stands inside the one
\* for the sensors, of which only $each is read: groups are never added.
withSensors(g, sensors) == [g EXCEPT !.sensors = @ \cup sensors]

----------------------------------------------------------------------------
Init ==
  /\ sensor = <<>> /\ group = <<>>
  /\ goneSensors = {} /\ goneGroups = {}
  /\ queue = <<>>
  /\ sync = Idle
  /\ sent = 0 /\ calls = 0 /\ crashes = 0
  /\ twins = [sensors |-> {}, groups |-> {}]
  /\ removed = [sensors |-> {}, groups |-> {}]

\* The data-service reports what it has found.
SendObjects(m) ==
  /\ sent < MaxMessages
  /\ sent' = sent + 1
  /\ queue' = Append(queue, m)
  /\ UNCHANGED <<sensor, group, goneSensors, goneGroups, sync, calls, crashes,
                 twins, removed>>

----------------------------------------------------------------------------
(* handleStatusMessage.                                                    *)

StartMessage ==
  /\ sync.phase = "idle" /\ queue # <<>>
  /\ sync' = [Idle EXCEPT !.phase = IF Head(queue) = <<>> THEN "applied" ELSE "objects"]
  /\ removed' = [sensors |-> {}, groups |-> {}]
  /\ UNCHANGED <<sensor, group, goneSensors, goneGroups, queue, sent, calls,
                 crashes, twins>>

\* A sensor: one that exists is skipped...
FindSensor ==
  /\ sync.phase = "objects" /\ Object.type = "SENSOR"
  /\ sync' = IF sensorsLike({Object.triple}) # {}
             THEN ObjectDone
             ELSE [sync EXCEPT !.phase = "createSensor"]
  /\ UNCHANGED <<sensor, group, goneSensors, goneGroups, queue, sent, calls,
                 crashes, twins, removed>>

\* ...and one that does not is created.
CreateSensor ==
  /\ sync.phase = "createSensor"
  /\ sensor' = Append(sensor, Object.triple)
  /\ sync' = ObjectDone
  /\ UNCHANGED <<group, goneSensors, goneGroups, queue, sent, calls, crashes,
                 twins, removed>>

\* saveGroup, getAndCreateGroupSensorIds: one look-up for all sensors.
FindGroupSensors ==
  /\ sync.phase = "objects" /\ Object.type = "GROUP"
  /\ sync' = AfterSensors([sync EXCEPT !.phase = "sensors",
       !.found = {<<i, sensor[i]>> : i \in
                    sensorsLike({Object.sensors[k] : k \in DOMAIN Object.sensors})}])
  /\ UNCHANGED <<sensor, group, goneSensors, goneGroups, queue, sent, calls,
                 crashes, twins, removed>>

\* The sensors one by one: one that was found is taken as it is, compared with
\* case; of the others those with a valueFragmentType are created.
TakeGroupSensor ==
  LET triple == Object.sensors[sync.next]
      known  == {i \in DOMAIN sensor : <<i, triple>> \in sync.found}
      take(ids) == sync' = AfterSensors([sync EXCEPT !.next = @ + 1,
                                                     !.sensors = @ \cup ids])
  IN
  /\ sync.phase = "sensors"
  /\ \/ /\ \E i \in known : take({i})
        /\ UNCHANGED <<sensor, twins>>
     \/ /\ known = {} /\ skipped(triple)
        /\ take({})
        /\ UNCHANGED <<sensor, twins>>
     \/ /\ known = {} /\ ~skipped(triple)
        /\ take({Len(sensor) + 1})
        /\ sensor' = Append(sensor, triple)
        /\ twins' = IF \E i \in 1 .. (sync.next - 1) : Object.sensors[i] = triple
                    THEN [twins EXCEPT !.sensors = @ \cup {triple}] ELSE twins
  /\ UNCHANGED <<group, goneSensors, goneGroups, queue, sent, calls, crashes, removed>>

\* getAndCreateNestedGroupIds, the groups one by one: one that exists is taken...
FindNestedGroup ==
  LET known == groupsLike(Object.groups[sync.next]) IN
  /\ sync.phase = "groups"
  /\ \/ \E g \in known :
          sync' = AfterGroups([sync EXCEPT !.next = @ + 1, !.groups = @ \cup {g}])
     \/ known = {} /\ sync' = [sync EXCEPT !.phase = "createNested"]
  /\ UNCHANGED <<sensor, group, goneSensors, goneGroups, queue, sent, calls,
                 crashes, twins, removed>>

\* ...and another is created, with nothing in it.
CreateNestedGroup ==
  /\ sync.phase = "createNested"
  /\ group' = Append(group, [id |-> Object.groups[sync.next], sensors |-> {},
                             groups |-> {}])
  /\ sync' = AfterGroups([sync EXCEPT !.next = @ + 1, !.groups = @ \cup {Len(group) + 1}])
  /\ UNCHANGED <<sensor, goneSensors, goneGroups, queue, sent, calls, crashes,
                 twins, removed>>

\* The group itself.
FindGroup ==
  LET known == groupsLike(Object.id) IN
  /\ sync.phase = "findGroup"
  /\ \/ \E g \in known : sync' = [sync EXCEPT !.phase = "updateGroup", !.target = g]
     \/ known = {} /\ sync' = [sync EXCEPT !.phase = "createGroup"]
  /\ UNCHANGED <<sensor, group, goneSensors, goneGroups, queue, sent, calls,
                 crashes, twins, removed>>

\* updateGroups: findByIdAndUpdate; one that is gone by now is passed over.
UpdateGroup ==
  /\ sync.phase = "updateGroup"
  /\ group' = [g \in DOMAIN group |-> IF g = sync.target /\ g \in Groups
                                      THEN withSensors(group[g], sync.sensors)
                                      ELSE group[g]]
  /\ sync' = ObjectDone
  /\ UNCHANGED <<sensor, goneSensors, goneGroups, queue, sent, calls, crashes,
                 twins, removed>>

\* updateGroups drops an update that fails, and the handler goes on.
FailUpdate ==
  /\ sync.phase = "updateGroup"
  /\ sync' = ObjectDone
  /\ removed' = [removed EXCEPT !.groups = @ \cup {Object.id}]
  /\ UNCHANGED <<sensor, group, goneSensors, goneGroups, queue, sent, calls, crashes,
                 twins>>

\* mapAndCreateGroup
CreateGroup ==
  /\ sync.phase = "createGroup"
  /\ group' = Append(group, [id |-> Object.id, sensors |-> sync.sensors,
                             groups |-> sync.groups])
  /\ sync' = ObjectDone
  /\ UNCHANGED <<sensor, goneSensors, goneGroups, queue, sent, calls, crashes,
                 twins, removed>>

Ack ==
  /\ sync.phase = "applied"
  /\ queue' = Tail(queue)
  /\ sync' = Idle
  /\ UNCHANGED <<sensor, group, goneSensors, goneGroups, sent, calls, crashes,
                 twins, removed>>

\* A database call that fails: errorHandler only logs, the message stays in front.
Fail ==
  /\ queue # <<>> /\ sync.phase \notin {"applied", "blocked"}
  /\ sync' = [Idle EXCEPT !.phase = "blocked"]
  /\ UNCHANGED <<sensor, group, goneSensors, goneGroups, queue, sent, calls,
                 crashes, twins, removed>>

\* The broker delivers the unacknowledged message again, from its beginning.
Crash ==
  /\ crashes < MaxCrashes
  /\ crashes' = crashes + 1
  /\ sync' = Idle
  /\ UNCHANGED <<sensor, group, goneSensors, goneGroups, queue, sent, calls, twins,
                 removed>>

----------------------------------------------------------------------------
(* HTTP calls of administrators; each is one database call.                *)

\* A sensor comes to have triple t.
SecondSensor(t) == SensorAwaited(t) \/ \E i \in Sensors : sensor[i] = t

\* POST /sensors
PostSensor(t) ==
  /\ calls < MaxCalls /\ calls' = calls + 1
  /\ sensor' = Append(sensor, t)
  /\ twins' = IF SecondSensor(t) THEN [twins EXCEPT !.sensors = @ \cup {t}] ELSE twins
  /\ UNCHANGED <<group, goneSensors, goneGroups, queue, sync, sent, crashes, removed>>

\* PATCH /sensors and /sensors/:id; the fields of the triple may change.
PatchSensor(i, t) ==
  /\ calls < MaxCalls /\ calls' = calls + 1
  /\ i \in Sensors /\ sensor[i] # t
  /\ sensor' = [sensor EXCEPT ![i] = t]
  /\ twins' = IF SecondSensor(t) THEN [twins EXCEPT !.sensors = @ \cup {t}] ELSE twins
  /\ removed' = [removed EXCEPT !.sensors = @ \cup {CaseOf[sensor[i]]}]
  /\ UNCHANGED <<group, goneSensors, goneGroups, queue, sync, sent, crashes>>

\* DELETE /sensors/:id.  Groups keep its id.
DeleteSensor(i) ==
  /\ calls < MaxCalls /\ calls' = calls + 1
  /\ i \in Sensors
  /\ goneSensors' = goneSensors \cup {i}
  /\ removed' = [removed EXCEPT !.sensors = @ \cup {CaseOf[sensor[i]]}]
  /\ UNCHANGED <<sensor, group, goneGroups, queue, sync, sent, crashes, twins>>

\* POST /groups
PostGroup(id, sensors) ==
  /\ calls < MaxCalls /\ calls' = calls + 1
  /\ group' = Append(group, [id |-> id, sensors |-> sensors, groups |-> {}])
  /\ twins' = IF GroupAwaited(id) \/ groupsLike(id) # {}
              THEN [twins EXCEPT !.groups = @ \cup {id}] ELSE twins
  /\ UNCHANGED <<sensor, goneSensors, goneGroups, queue, sync, sent, crashes, removed>>

\* PATCH /groups
PatchGroup(g, sensors) ==
  /\ calls < MaxCalls /\ calls' = calls + 1
  /\ g \in Groups
  /\ group' = [group EXCEPT ![g] = withSensors(@, sensors)]
  /\ UNCHANGED <<sensor, goneSensors, goneGroups, queue, sync, sent, crashes, twins,
                 removed>>

\* DELETE /groups/:id
DeleteGroup(g) ==
  /\ calls < MaxCalls /\ calls' = calls + 1
  /\ g \in Groups
  /\ goneGroups' = goneGroups \cup {g}
  /\ removed' = [removed EXCEPT !.groups = @ \cup {group[g].id}]
  /\ UNCHANGED <<sensor, group, goneSensors, queue, sync, sent, crashes, twins>>

----------------------------------------------------------------------------
Next ==
  \/ \E m \in Message : SendObjects(m)
  \/ StartMessage
  \/ FindSensor
  \/ CreateSensor
  \/ FindGroupSensors
  \/ TakeGroupSensor
  \/ FindNestedGroup
  \/ CreateNestedGroup
  \/ FindGroup
  \/ UpdateGroup
  \/ FailUpdate
  \/ CreateGroup
  \/ Ack
  \/ Fail
  \/ Crash
  \/ \E t \in Triple \ Bare : PostSensor(t)
  \/ \E i \in DOMAIN sensor, t \in Triple \ Bare : PatchSensor(i, t)
  \/ \E i \in DOMAIN sensor : DeleteSensor(i)
  \/ \E id \in GroupMO, sensors \in SUBSET Sensors : PostGroup(id, sensors)
  \/ \E g \in DOMAIN group, sensors \in SUBSET Sensors : PatchGroup(g, sensors)
  \/ \E g \in DOMAIN group : DeleteGroup(g)

Spec == Init /\ [][Next]_vars

----------------------------------------------------------------------------
(* Properties.                                                             *)

TypeOK ==
  /\ sensor \in Seq(Triple \ Bare)
  /\ group \in Seq([id : GroupMO, sensors : SUBSET DOMAIN sensor,
                    groups : SUBSET DOMAIN group])
  /\ goneSensors \subseteq DOMAIN sensor
  /\ goneGroups \subseteq DOMAIN group
  /\ queue \in Seq(Message)
  /\ sync \in [phase : Phase, at : Nat \ {0}, next : Nat \ {0},
               found : SUBSET ((DOMAIN sensor) \X Triple),
               target : 0 .. Len(group), sensors : SUBSET DOMAIN sensor,
               groups : SUBSET DOMAIN group]
  /\ sync.phase \notin {"idle", "blocked"} => queue # <<>>
  /\ sent \in 0 .. MaxMessages /\ calls \in 0 .. MaxCalls
  /\ crashes \in 0 .. MaxCrashes
  /\ twins \in [sensors : SUBSET Triple, groups : SUBSET GroupMO]
  /\ removed \in [sensors : SUBSET Triple, groups : SUBSET GroupMO]

(* Messages never make a second sensor of a triple or a second group of an  *)
(* id, however often they are repeated or delivered again: what exists is   *)
(* used.  Exempt is what an HTTP call made or renamed beside an existing    *)
(* one or between the look-up and the creation, and what a group repeats.   *)
SyncMakesNoSecond ==
  /\ \A i, j \in Sensors :
       sensor[i] = sensor[j] => i = j \/ sensor[i] \in twins.sensors
  /\ \A g, h \in Groups :
       group[g].id = group[h].id => g = h \/ group[g].id \in twins.groups

Kept(t) == CaseOf[t] \notin removed.sensors

Synced(o) ==
  \/ o.type = "SENSOR" /\ (Kept(o.triple) => sensorsLike({o.triple}) # {})
  \/ /\ o.type = "GROUP"
     /\ o.id \in removed.groups \/ \E g \in groupsLike(o.id) :
          \A i \in DOMAIN o.sensors :
            o.sensors[i] \notin Bare /\ Kept(o.sensors[i]) =>
              \E s \in group[g].sensors \cap Sensors : sensor[s] = o.sensors[i]
     /\ \A i \in DOMAIN o.groups :
          o.groups[i] \notin removed.groups => groupsLike(o.groups[i]) # {}

(* When a message is applied, every sensor and group it reports exists, and *)
(* the groups hold the sensors it lists, unless they were removed or        *)
(* renamed meanwhile or the update of the group failed, which updateGroups  *)
(* drops: no other object of a message is passed over.                      *)
AppliedMessageIsSynced ==
  sync.phase = "applied" =>
    \A i \in DOMAIN Head(queue) : Synced(Head(queue)[i])

(* Updating a group merges: a group never loses a sensor or a group.        *)
GroupsOnlyGrow ==
  [][\A g \in DOMAIN group :
       /\ group[g].sensors \subseteq group'[g].sensors
       /\ group[g].groups \subseteq group'[g].groups]_vars
=============================================================================
