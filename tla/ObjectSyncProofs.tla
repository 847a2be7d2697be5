-------------------------- MODULE ObjectSyncProofs -------------------------
(***************************************************************************)
(* Theorems about ObjectSync, for any sensors, groups and messages, and    *)
(* any number of HTTP calls and restarts.                                  *)
(***************************************************************************)
EXTENDS ObjectSync, TLAPS

----------------------------------------------------------------------------
(* Types.                                                                  *)

\* The phases in which an object of the message is in work, and those for a group.
GroupPhase == {"sensors", "groups", "createNested", "findGroup", "updateGroup", "createGroup"}
Working    == GroupPhase \cup {"objects", "createSensor"}

\* The handler is at an object, a sensor and a group that are there.
Placed ==
  /\ sync.phase \in Working => sync.at \in DOMAIN Head(queue)
  /\ sync.phase = "objects" => sync.next = 1
  /\ sync.phase = "createSensor" => Object.type = "SENSOR"
  /\ sync.phase \in GroupPhase => Object.type = "GROUP"
  /\ sync.phase = "sensors" => sync.next \in DOMAIN Object.sensors
  /\ sync.phase \in {"groups", "createNested"} => sync.next \in DOMAIN Object.groups

TypeInv == TypeOK /\ Placed


\* The types of documents and of the handler, by the sensors and groups there are.
GroupDoc(s, g) == [id : GroupMO, sensors : SUBSET s, groups : SUBSET g]
SyncState(s, g) ==
  [phase : Phase, at : Nat \ {0}, next : Nat \ {0}, found : SUBSET (s \X Triple),
   target : {0} \cup g, sensors : SUBSET s, groups : SUBSET g]
Exempt == [sensors : SUBSET Triple, groups : SUBSET GroupMO]

LEMMA TypesGrow ==
  ASSUME NEW s, NEW g, NEW s2, NEW g2, s \subseteq s2, g \subseteq g2
  PROVE  /\ GroupDoc(s, g) \subseteq GroupDoc(s2, g2)
         /\ SyncState(s, g) \subseteq SyncState(s2, g2)
<1>1. GroupDoc(s, g) \subseteq GroupDoc(s2, g2)
  BY DEF GroupDoc
<1>2. SUBSET (s \X Triple) \subseteq SUBSET (s2 \X Triple)
  OBVIOUS
<1>3. SyncState(s, g) \subseteq SyncState(s2, g2)
  BY <1>2 DEF SyncState
<1> QED  BY <1>1, <1>3

\* A sequence is one of whatever its elements are.
LEMMA Retyped ==
  ASSUME NEW S, NEW T, NEW q \in Seq(S), \A i \in DOMAIN q : q[i] \in T
  PROVE  q \in Seq(T)
OBVIOUS

LEMMA AppendIs ==
  ASSUME NEW S, NEW q \in Seq(S), NEW e
  PROVE  /\ DOMAIN q = 1 .. Len(q) /\ Len(q) \in Nat
         /\ DOMAIN Append(q, e) = DOMAIN q \cup {Len(q) + 1}
         /\ Len(q) + 1 \notin DOMAIN q
         /\ \A i \in DOMAIN q : Append(q, e)[i] = q[i]
         /\ Append(q, e)[Len(q) + 1] = e
         /\ \A T : S \subseteq T /\ e \in T => Append(q, e) \in Seq(T)
<1>1. ASSUME NEW T, S \subseteq T, e \in T PROVE Append(q, e) \in Seq(T)
  <2>1. q \in Seq(T)
    BY <1>1
  <2> QED  BY <1>1, <2>1
<1> QED  BY <1>1

\* TypeOK in these terms.
Typed ==
  /\ sensor \in Seq(Triple \ Bare)
  /\ group \in Seq(GroupDoc(DOMAIN sensor, DOMAIN group))
  /\ goneSensors \subseteq DOMAIN sensor /\ goneGroups \subseteq DOMAIN group
  /\ queue \in Seq(Message)
  /\ sync \in SyncState(DOMAIN sensor, DOMAIN group)
  /\ sync.phase \notin {"idle", "blocked"} => queue # <<>>
  /\ sent \in 0 .. MaxMessages /\ calls \in 0 .. MaxCalls /\ crashes \in 0 .. MaxCrashes
  /\ twins \in Exempt /\ removed \in Exempt

LEMMA TypeParts == TypeOK <=> Typed
<1>1. ASSUME group \in Seq(GroupDoc(DOMAIN sensor, DOMAIN group))
      PROVE  0 .. Len(group) = {0} \cup DOMAIN group
  <2>1. DOMAIN group = 1 .. Len(group) /\ Len(group) \in Nat
    BY <1>1
  <2> QED  BY <2>1
<1> QED  BY <1>1 DEF Typed, TypeOK, GroupDoc, SyncState, Exempt

LEMMA TypePartsNext == TypeOK' <=> Typed'
BY TypeParts, PTL

\* The object in work is a sensor or a group.
LEMMA ObjectsAre ==
  ASSUME queue \in Seq(Message), queue # <<>>
  PROVE  /\ Head(queue) \in Message /\ 1 \in DOMAIN queue /\ Head(queue) = queue[1]
         /\ DOMAIN Head(queue) = 1 .. Len(Head(queue)) /\ Len(Head(queue)) \in Nat
         /\ \A k \in DOMAIN Head(queue) :
              \/ Head(queue)[k].type = "SENSOR" /\ Head(queue)[k] \in SensorObject
              \/ Head(queue)[k].type = "GROUP" /\ Head(queue)[k] \in GroupObject
<1>1. Head(queue) \in Message /\ 1 \in DOMAIN queue /\ Head(queue) = queue[1]
  OBVIOUS
<1>2. Head(queue) \in Seq(SensorObject \cup GroupObject)
  BY <1>1, MessageAssumption
<1>3. \A o \in SensorObject \cup GroupObject :
        \/ o.type = "SENSOR" /\ o \in SensorObject
        \/ o.type = "GROUP" /\ o \in GroupObject
  BY DEF SensorObject, GroupObject
<1>4. \A k \in DOMAIN Head(queue) : Head(queue)[k] \in SensorObject \cup GroupObject
  BY <1>2
<1> QED  BY <1>1, <1>2, <1>3, <1>4

\* On in the message: to its next object, or to its end.
LEMMA ObjectDoneIs ==
  ASSUME Typed, NEW S, NEW G, sync.phase \in Working, sync.at \in DOMAIN Head(queue)
  PROVE  /\ ObjectDone \in SyncState(S, G)
         /\ \/ ObjectDone.phase = "applied" /\ sync.at = Len(Head(queue))
            \/ /\ ObjectDone.phase = "objects" /\ ObjectDone.at = sync.at + 1
               /\ ObjectDone.at \in DOMAIN Head(queue)
<1>1. queue # <<>> /\ sync.at \in Nat \ {0}
  BY DEF Typed, SyncState, Working, GroupPhase
<1>2. DOMAIN Head(queue) = 1 .. Len(Head(queue)) /\ Len(Head(queue)) \in Nat
  BY <1>1, ObjectsAre DEF Typed
<1>3. CASE sync.at = Len(Head(queue))
  <2>1. ObjectDone = [Idle EXCEPT !.phase = "applied"]
    BY <1>3 DEF ObjectDone
  <2> QED  BY <1>3, <2>1 DEF Idle, SyncState, Phase
<1>4. CASE sync.at # Len(Head(queue))
  <2>1. ObjectDone = [Idle EXCEPT !.phase = "objects", !.at = sync.at + 1]
    BY <1>4 DEF ObjectDone
  <2>2. ObjectDone = [phase |-> "objects", at |-> sync.at + 1, next |-> 1, found |-> {},
                      target |-> 0, sensors |-> {}, groups |-> {}]
    BY <2>1 DEF Idle
  <2>3. sync.at + 1 \in Nat \ {0} /\ sync.at + 1 \in DOMAIN Head(queue)
    BY <1>1, <1>2, <1>4
  <2>4. ObjectDone \in SyncState(S, G)
    BY <2>2, <2>3 DEF SyncState, Phase
  <2> QED  BY <2>2, <2>3, <2>4
<1> QED  BY <1>3, <1>4

\* On in a group: to its next group, or to the group itself.
LEMMA AfterGroupsIs ==
  ASSUME NEW S, NEW G, NEW s \in SyncState(S, G), Object \in GroupObject
  PROVE  /\ AfterGroups(s) \in SyncState(S, G)
         /\ AfterGroups(s).at = s.at /\ AfterGroups(s).next = s.next
         /\ AfterGroups(s).sensors = s.sensors /\ AfterGroups(s).groups = s.groups
         /\ \/ AfterGroups(s).phase = "findGroup" /\ s.next > Len(Object.groups)
            \/ AfterGroups(s).phase = "groups" /\ s.next \in DOMAIN Object.groups
<1>1. /\ Object.groups \in Seq(GroupMO) /\ s.next \in Nat \ {0}
      /\ DOMAIN Object.groups = 1 .. Len(Object.groups) /\ Len(Object.groups) \in Nat
  BY DEF GroupObject, SyncState
<1>2. CASE s.next > Len(Object.groups)
  <2>1. AfterGroups(s) = [s EXCEPT !.phase = "findGroup"]
    BY <1>2 DEF AfterGroups
  <2> QED  BY <1>2, <2>1 DEF SyncState, Phase
<1>3. CASE ~(s.next > Len(Object.groups))
  <2>1. AfterGroups(s) = [s EXCEPT !.phase = "groups"]
    BY <1>3 DEF AfterGroups
  <2> QED  BY <1>1, <1>3, <2>1 DEF SyncState, Phase
<1> QED  BY <1>2, <1>3

\* To its next sensor, or to its groups.
LEMMA AfterSensorsIs ==
  ASSUME NEW S, NEW G, NEW s \in SyncState(S, G), Object \in GroupObject,
         s.phase = "sensors"
  PROVE  /\ AfterSensors(s) \in SyncState(S, G)
         /\ AfterSensors(s).at = s.at
         /\ AfterSensors(s).sensors = s.sensors /\ AfterSensors(s).groups = s.groups
         /\ \/ /\ AfterSensors(s) = s /\ s.next \in DOMAIN Object.sensors
            \/ /\ s.next > Len(Object.sensors) /\ AfterSensors(s).next = 1
               /\ \/ AfterSensors(s).phase = "findGroup" /\ Object.groups = <<>>
                  \/ AfterSensors(s).phase = "groups" /\ 1 \in DOMAIN Object.groups
<1>1. /\ Object.sensors \in Seq(Triple) /\ s.next \in Nat \ {0}
      /\ DOMAIN Object.sensors = 1 .. Len(Object.sensors) /\ Len(Object.sensors) \in Nat
      /\ Object.groups \in Seq(GroupMO)
  BY DEF GroupObject, SyncState
<1>2. CASE s.next > Len(Object.sensors)
  <2> DEFINE r == [s EXCEPT !.next = 1]
  <2>1. AfterSensors(s) = AfterGroups(r)
    BY <1>2 DEF AfterSensors
  <2>2. /\ r \in SyncState(S, G) /\ r.next = 1 /\ r.at = s.at /\ r.sensors = s.sensors
        /\ r.groups = s.groups
    BY DEF SyncState
  <2> HIDE DEF r
  <2>3. 1 > Len(Object.groups) => Object.groups = <<>>
    BY <1>1
  <2> QED  BY <1>2, <2>1, <2>2, <2>3, AfterGroupsIs
<1>3. CASE ~(s.next > Len(Object.sensors))
  <2>1. AfterSensors(s) = s
    BY <1>3 DEF AfterSensors
  <2> QED  BY <1>1, <1>3, <2>1
<1> QED  BY <1>2, <1>3

\* Where the handler is.
LEMMA PlacedIs ==
  ASSUME Typed, Placed, sync.phase \in Working
  PROVE  /\ queue # <<>> /\ sync.at \in DOMAIN Head(queue) /\ sync.at \in Nat
         /\ Object.type \in {"SENSOR", "GROUP"}
         /\ Object.type = "SENSOR" => Object \in SensorObject
         /\ Object.type = "GROUP" => Object \in GroupObject
<1>1. queue # <<>>
  BY DEF Typed, Working, GroupPhase
<1>2. sync.at \in DOMAIN Head(queue)
  BY DEF Placed
<1>3. \/ Object.type = "SENSOR" /\ Object \in SensorObject
      \/ Object.type = "GROUP" /\ Object \in GroupObject
  BY <1>1, <1>2, ObjectsAre DEF Typed, Object
<1> QED  BY <1>1, <1>2, <1>3 DEF Typed, SyncState

----------------------------------------------------------------------------
(* The steps through a group.                                              *)

\* The handler goes to what follows the sensor, or the group, in work.
AtGroups ==
  /\ sync'.next = 1
  /\ \/ sync'.phase = "findGroup" /\ Object.groups = <<>>
     \/ sync'.phase = "groups" /\ 1 \in DOMAIN Object.groups

TakenSensors(ids) ==
  /\ sync'.at = sync.at /\ sync'.sensors = sync.sensors \cup ids
  /\ \/ /\ sync'.phase = "sensors" /\ sync'.next = sync.next + 1
        /\ sync'.next \in DOMAIN Object.sensors /\ sync'.found = sync.found
     \/ sync.next = Len(Object.sensors) /\ AtGroups

TakenGroup ==
  /\ sync'.at = sync.at /\ sync'.sensors = sync.sensors
  /\ \/ /\ sync'.phase = "groups" /\ sync'.next = sync.next + 1
        /\ sync'.next \in DOMAIN Object.groups
     \/ sync'.phase = "findGroup" /\ sync.next = Len(Object.groups)

Looked ==
  {<<i, sensor[i]>> : i \in sensorsLike({Object.sensors[k] : k \in DOMAIN Object.sensors})}

LEMMA LookedIs ==
  ASSUME Typed, Placed, FindGroupSensors
  PROVE  /\ Object \in GroupObject /\ sync.phase = "objects"
         /\ sync' \in SyncState(DOMAIN sensor, DOMAIN group) /\ sync'.at = sync.at
         /\ \/ /\ sync'.phase = "sensors" /\ sync'.next = 1 /\ sync'.found = Looked
               /\ 1 \in DOMAIN Object.sensors
            \/ Object.sensors = <<>> /\ AtGroups
<1> DEFINE s == [sync EXCEPT !.phase = "sensors", !.found = Looked]
<1>1. /\ sync.phase = "objects" /\ Object.type = "GROUP" /\ sync' = AfterSensors(s)
  BY DEF FindGroupSensors, Looked
<1>2. Object \in GroupObject /\ sync.next = 1
  BY <1>1, PlacedIs DEF Working, Placed
<1>3. Looked \in SUBSET ((DOMAIN sensor) \X Triple)
  <2>1. sensorsLike({Object.sensors[k] : k \in DOMAIN Object.sensors}) \subseteq DOMAIN sensor
    BY DEF sensorsLike, Sensors
  <2>2. \A i \in DOMAIN sensor : sensor[i] \in Triple
    BY DEF Typed
  <2>3. ASSUME NEW p \in Looked PROVE p \in (DOMAIN sensor) \X Triple
    <3>1. PICK i \in DOMAIN sensor : p = <<i, sensor[i]>>
      BY <2>1 DEF Looked
    <3> QED  BY <2>2, <3>1
  <2> QED  BY <2>3
<1>4. /\ s \in SyncState(DOMAIN sensor, DOMAIN group) /\ s.phase = "sensors"
      /\ s.found = Looked /\ s.at = sync.at /\ s.next = 1
  BY <1>2, <1>3 DEF Typed, SyncState, Phase
<1> HIDE DEF s
<1>5. Object.sensors \in Seq(Triple)
  BY <1>2 DEF GroupObject
<1>6. 1 > Len(Object.sensors) => Object.sensors = <<>>
  BY <1>5
<1> QED  BY <1>1, <1>2, <1>4, <1>6, AfterSensorsIs DEF AtGroups

\* The handler's state after a sensor.
LEMMA TakeMoves ==
  ASSUME Typed, Placed, sync.phase = "sensors", NEW S, DOMAIN sensor \subseteq S,
         NEW ids \in SUBSET S,
         sync' = AfterSensors([sync EXCEPT !.next = @ + 1, !.sensors = @ \cup ids])
  PROVE  /\ sync' \in SyncState(S, DOMAIN group) /\ TakenSensors(ids)
<1> DEFINE s == [sync EXCEPT !.next = sync.next + 1, !.sensors = sync.sensors \cup ids]
<1>1. sync' = AfterSensors(s)
  OBVIOUS
<1>2. Object \in GroupObject /\ sync.next \in DOMAIN Object.sensors
  BY PlacedIs DEF Placed, Working, GroupPhase
<1>3. sync \in SyncState(S, DOMAIN group)
  BY TypesGrow DEF Typed
<1>4. /\ s \in SyncState(S, DOMAIN group) /\ s.phase = "sensors" /\ s.at = sync.at
      /\ s.found = sync.found /\ s.next = sync.next + 1 /\ s.sensors = sync.sensors \cup ids
  <2>1. sync.next + 1 \in Nat \ {0} /\ sync.sensors \cup ids \in SUBSET S
    BY <1>3 DEF SyncState
  <2> QED  BY <1>3, <2>1 DEF SyncState
<1> HIDE DEF s
<1>5. /\ Object.sensors \in Seq(Triple) /\ sync.next \in Nat
  BY <1>2, <1>3 DEF GroupObject, SyncState
<1>6. s.next > Len(Object.sensors) => sync.next = Len(Object.sensors)
  BY <1>2, <1>4, <1>5
<1> QED  BY <1>1, <1>2, <1>4, <1>6, AfterSensorsIs DEF TakenSensors, AtGroups

\* A sensor that was found is taken, one without a valueFragmentType left out, and
\* another created.
LEMMA TakeIs ==
  ASSUME Typed, Placed, TakeGroupSensor
  PROVE  LET triple == Object.sensors[sync.next] IN
         /\ sync.phase = "sensors" /\ Object \in GroupObject
         /\ sync.next \in DOMAIN Object.sensors /\ triple \in Triple
         /\ UNCHANGED <<group, goneSensors, goneGroups, queue, sent, calls, crashes, removed>>
         /\ sync' \in SyncState(DOMAIN sensor', DOMAIN group)
         /\ \/ /\ \E i \in DOMAIN sensor : <<i, triple>> \in sync.found /\ TakenSensors({i})
               /\ UNCHANGED <<sensor, twins>>
            \/ /\ triple \in Bare /\ TakenSensors({})
               /\ UNCHANGED <<sensor, twins>>
            \/ /\ triple \notin Bare /\ TakenSensors({Len(sensor) + 1})
               /\ \A i \in DOMAIN sensor : <<i, triple>> \notin sync.found
               /\ sensor' = Append(sensor, triple)
               /\ twins' = IF \E i \in 1 .. (sync.next - 1) : Object.sensors[i] = triple
                           THEN [twins EXCEPT !.sensors = @ \cup {triple}] ELSE twins
<1> DEFINE triple == Object.sensors[sync.next]
           known == {i \in DOMAIN sensor : <<i, triple>> \in sync.found}
<1>1. /\ sync.phase = "sensors"
      /\ UNCHANGED <<group, goneSensors, goneGroups, queue, sent, calls, crashes, removed>>
  BY DEF TakeGroupSensor
<1>2. Object \in GroupObject /\ sync.next \in DOMAIN Object.sensors /\ triple \in Triple
  <2>1. Object \in GroupObject /\ sync.next \in DOMAIN Object.sensors
    BY <1>1, PlacedIs DEF Placed, Working, GroupPhase
  <2> QED  BY <2>1 DEF GroupObject
<1>3. CASE /\ \E i \in known : sync' = AfterSensors([sync EXCEPT !.next = @ + 1,
                                                         !.sensors = @ \cup {i}])
           /\ UNCHANGED <<sensor, twins>>
  <2>1. PICK i \in known : sync' = AfterSensors([sync EXCEPT !.next = @ + 1,
                                                         !.sensors = @ \cup {i}])
    BY <1>3
  <2>2. {i} \in SUBSET DOMAIN sensor /\ <<i, triple>> \in sync.found
    BY <2>1
  <2>3. sync' \in SyncState(DOMAIN sensor, DOMAIN group) /\ TakenSensors({i})
    BY <1>1, <2>1, <2>2, TakeMoves
  <2> QED  BY <1>1, <1>2, <1>3, <2>2, <2>3
<1>4. CASE /\ triple \in Bare
           /\ sync' = AfterSensors([sync EXCEPT !.next = @ + 1, !.sensors = @ \cup {}])
           /\ UNCHANGED <<sensor, twins>>
  <2>1. sync' \in SyncState(DOMAIN sensor, DOMAIN group) /\ TakenSensors({})
    BY <1>1, <1>4, TakeMoves
  <2> QED  BY <1>1, <1>2, <1>4, <2>1
<1>5. CASE /\ known = {} /\ triple \notin Bare
           /\ sync' = AfterSensors([sync EXCEPT !.next = @ + 1,
                                                !.sensors = @ \cup {Len(sensor) + 1}])
           /\ sensor' = Append(sensor, triple)
           /\ twins' = IF \E i \in 1 .. (sync.next - 1) : Object.sensors[i] = triple
                       THEN [twins EXCEPT !.sensors = @ \cup {triple}] ELSE twins
  <2>1. DOMAIN sensor' = DOMAIN sensor \cup {Len(sensor) + 1}
    BY <1>5, AppendIs DEF Typed
  <2>2. sync' \in SyncState(DOMAIN sensor', DOMAIN group) /\ TakenSensors({Len(sensor) + 1})
    BY <1>1, <1>5, <2>1, TakeMoves
  <2> QED  BY <1>1, <1>2, <1>5, <2>2
<1> QED  BY <1>3, <1>4, <1>5 DEF TakeGroupSensor, skipped

\* The handler's state after a group in the group.
LEMMA NestedMoves ==
  ASSUME Typed, Placed, sync.phase \in {"groups", "createNested"}, NEW G,
         DOMAIN group \subseteq G, NEW n \in G,
         sync' = AfterGroups([sync EXCEPT !.next = @ + 1, !.groups = @ \cup {n}])
  PROVE  sync' \in SyncState(DOMAIN sensor, G) /\ TakenGroup
<1> DEFINE s == [sync EXCEPT !.next = sync.next + 1, !.groups = sync.groups \cup {n}]
<1>1. sync' = AfterGroups(s)
  OBVIOUS
<1>2. Object \in GroupObject /\ sync.next \in DOMAIN Object.groups
  BY PlacedIs DEF Placed, Working, GroupPhase
<1>3. sync \in SyncState(DOMAIN sensor, G)
  BY TypesGrow DEF Typed
<1>4. /\ s \in SyncState(DOMAIN sensor, G) /\ s.at = sync.at
      /\ s.next = sync.next + 1 /\ s.sensors = sync.sensors
  <2>1. sync.next + 1 \in Nat \ {0} /\ sync.groups \cup {n} \in SUBSET G
    BY <1>3 DEF SyncState
  <2> QED  BY <1>3, <2>1 DEF SyncState
<1> HIDE DEF s
<1>5. Object.groups \in Seq(GroupMO) /\ sync.next \in Nat
  BY <1>2, <1>3 DEF GroupObject, SyncState
<1>6. s.next > Len(Object.groups) => sync.next = Len(Object.groups)
  BY <1>2, <1>4, <1>5
<1> QED  BY <1>1, <1>2, <1>4, <1>6, AfterGroupsIs DEF TakenGroup

----------------------------------------------------------------------------
(* The type invariant.                                                     *)

LEMMA TypeInit == Init => TypeInv
<1> SUFFICES ASSUME Init PROVE TypeInv  OBVIOUS
<1>1. sync \in SyncState(DOMAIN sensor, DOMAIN group) /\ sync.phase = "idle"
  BY DEF Init, Idle, SyncState, Phase
<1>2. sensor = <<>> /\ group = <<>> /\ queue = <<>>
  BY DEF Init
<1>3. twins \in Exempt /\ removed \in Exempt
  BY DEF Init, Exempt
<1>4. Typed
  BY <1>1, <1>2, <1>3, BoundAssumption DEF Init, Typed
<1>5. Placed
  BY <1>1 DEF Placed, Working, GroupPhase
<1> QED  BY <1>4, <1>5, TypeParts DEF TypeInv

\* While the handler stays where it is, so does the object in work.
LEMMA SameObject ==
  ASSUME Typed, sync.phase \in Working, sync'.at = sync.at,
         queue' = queue \/ \E m \in Message : queue' = Append(queue, m)
  PROVE  Head(queue') = Head(queue) /\ Object' = Object
<1>1. queue # <<>> /\ queue \in Seq(Message)
  BY DEF Typed, Working, GroupPhase
<1>2. Head(queue') = Head(queue)
  BY <1>1
<1> QED  BY <1>2 DEF Object

LEMMA PlacedStays ==
  ASSUME Typed, Placed, sync' = sync,
         queue' = queue \/ \E m \in Message : queue' = Append(queue, m)
  PROVE  Placed'
<1>1. CASE sync.phase \in Working
  <2>1. Head(queue') = Head(queue) /\ Object' = Object
    BY <1>1, SameObject
  <2> QED  BY <2>1 DEF Placed
<1>2. CASE sync.phase \notin Working
  BY <1>2 DEF Placed, Working, GroupPhase
<1> QED  BY <1>1, <1>2

\* The types as the collections grow.
LEMMA SensorsGrow ==
  ASSUME Typed, sensor' \in Seq(Triple \ Bare), DOMAIN sensor \subseteq DOMAIN sensor'
  PROVE  /\ group \in Seq(GroupDoc(DOMAIN sensor', DOMAIN group))
         /\ sync \in SyncState(DOMAIN sensor', DOMAIN group)
<1>1. /\ GroupDoc(DOMAIN sensor, DOMAIN group) \subseteq GroupDoc(DOMAIN sensor', DOMAIN group)
      /\ SyncState(DOMAIN sensor, DOMAIN group) \subseteq SyncState(DOMAIN sensor', DOMAIN group)
  BY TypesGrow
<1>2. \A i \in DOMAIN group : group[i] \in GroupDoc(DOMAIN sensor', DOMAIN group)
  BY <1>1 DEF Typed
<1> QED  BY <1>1, <1>2, Retyped DEF Typed

LEMMA GroupAdded ==
  ASSUME Typed, NEW doc \in GroupDoc(DOMAIN sensor, DOMAIN group),
         group' = Append(group, doc)
  PROVE  /\ DOMAIN group' = DOMAIN group \cup {Len(group) + 1}
         /\ Len(group) + 1 \notin DOMAIN group
         /\ \A i \in DOMAIN group : group'[i] = group[i]
         /\ group'[Len(group) + 1] = doc
         /\ group' \in Seq(GroupDoc(DOMAIN sensor, DOMAIN group'))
         /\ sync \in SyncState(DOMAIN sensor, DOMAIN group')
<1>1. /\ DOMAIN group' = DOMAIN group \cup {Len(group) + 1}
      /\ Len(group) + 1 \notin DOMAIN group
      /\ \A i \in DOMAIN group : group'[i] = group[i]
      /\ group'[Len(group) + 1] = doc
  BY AppendIs DEF Typed
<1>2. /\ GroupDoc(DOMAIN sensor, DOMAIN group) \subseteq GroupDoc(DOMAIN sensor, DOMAIN group')
      /\ SyncState(DOMAIN sensor, DOMAIN group) \subseteq SyncState(DOMAIN sensor, DOMAIN group')
  BY <1>1, TypesGrow
<1>3. group' \in Seq(GroupDoc(DOMAIN sensor, DOMAIN group'))
  BY <1>2, AppendIs DEF Typed
<1> QED  BY <1>1, <1>2, <1>3 DEF Typed

LEMMA SensorAdded ==
  ASSUME Typed, NEW t \in Triple \ Bare, sensor' = Append(sensor, t)
  PROVE  /\ DOMAIN sensor' = DOMAIN sensor \cup {Len(sensor) + 1}
         /\ Len(sensor) + 1 \notin DOMAIN sensor
         /\ \A i \in DOMAIN sensor : sensor'[i] = sensor[i]
         /\ sensor'[Len(sensor) + 1] = t
         /\ sensor' \in Seq(Triple \ Bare)
BY AppendIs DEF Typed

\* Groups with more sensors are groups, and the others are as they were.
LEMMA GroupsExtended ==
  ASSUME Typed, NEW N \in SUBSET DOMAIN group, NEW sensors \in SUBSET DOMAIN sensor,
         group' = [k \in DOMAIN group |-> IF k \in N THEN withSensors(group[k], sensors)
                                                     ELSE group[k]]
  PROVE  /\ DOMAIN group' = DOMAIN group
         /\ group' \in Seq(GroupDoc(DOMAIN sensor, DOMAIN group'))
         /\ \A k \in DOMAIN group : /\ group'[k].id = group[k].id
                                    /\ group[k].sensors \subseteq group'[k].sensors
                                    /\ group[k].groups = group'[k].groups
         /\ \A k \in N : group'[k].sensors = group[k].sensors \cup sensors
<1>1. \A k \in DOMAIN group : group[k] \in GroupDoc(DOMAIN sensor, DOMAIN group)
  BY DEF Typed
<1>2. \A k \in DOMAIN group :
        LET d == withSensors(group[k], sensors) IN
        /\ d \in GroupDoc(DOMAIN sensor, DOMAIN group)
        /\ d.id = group[k].id /\ d.sensors = group[k].sensors \cup sensors
        /\ d.groups = group[k].groups
  BY <1>1 DEF withSensors, GroupDoc
<1>3. DOMAIN group = 1 .. Len(group) /\ Len(group) \in Nat
  BY DEF Typed
<1>4. group' \in [1 .. Len(group) -> GroupDoc(DOMAIN sensor, DOMAIN group)]
  BY <1>1, <1>2, <1>3
<1>5. DOMAIN group' = DOMAIN group /\ group' \in Seq(GroupDoc(DOMAIN sensor, DOMAIN group'))
  BY <1>3, <1>4
<1>6. \A k \in DOMAIN group : /\ group'[k].id = group[k].id
                              /\ group[k].sensors \subseteq group'[k].sensors
                              /\ group[k].groups = group'[k].groups
  BY <1>1, <1>2
<1>7. \A k \in N : group'[k].sensors = group[k].sensors \cup sensors
  BY <1>2
<1> QED  BY <1>5, <1>6, <1>7

\* The handler's steps.
LEMMA HandlerTypes ==
  ASSUME Typed, Placed,
         \/ StartMessage \/ FindSensor \/ CreateSensor \/ FindGroupSensors
         \/ TakeGroupSensor \/ FindNestedGroup \/ CreateNestedGroup \/ FindGroup
         \/ UpdateGroup \/ FailUpdate \/ CreateGroup \/ Ack \/ Fail \/ Crash
  PROVE  Typed' /\ Placed'
<1> DEFINE S == DOMAIN sensor
           G == DOMAIN group
<1>1. /\ Idle \in SyncState(S, G)
      /\ \A p \in Phase : LET s == [Idle EXCEPT !.phase = p] IN
           s \in SyncState(S, G) /\ s.phase = p /\ s.at = 1 /\ s.next = 1
  BY DEF Idle, SyncState, Phase
<1>2. sync.phase \in Working => queue # <<>> /\ sync.at \in DOMAIN Head(queue)
  BY PlacedIs
<1>3. CASE StartMessage
  <2>1. /\ queue # <<>> /\ UNCHANGED <<sensor, group, goneSensors, goneGroups, queue, sent,
                                       calls, crashes, twins>>
        /\ removed' = [sensors |-> {}, groups |-> {}]
        /\ sync' = [Idle EXCEPT !.phase = IF Head(queue) = <<>> THEN "applied" ELSE "objects"]
    BY <1>3 DEF StartMessage
  <2>2. /\ sync' \in SyncState(S, G) /\ sync'.at = 1 /\ sync'.next = 1
        /\ sync'.phase = IF Head(queue) = <<>> THEN "applied" ELSE "objects"
    BY <1>1, <2>1 DEF Phase
  <2>3. Head(queue) # <<>> => 1 \in DOMAIN Head(queue)
    <3>1. Head(queue) \in Seq(SensorObject \cup GroupObject)
      BY <2>1, ObjectsAre, MessageAssumption DEF Typed
    <3> QED  BY <3>1
  <2>4. removed' \in Exempt
    BY <2>1 DEF Exempt
  <2>5. Typed'
    BY <2>1, <2>2, <2>4 DEF Typed
  <2>6. Placed'
    BY <2>1, <2>2, <2>3 DEF Placed, Working, GroupPhase
  <2> QED  BY <2>5, <2>6
<1>4. ASSUME sync.phase \in Working, sync' = ObjectDone, queue' = queue,
             UNCHANGED <<goneSensors, goneGroups, sent, calls, crashes, twins>>,
             sensor' \in Seq(Triple \ Bare), S \subseteq DOMAIN sensor',
             group' \in Seq(GroupDoc(DOMAIN sensor', DOMAIN group')), G \subseteq DOMAIN group',
             removed' \in Exempt
      PROVE  Typed' /\ Placed'
  <2>1. /\ sync' \in SyncState(DOMAIN sensor', DOMAIN group')
        /\ \/ sync'.phase = "applied"
           \/ /\ sync'.phase = "objects" /\ sync'.at \in DOMAIN Head(queue)
    BY <1>2, <1>4, ObjectDoneIs
  <2>2. sync'.phase = "objects" => sync'.next = 1
    BY <1>4 DEF ObjectDone, Idle
  <2>3. Typed'
    BY <1>2, <1>4, <2>1 DEF Typed
  <2>4. Placed'
    BY <1>4, <2>1, <2>2 DEF Placed, Working, GroupPhase
  <2> QED  BY <2>3, <2>4
<1>5. CASE FindSensor
  <2>1. /\ sync.phase = "objects" /\ Object.type = "SENSOR"
        /\ UNCHANGED <<sensor, group, goneSensors, goneGroups, queue, sent, calls, crashes,
                       twins, removed>>
        /\ sync' = ObjectDone \/ sync' = [sync EXCEPT !.phase = "createSensor"]
    BY <1>5 DEF FindSensor
  <2>2. CASE sync' = ObjectDone
    BY <1>4, <2>1, <2>2 DEF Typed, Working
  <2>3. CASE sync' = [sync EXCEPT !.phase = "createSensor"]
    <3>1. sync' \in SyncState(S, G) /\ sync'.phase = "createSensor" /\ sync'.at = sync.at
      BY <2>3 DEF Typed, SyncState, Phase
    <3>2. Typed' /\ Object' = Object
      BY <1>2, <2>1, <3>1 DEF Typed, Working, Object
    <3> QED  BY <1>2, <2>1, <3>1, <3>2 DEF Placed, Working, GroupPhase
  <2> QED  BY <2>1, <2>2, <2>3
<1>6. CASE CreateSensor
  <2>1. /\ sync.phase = "createSensor" /\ sensor' = Append(sensor, Object.triple)
        /\ sync' = ObjectDone
        /\ UNCHANGED <<group, goneSensors, goneGroups, queue, sent, calls, crashes, twins,
                       removed>>
    BY <1>6 DEF CreateSensor
  <2>2. Object.triple \in Triple \ Bare
    BY <2>1, PlacedIs DEF Placed, Working, SensorObject
  <2>3. sensor' \in Seq(Triple \ Bare) /\ S \subseteq DOMAIN sensor'
    BY <2>1, <2>2, SensorAdded
  <2>4. group' \in Seq(GroupDoc(DOMAIN sensor', DOMAIN group')) /\ removed' \in Exempt
    BY <2>1, <2>3, SensorsGrow DEF Typed
  <2> QED  BY <1>4, <2>1, <2>3, <2>4 DEF Working
<1>7. CASE FindGroupSensors
  <2>1. UNCHANGED <<sensor, group, goneSensors, goneGroups, queue, sent, calls, crashes, twins,
                    removed>>
    BY <1>7 DEF FindGroupSensors
  <2>2. /\ Object \in GroupObject /\ sync.phase = "objects" /\ sync' \in SyncState(S, G)
        /\ sync'.at = sync.at
        /\ \/ sync'.phase = "sensors" /\ sync'.next = 1 /\ 1 \in DOMAIN Object.sensors
           \/ AtGroups
    BY <1>7, LookedIs
  <2>3. Object' = Object /\ Object.type = "GROUP"
    BY <2>1, <2>2 DEF Object, GroupObject
  <2>4. Typed'
    BY <1>2, <2>1, <2>2 DEF Typed, Working
  <2>5. Placed'
    BY <1>2, <2>1, <2>2, <2>3 DEF Placed, Working, GroupPhase, AtGroups
  <2> QED  BY <2>4, <2>5
<1>8. CASE TakeGroupSensor
  <2> DEFINE triple == Object.sensors[sync.next]
  <2>1. /\ UNCHANGED <<group, goneSensors, goneGroups, queue, sent, calls, crashes, removed>>
        /\ sync.phase = "sensors" /\ Object \in GroupObject /\ triple \in Triple
        /\ sync' \in SyncState(DOMAIN sensor', DOMAIN group)
        /\ \E ids : TakenSensors(ids)
        /\ sensor' = sensor \/ (triple \notin Bare /\ sensor' = Append(sensor, triple))
        /\ twins' = twins \/ twins' = [twins EXCEPT !.sensors = @ \cup {triple}]
    BY <1>8, TakeIs
  <2>2. sensor' \in Seq(Triple \ Bare) /\ S \subseteq DOMAIN sensor'
    BY <2>1, SensorAdded DEF Typed
  <2>3. group' \in Seq(GroupDoc(DOMAIN sensor', DOMAIN group'))
    BY <2>1, <2>2, SensorsGrow
  <2>4. twins' \in Exempt
    BY <2>1 DEF Typed, Exempt
  <2>5. /\ sync'.at = sync.at
        /\ \/ sync'.phase = "sensors" /\ sync'.next \in DOMAIN Object.sensors
           \/ AtGroups
    BY <2>1 DEF TakenSensors
  <2>6. Object' = Object /\ Object.type = "GROUP"
    BY <2>1, <2>5 DEF Object, GroupObject
  <2>7. Typed'
    BY <1>2, <2>1, <2>2, <2>3, <2>4 DEF Typed, Working, GroupPhase
  <2>8. Placed'
    BY <1>2, <2>1, <2>5, <2>6 DEF Placed, Working, GroupPhase, AtGroups
  <2> QED  BY <2>7, <2>8
<1>9. CASE FindNestedGroup
  <2>1. /\ sync.phase = "groups"
        /\ UNCHANGED <<sensor, group, goneSensors, goneGroups, queue, sent, calls, crashes,
                       twins, removed>>
        /\ \/ \E n \in G :
                sync' = AfterGroups([sync EXCEPT !.next = @ + 1, !.groups = @ \cup {n}])
           \/ sync' = [sync EXCEPT !.phase = "createNested"]
    BY <1>9 DEF FindNestedGroup, groupsLike, Groups
  <2>2. Object \in GroupObject /\ Object.type = "GROUP" /\ sync.next \in DOMAIN Object.groups
    BY <2>1, PlacedIs DEF Placed, Working, GroupPhase
  <2>3. /\ sync' \in SyncState(S, G) /\ sync'.at = sync.at
        /\ \/ sync'.phase \in {"groups", "createNested"} /\ sync'.next \in DOMAIN Object.groups
           \/ sync'.phase = "findGroup"
    <3>1. CASE \E n \in G :
                 sync' = AfterGroups([sync EXCEPT !.next = @ + 1, !.groups = @ \cup {n}])
      <4>1. sync' \in SyncState(S, G) /\ TakenGroup
        BY <2>1, <3>1, NestedMoves
      <4> QED  BY <4>1 DEF TakenGroup
    <3>2. CASE sync' = [sync EXCEPT !.phase = "createNested"]
      BY <2>2, <3>2 DEF Typed, SyncState, Phase
    <3> QED  BY <2>1, <3>1, <3>2
  <2>4. Object' = Object
    BY <2>1, <2>3 DEF Object
  <2>5. Typed'
    BY <1>2, <2>1, <2>3 DEF Typed, Working, GroupPhase
  <2>6. Placed'
    BY <1>2, <2>1, <2>2, <2>3, <2>4 DEF Placed, Working, GroupPhase
  <2> QED  BY <2>5, <2>6
<1>10. CASE CreateNestedGroup
  <2> DEFINE doc == [id |-> Object.groups[sync.next], sensors |-> {}, groups |-> {}]
             n == Len(group) + 1
  <2>1. /\ sync.phase = "createNested" /\ group' = Append(group, doc)
        /\ sync' = AfterGroups([sync EXCEPT !.next = @ + 1, !.groups = @ \cup {n}])
        /\ UNCHANGED <<sensor, goneSensors, goneGroups, queue, sent, calls, crashes, twins,
                       removed>>
    BY <1>10 DEF CreateNestedGroup
  <2>2. Object \in GroupObject /\ Object.type = "GROUP" /\ sync.next \in DOMAIN Object.groups
    BY <2>1, PlacedIs DEF Placed, Working, GroupPhase
  <2>3. doc \in GroupDoc(S, G)
    BY <2>2 DEF GroupDoc, GroupObject
  <2>4. /\ DOMAIN group' = G \cup {n} /\ group' \in Seq(GroupDoc(S, DOMAIN group'))
    BY <2>1, <2>3, GroupAdded
  <2>5. sync' \in SyncState(S, DOMAIN group') /\ TakenGroup
    BY <2>1, <2>4, NestedMoves
  <2>6. Object' = Object
    BY <2>1, <2>5 DEF Object, TakenGroup
  <2>7. Typed'
    BY <1>2, <2>1, <2>4, <2>5 DEF Typed, Working, GroupPhase
  <2>8. Placed'
    BY <1>2, <2>1, <2>2, <2>5, <2>6 DEF Placed, Working, GroupPhase, TakenGroup
  <2> QED  BY <2>7, <2>8
<1>11. CASE FindGroup
  <2>1. /\ sync.phase = "findGroup"
        /\ UNCHANGED <<sensor, group, goneSensors, goneGroups, queue, sent, calls, crashes,
                       twins, removed>>
        /\ \/ \E n \in G : sync' = [sync EXCEPT !.phase = "updateGroup", !.target = n]
           \/ sync' = [sync EXCEPT !.phase = "createGroup"]
    BY <1>11 DEF FindGroup, groupsLike, Groups
  <2>2. Object \in GroupObject /\ Object.type = "GROUP"
    BY <2>1, PlacedIs DEF Placed, Working, GroupPhase
  <2>3. /\ sync' \in SyncState(S, G) /\ sync'.at = sync.at
        /\ sync'.phase \in {"updateGroup", "createGroup"}
    BY <2>1 DEF Typed, SyncState, Phase
  <2>4. Object' = Object
    BY <2>1, <2>3 DEF Object
  <2>5. Typed'
    BY <1>2, <2>1, <2>3 DEF Typed, Working, GroupPhase
  <2>6. Placed'
    BY <1>2, <2>1, <2>2, <2>3, <2>4 DEF Placed, Working, GroupPhase
  <2> QED  BY <2>5, <2>6
<1>12. CASE UpdateGroup
  <2> DEFINE N == {sync.target} \cap Groups
  <2>1. /\ sync.phase = "updateGroup" /\ sync' = ObjectDone
        /\ group' = [k \in DOMAIN group |-> IF k \in N THEN withSensors(group[k], sync.sensors)
                                                       ELSE group[k]]
        /\ UNCHANGED <<sensor, goneSensors, goneGroups, queue, sent, calls, crashes, twins,
                       removed>>
    BY <1>12 DEF UpdateGroup
  <2>2. sync.sensors \in SUBSET S /\ N \in SUBSET G
    BY DEF Typed, SyncState, Groups
  <2>3. DOMAIN group' = G /\ group' \in Seq(GroupDoc(S, DOMAIN group'))
    BY <2>1, <2>2, GroupsExtended
  <2> QED  BY <1>4, <2>1, <2>3 DEF Typed, Working, GroupPhase
<1>13. CASE FailUpdate
  <2>1. /\ sync.phase = "updateGroup" /\ sync' = ObjectDone
        /\ UNCHANGED <<sensor, group, goneSensors, goneGroups, queue, sent, calls, crashes,
                       twins>>
        /\ removed' = [removed EXCEPT !.groups = @ \cup {Object.id}]
    BY <1>13 DEF FailUpdate
  <2>2. Object \in GroupObject
    BY <2>1, PlacedIs DEF Placed, Working, GroupPhase
  <2>3. removed' \in Exempt
    BY <2>1, <2>2 DEF Typed, Exempt, GroupObject
  <2> QED  BY <1>4, <2>1, <2>3 DEF Typed, Working, GroupPhase
<1>14. CASE CreateGroup
  <2> DEFINE doc == [id |-> Object.id, sensors |-> sync.sensors, groups |-> sync.groups]
  <2>1. /\ sync.phase = "createGroup" /\ sync' = ObjectDone /\ group' = Append(group, doc)
        /\ UNCHANGED <<sensor, goneSensors, goneGroups, queue, sent, calls, crashes, twins,
                       removed>>
    BY <1>14 DEF CreateGroup
  <2>2. Object \in GroupObject
    BY <2>1, PlacedIs DEF Placed, Working, GroupPhase
  <2>3. doc \in GroupDoc(S, G)
    BY <2>2 DEF Typed, GroupDoc, GroupObject, SyncState
  <2>4. G \subseteq DOMAIN group' /\ group' \in Seq(GroupDoc(S, DOMAIN group'))
    BY <2>1, <2>3, GroupAdded
  <2> QED  BY <1>4, <2>1, <2>4 DEF Typed, Working, GroupPhase
<1>15. CASE Ack
  <2>1. /\ sync.phase = "applied" /\ queue' = Tail(queue) /\ sync' = Idle
        /\ UNCHANGED <<sensor, group, goneSensors, goneGroups, sent, calls, crashes, twins,
                       removed>>
    BY <1>15 DEF Ack
  <2>2. queue' \in Seq(Message) /\ sync'.phase = "idle"
    BY <2>1 DEF Typed, Idle
  <2> QED  BY <1>1, <2>1, <2>2 DEF Typed, Placed, Working, GroupPhase
<1>16. CASE Fail
  <2>1. /\ queue # <<>> /\ sync' = [Idle EXCEPT !.phase = "blocked"]
        /\ UNCHANGED <<sensor, group, goneSensors, goneGroups, queue, sent, calls, crashes,
                       twins, removed>>
    BY <1>16 DEF Fail
  <2>2. sync' \in SyncState(S, G) /\ sync'.phase = "blocked"
    BY <1>1, <2>1 DEF Phase
  <2> QED  BY <2>1, <2>2 DEF Typed, Placed, Working, GroupPhase
<1>17. CASE Crash
  <2>1. /\ crashes' \in 0 .. MaxCrashes /\ sync' = Idle
        /\ UNCHANGED <<sensor, group, goneSensors, goneGroups, queue, sent, calls, twins,
                       removed>>
    BY <1>17, BoundAssumption DEF Crash, Typed
  <2>2. sync'.phase = "idle"
    BY <2>1 DEF Idle
  <2> QED  BY <1>1, <2>1, <2>2 DEF Typed, Placed, Working, GroupPhase
<1> QED
  BY <1>3, <1>5, <1>6, <1>7, <1>8, <1>9, <1>10, <1>11, <1>12, <1>13, <1>14, <1>15, <1>16,
     <1>17

\* What happens beside the handler.
LEMMA CallTypes ==
  ASSUME Typed, Placed,
         \/ \E m \in Message : SendObjects(m)
         \/ \E t \in Triple \ Bare : PostSensor(t)
         \/ \E i \in DOMAIN sensor, t \in Triple \ Bare : PatchSensor(i, t)
         \/ \E i \in DOMAIN sensor : DeleteSensor(i)
         \/ \E id \in GroupMO, sensors \in SUBSET Sensors : PostGroup(id, sensors)
         \/ \E n \in DOMAIN group, sensors \in SUBSET Sensors : PatchGroup(n, sensors)
         \/ \E n \in DOMAIN group : DeleteGroup(n)
  PROVE  /\ Typed' /\ Placed' /\ sync' = sync
         /\ queue' = queue \/ \E m \in Message : queue' = Append(queue, m)
<1>1. /\ sync' = sync /\ UNCHANGED <<crashes>>
      /\ queue' = queue \/ \E m \in Message : queue' = Append(queue, m)
  BY DEF SendObjects, PostSensor, PatchSensor, DeleteSensor, PostGroup, PatchGroup, DeleteGroup
<1>2. Placed'
  BY <1>1, PlacedStays
<1>3. ASSUME NEW m \in Message, SendObjects(m) PROVE Typed'
  <2>1. /\ queue' = Append(queue, m) /\ sent' \in 0 .. MaxMessages
        /\ UNCHANGED <<sensor, group, goneSensors, goneGroups, sync, calls, crashes, twins,
                       removed>>
    BY <1>3, BoundAssumption DEF SendObjects, Typed
  <2>2. queue' \in Seq(Message) /\ queue' # <<>>
    BY <2>1 DEF Typed
  <2> QED  BY <2>1, <2>2 DEF Typed
<1>4. calls < MaxCalls /\ calls' = calls + 1 /\ Typed => calls' \in 0 .. MaxCalls
  BY BoundAssumption DEF Typed
<1>5. ASSUME NEW t \in Triple \ Bare, PostSensor(t) PROVE Typed'
  <2>1. /\ calls' \in 0 .. MaxCalls /\ sensor' = Append(sensor, t)
        /\ twins' = [twins EXCEPT !.sensors = @ \cup {t}] \/ twins' = twins
        /\ UNCHANGED <<group, goneSensors, goneGroups, queue, sync, sent, crashes, removed>>
    BY <1>4, <1>5 DEF PostSensor
  <2>2. sensor' \in Seq(Triple \ Bare) /\ DOMAIN sensor \subseteq DOMAIN sensor'
    BY <2>1, SensorAdded
  <2>3. twins' \in Exempt
    BY <2>1 DEF Typed, Exempt
  <2> QED  BY <2>1, <2>2, <2>3, SensorsGrow DEF Typed
<1>6. ASSUME NEW i \in DOMAIN sensor, NEW t \in Triple \ Bare, PatchSensor(i, t)
      PROVE  Typed'
  <2>1. /\ calls' \in 0 .. MaxCalls /\ sensor' = [sensor EXCEPT ![i] = t]
        /\ twins' = [twins EXCEPT !.sensors = @ \cup {t}] \/ twins' = twins
        /\ removed' = [removed EXCEPT !.sensors = @ \cup {CaseOf[sensor[i]]}]
        /\ UNCHANGED <<group, goneSensors, goneGroups, queue, sync, sent, crashes>>
    BY <1>4, <1>6 DEF PatchSensor
  <2>2. sensor' \in Seq(Triple \ Bare) /\ DOMAIN sensor' = DOMAIN sensor
    BY <2>1 DEF Typed
  <2>3. CaseOf[sensor[i]] \in Triple
    BY CaseAssumption DEF Typed
  <2>4. \A c \in Triple : /\ [removed EXCEPT !.sensors = @ \cup {c}] \in Exempt
                          /\ [twins EXCEPT !.sensors = @ \cup {c}] \in Exempt
    BY DEF Typed, Exempt
  <2>5. twins' \in Exempt /\ removed' \in Exempt
    BY <2>1, <2>3, <2>4 DEF Typed
  <2> QED  BY <2>1, <2>2, <2>5, SensorsGrow DEF Typed
<1>7. ASSUME NEW i \in DOMAIN sensor, DeleteSensor(i) PROVE Typed'
  <2>1. /\ calls' \in 0 .. MaxCalls /\ goneSensors' = goneSensors \cup {i}
        /\ removed' = [removed EXCEPT !.sensors = @ \cup {CaseOf[sensor[i]]}]
        /\ UNCHANGED <<sensor, group, goneGroups, queue, sync, sent, crashes, twins>>
    BY <1>4, <1>7 DEF DeleteSensor
  <2>2. CaseOf[sensor[i]] \in Triple
    BY CaseAssumption DEF Typed
  <2>3. \A c \in Triple : [removed EXCEPT !.sensors = @ \cup {c}] \in Exempt
    BY DEF Typed, Exempt
  <2>4. removed' \in Exempt
    BY <2>1, <2>2, <2>3
  <2> QED  BY <2>1, <2>4 DEF Typed
<1>8. ASSUME NEW id \in GroupMO, NEW sensors \in SUBSET Sensors, PostGroup(id, sensors)
      PROVE  Typed'
  <2> DEFINE doc == [id |-> id, sensors |-> sensors, groups |-> {}]
  <2>1. /\ calls' \in 0 .. MaxCalls /\ group' = Append(group, doc)
        /\ twins' = [twins EXCEPT !.groups = @ \cup {id}] \/ twins' = twins
        /\ UNCHANGED <<sensor, goneSensors, goneGroups, queue, sync, sent, crashes, removed>>
    BY <1>4, <1>8 DEF PostGroup
  <2>2. doc \in GroupDoc(DOMAIN sensor, DOMAIN group)
    BY DEF GroupDoc, Sensors
  <2>3. /\ DOMAIN group \subseteq DOMAIN group'
        /\ group' \in Seq(GroupDoc(DOMAIN sensor, DOMAIN group'))
        /\ sync \in SyncState(DOMAIN sensor, DOMAIN group')
    BY <2>1, <2>2, GroupAdded
  <2>4. twins' \in Exempt
    BY <2>1 DEF Typed, Exempt
  <2> QED  BY <2>1, <2>3, <2>4 DEF Typed
<1>9. ASSUME NEW n \in DOMAIN group, NEW sensors \in SUBSET Sensors, PatchGroup(n, sensors)
      PROVE  Typed'
  <2>1. /\ calls' \in 0 .. MaxCalls
        /\ group' = [k \in DOMAIN group |-> IF k \in {n} THEN withSensors(group[k], sensors)
                                                         ELSE group[k]]
        /\ UNCHANGED <<sensor, goneSensors, goneGroups, queue, sync, sent, crashes, twins,
                       removed>>
    BY <1>4, <1>9 DEF PatchGroup
  <2>2. sensors \in SUBSET DOMAIN sensor
    BY DEF Sensors
  <2>3. DOMAIN group' = DOMAIN group /\ group' \in Seq(GroupDoc(DOMAIN sensor, DOMAIN group'))
    BY <2>1, <2>2, GroupsExtended
  <2> QED  BY <2>1, <2>3 DEF Typed
<1>10. ASSUME NEW n \in DOMAIN group, DeleteGroup(n) PROVE Typed'
  <2>1. /\ calls' \in 0 .. MaxCalls /\ goneGroups' = goneGroups \cup {n}
        /\ removed' = [removed EXCEPT !.groups = @ \cup {group[n].id}]
        /\ UNCHANGED <<sensor, group, goneSensors, queue, sync, sent, crashes, twins>>
    BY <1>4, <1>10 DEF DeleteGroup
  <2>2. group[n].id \in GroupMO
    <3>1. group[n] \in GroupDoc(DOMAIN sensor, DOMAIN group)
      BY DEF Typed
    <3> QED  BY <3>1 DEF GroupDoc
  <2>3. removed' \in Exempt
    BY <2>1, <2>2 DEF Typed, Exempt
  <2> QED  BY <2>1, <2>3 DEF Typed
<1> QED  BY <1>1, <1>2, <1>3, <1>5, <1>6, <1>7, <1>8, <1>9, <1>10

LEMMA TypeStep == TypeInv /\ [Next]_vars => TypeInv'
<1> SUFFICES ASSUME TypeInv, [Next]_vars PROVE TypeInv'  OBVIOUS
<1>1. Typed /\ Placed
  BY TypeParts DEF TypeInv
<1>2. CASE Next
  <2>1. Typed' /\ Placed'
    BY <1>1, <1>2, HandlerTypes, CallTypes DEF Next
  <2> QED  BY <2>1, TypePartsNext DEF TypeInv
<1>3. CASE UNCHANGED vars
  BY <1>3 DEF vars, TypeInv, TypeOK, Placed, Object
<1> QED  BY <1>2, <1>3

(* Sensors, groups and the handler have the types written down for them: what *)
(* it has found and collected are ids of documents that were created.         *)
THEOREM Typing == Spec => []TypeOK
<1>1. TypeInv => TypeOK
  BY DEF TypeInv
<1> QED  BY <1>1, TypeInit, TypeStep, PTL DEF Spec

----------------------------------------------------------------------------
(* Groups.                                                                 *)

\* What a step may do to the groups there are.
Grows ==
  \A g \in DOMAIN group :
       /\ group[g].sensors \subseteq group'[g].sensors
       /\ group[g].groups \subseteq group'[g].groups

LEMMA GroupsGrow == TypeInv /\ Next => Grows
<1> SUFFICES ASSUME TypeInv, Next PROVE Grows  OBVIOUS
<1>1. Typed /\ Placed
  BY TypeParts DEF TypeInv
<1>2. ASSUME NEW doc, group' = Append(group, doc) PROVE Grows
  BY <1>1, <1>2, AppendIs DEF Typed, Grows
<1>3. ASSUME NEW N \in SUBSET DOMAIN group, NEW sensors \in SUBSET DOMAIN sensor,
             group' = [k \in DOMAIN group |-> IF k \in N THEN withSensors(group[k], sensors)
                                                         ELSE group[k]]
      PROVE  Grows
  BY <1>1, <1>3, GroupsExtended DEF Grows
<1>4. CASE UpdateGroup
  <2>1. sync.sensors \in SUBSET DOMAIN sensor /\ {sync.target} \cap Groups \in SUBSET DOMAIN group
    BY <1>1 DEF Typed, SyncState, Groups
  <2>2. group' = [k \in DOMAIN group |-> IF k \in {sync.target} \cap Groups
                                         THEN withSensors(group[k], sync.sensors)
                                         ELSE group[k]]
    BY <1>4 DEF UpdateGroup
  <2> QED  BY <1>3, <2>1, <2>2
<1>5. ASSUME NEW n \in DOMAIN group, NEW sensors \in SUBSET Sensors, PatchGroup(n, sensors)
      PROVE  Grows
  <2>1. sensors \in SUBSET DOMAIN sensor /\ {n} \in SUBSET DOMAIN group
    BY DEF Sensors
  <2>2. group' = [k \in DOMAIN group |-> IF k \in {n} THEN withSensors(group[k], sensors)
                                                      ELSE group[k]]
    BY <1>5 DEF PatchGroup
  <2> QED  BY <1>3, <2>1, <2>2
<1>6. CASE CreateNestedGroup \/ CreateGroup
          \/ \E id \in GroupMO, sensors \in SUBSET Sensors : PostGroup(id, sensors)
  BY <1>2, <1>6 DEF CreateNestedGroup, CreateGroup, PostGroup
<1>7. CASE UNCHANGED group
  BY <1>7 DEF Grows
<1> QED
  BY <1>4, <1>5, <1>6, <1>7
  DEF Next, SendObjects, StartMessage, FindSensor, CreateSensor, FindGroupSensors,
      TakeGroupSensor, FindNestedGroup, FindGroup, FailUpdate, Ack, Fail, Crash, PostSensor,
      PatchSensor, DeleteSensor, DeleteGroup

(* Updating a group merges: a group never loses a sensor or a group.        *)
THEOREM Grow == Spec => GroupsOnlyGrow
<1>1. TypeInv /\ [Next]_vars => [Grows]_vars
  BY GroupsGrow
<1>2. Spec => [][Grows]_vars
  BY <1>1, TypeInit, TypeStep, PTL DEF Spec
<1> QED  BY <1>2 DEF GroupsOnlyGrow, Grows

----------------------------------------------------------------------------
(* Nothing is created twice.                                               *)

\* What the handler is about to create is not there, unless an HTTP call has made it
\* since the look-up.
AwaitedAreNew ==
  /\ \A i \in Sensors : SensorAwaited(sensor[i]) =>
       \/ sensor[i] \in twins.sensors
       \/ /\ sync.phase = "sensors"
          /\ \/ <<i, sensor[i]>> \in sync.found
             \/ \E j \in 1 .. (sync.next - 1) : Object.sensors[j] = sensor[i]
  /\ \A n \in Groups : GroupAwaited(group[n].id) => group[n].id \in twins.groups

NoSecondInv == SyncMakesNoSecond /\ AwaitedAreNew

\* A step that leaves the collections and awaits no document.
LEMMA NothingAwaited ==
  ASSUME NoSecondInv, UNCHANGED <<goneSensors, goneGroups, sensor, twins>>,
         DOMAIN group' = DOMAIN group, \A n \in DOMAIN group : group'[n].id = group[n].id,
         sync'.phase \notin {"createSensor", "sensors", "createNested", "createGroup"}
  PROVE  NoSecondInv'
<1>1. SyncMakesNoSecond'
  BY DEF NoSecondInv, SyncMakesNoSecond, Sensors, Groups
<1>2. AwaitedAreNew'
  BY DEF AwaitedAreNew, SensorAwaited, GroupAwaited
<1> QED  BY <1>1, <1>2 DEF NoSecondInv

LEMMA DoneAwaitsNothing ==
  ASSUME sync' = ObjectDone
  PROVE  sync'.phase \in {"objects", "applied"}
BY DEF ObjectDone, Idle

\* A new sensor, or one renamed, beside the others.
LEMMA SensorPut ==
  ASSUME Typed, SyncMakesNoSecond, NEW n, NEW t,
         UNCHANGED <<group, goneGroups, goneSensors>>,
         Sensors' \subseteq Sensors \cup {n}, sensor'[n] = t,
         \A i \in Sensors : i # n => sensor'[i] = sensor[i],
         twins.sensors \subseteq twins'.sensors, twins.groups \subseteq twins'.groups,
         (\E i \in Sensors : i # n /\ sensor[i] = t) => t \in twins'.sensors
  PROVE  SyncMakesNoSecond'
BY DEF SyncMakesNoSecond, Groups

LEMMA GroupPut ==
  ASSUME Typed, SyncMakesNoSecond, NEW doc, group' = Append(group, doc),
         UNCHANGED <<sensor, goneSensors, goneGroups>>,
         twins.sensors \subseteq twins'.sensors, twins.groups \subseteq twins'.groups,
         groupsLike(doc.id) # {} => doc.id \in twins'.groups
  PROVE  /\ SyncMakesNoSecond' /\ Groups' = Groups \cup {Len(group) + 1}
         /\ group'[Len(group) + 1] = doc
         /\ \A n \in Groups : group'[n] = group[n]
<1>1. /\ DOMAIN group' = DOMAIN group \cup {Len(group) + 1}
      /\ Len(group) + 1 \notin DOMAIN group
      /\ \A n \in DOMAIN group : group'[n] = group[n]
      /\ group'[Len(group) + 1] = doc
  BY AppendIs DEF Typed
<1>2. Groups' = Groups \cup {Len(group) + 1}
  BY <1>1 DEF Typed, Groups
<1>3. \A n \in Groups : group'[n] = group[n]
  BY <1>1 DEF Groups
<1>4. ASSUME NEW n \in Groups', NEW m \in Groups', group'[n].id = group'[m].id, n # m
      PROVE  group'[n].id \in twins'.groups
  <2>1. CASE n \in Groups /\ m \in Groups
    BY <1>3, <1>4, <2>1 DEF SyncMakesNoSecond
  <2>2. CASE ~(n \in Groups /\ m \in Groups)
    <3>1. groupsLike(doc.id) # {} /\ group'[n].id = doc.id
      BY <1>1, <1>2, <1>3, <1>4, <2>2 DEF groupsLike
    <3> QED  BY <3>1
  <2> QED  BY <2>1, <2>2
<1>5. \A i, j \in Sensors' : sensor'[i] = sensor'[j] => i = j \/ sensor'[i] \in twins'.sensors
  BY DEF SyncMakesNoSecond, Sensors
<1> QED  BY <1>1, <1>2, <1>3, <1>4, <1>5 DEF SyncMakesNoSecond

\* The handler's steps.
LEMMA NoSecondByHandler ==
  ASSUME Typed, Placed, NoSecondInv,
         \/ StartMessage \/ FindSensor \/ CreateSensor \/ FindGroupSensors
         \/ TakeGroupSensor \/ FindNestedGroup \/ CreateNestedGroup \/ FindGroup
         \/ UpdateGroup \/ FailUpdate \/ CreateGroup \/ Ack \/ Fail \/ Crash
  PROVE  NoSecondInv'
<1>1. SyncMakesNoSecond /\ AwaitedAreNew
  BY DEF NoSecondInv
<1>2. CASE StartMessage \/ Ack \/ Fail \/ Crash \/ FailUpdate
  <2>1. sync'.phase \in {"idle", "objects", "applied", "blocked"}
    BY <1>2, DoneAwaitsNothing DEF StartMessage, Ack, Fail, Crash, FailUpdate, Idle
  <2> QED
    BY <1>2, <2>1, NothingAwaited DEF StartMessage, Ack, Fail, Crash, FailUpdate
<1>3. CASE FindSensor
  <2>1. CASE sync' = ObjectDone
    BY <1>3, <2>1, DoneAwaitsNothing, NothingAwaited DEF FindSensor
  <2>2. CASE sync' # ObjectDone
    <3>1. /\ sensorsLike({Object.triple}) = {} /\ sync' = [sync EXCEPT !.phase = "createSensor"]
          /\ UNCHANGED <<sensor, group, goneSensors, goneGroups, queue, twins>>
      BY <1>3, <2>2 DEF FindSensor
    <3>2. sync'.phase = "createSensor" /\ sync'.at = sync.at
      BY <3>1 DEF Typed, SyncState
    <3>3. Object' = Object
      BY <3>1, <3>2 DEF Object
    <3>4. \A i \in Sensors : sensor[i] # Object.triple
      BY <3>1 DEF sensorsLike
    <3>5. AwaitedAreNew'
      BY <3>1, <3>2, <3>3, <3>4 DEF AwaitedAreNew, SensorAwaited, GroupAwaited, Sensors
    <3>6. SyncMakesNoSecond'
      BY <1>1, <3>1 DEF SyncMakesNoSecond, Sensors, Groups
    <3> QED  BY <3>5, <3>6 DEF NoSecondInv
  <2> QED  BY <2>1, <2>2
<1>4. CASE CreateSensor
  <2> DEFINE t == Object.triple
             n == Len(sensor) + 1
  <2>1. /\ sync.phase = "createSensor" /\ sync' = ObjectDone /\ sensor' = Append(sensor, t)
        /\ UNCHANGED <<group, goneSensors, goneGroups, twins>>
    BY <1>4 DEF CreateSensor
  <2>2. /\ DOMAIN sensor' = DOMAIN sensor \cup {n}
        /\ \A i \in DOMAIN sensor : sensor'[i] = sensor[i]
        /\ sensor'[n] = t
    BY <2>1, AppendIs DEF Typed
  <2>3. Sensors' \subseteq Sensors \cup {n} /\ \A i \in Sensors : sensor'[i] = sensor[i]
    BY <2>1, <2>2 DEF Sensors
  <2>4. (\E i \in Sensors : sensor[i] = t) => t \in twins.sensors
    BY <1>1, <2>1 DEF AwaitedAreNew, SensorAwaited
  <2>5. SyncMakesNoSecond'
    BY <1>1, <2>1, <2>2, <2>3, <2>4, SensorPut
  <2>6. AwaitedAreNew'
    BY <2>1, DoneAwaitsNothing DEF AwaitedAreNew, SensorAwaited, GroupAwaited
  <2> QED  BY <2>5, <2>6 DEF NoSecondInv
<1>5. CASE FindGroupSensors
  <2>1. UNCHANGED <<sensor, group, goneSensors, goneGroups, queue, twins>>
    BY <1>5 DEF FindGroupSensors
  <2>2. /\ sync'.at = sync.at /\ Object \in GroupObject
        /\ \/ /\ sync'.phase = "sensors" /\ sync'.next = 1 /\ sync'.found = Looked
              /\ 1 \in DOMAIN Object.sensors
           \/ AtGroups
    BY <1>5, LookedIs
  <2>3. CASE AtGroups
    BY <2>1, <2>3, NothingAwaited DEF AtGroups
  <2>4. CASE sync'.phase = "sensors" /\ sync'.next = 1 /\ sync'.found = Looked
    <3>1. Object' = Object
      BY <2>1, <2>2 DEF Object
    <3>2. DOMAIN Object.sensors = 1 .. Len(Object.sensors)
      BY <2>2 DEF GroupObject
    <3>3. ASSUME NEW i \in Sensors, NEW k \in 1 .. Len(Object.sensors),
                 sensor[i] = Object.sensors[k]
          PROVE  <<i, sensor[i]>> \in Looked
      <4>1. i \in sensorsLike({Object.sensors[l] : l \in DOMAIN Object.sensors})
        BY <3>2, <3>3 DEF sensorsLike
      <4> QED  BY <4>1 DEF Looked
    <3>4. AwaitedAreNew'
      BY <2>1, <2>4, <3>1, <3>3 DEF AwaitedAreNew, SensorAwaited, GroupAwaited, Sensors
    <3>5. SyncMakesNoSecond'
      BY <1>1, <2>1 DEF SyncMakesNoSecond, Sensors, Groups
    <3> QED  BY <3>4, <3>5 DEF NoSecondInv
  <2> QED  BY <2>2, <2>3, <2>4
<1>6. CASE TakeGroupSensor
  <2> DEFINE triple == Object.sensors[sync.next]
             n == Len(sensor) + 1
             again == \E i \in 1 .. (sync.next - 1) : Object.sensors[i] = triple
  <2>1. /\ sync.phase = "sensors" /\ Object \in GroupObject
        /\ sync.next \in DOMAIN Object.sensors
        /\ UNCHANGED <<group, goneSensors, goneGroups, queue>>
        /\ \E ids : TakenSensors(ids)
        /\ \/ UNCHANGED <<sensor, twins>>
           \/ /\ \A i \in DOMAIN sensor : <<i, triple>> \notin sync.found
              /\ sensor' = Append(sensor, triple)
              /\ twins' = IF again THEN [twins EXCEPT !.sensors = @ \cup {triple}] ELSE twins
    BY <1>6, TakeIs
  <2>2. /\ DOMAIN Object.sensors = 1 .. Len(Object.sensors) /\ Len(Object.sensors) \in Nat
        /\ sync.next \in Nat \ {0} /\ sync.next \in 1 .. Len(Object.sensors)
    BY <2>1 DEF GroupObject
  <2>3. twins.sensors \subseteq twins'.sensors /\ twins.groups = twins'.groups
        /\ ((\E i \in 1 .. (sync.next - 1) : Object.sensors[i] = triple) /\ sensor' # sensor
            => triple \in twins'.sensors)
    <3>1. twins \in Exempt
      BY DEF Typed
    <3> QED  BY <2>1, <3>1 DEF Exempt
  <2>4. CASE sensor' = sensor
    <3>1. twins' = twins
      <4>1. sensor' # Append(sensor, triple)
        BY <2>4, AppendIs DEF Typed
      <4> QED  BY <2>1, <4>1
    <3>2. SyncMakesNoSecond'
      BY <1>1, <2>1, <2>4, <3>1 DEF SyncMakesNoSecond, Sensors, Groups
    <3>3. CASE AtGroups
      BY <2>1, <2>4, <3>1, <3>3, NothingAwaited DEF AtGroups
    <3>4. CASE ~AtGroups
      <4>1. /\ sync'.phase = "sensors" /\ sync'.next = sync.next + 1
            /\ sync'.found = sync.found /\ sync'.at = sync.at
        BY <2>1, <3>4 DEF TakenSensors
      <4>2. Object' = Object
        BY <2>1, <4>1 DEF Object
      <4>3. AwaitedAreNew'
        BY <1>1, <2>1, <2>2, <2>4, <3>1, <4>1, <4>2
        DEF AwaitedAreNew, SensorAwaited, GroupAwaited, Sensors
      <4> QED  BY <3>2, <4>3 DEF NoSecondInv
    <3> QED  BY <3>3, <3>4
  <2>5. CASE sensor' # sensor
    <3>1. /\ \A i \in DOMAIN sensor : <<i, triple>> \notin sync.found
          /\ sensor' = Append(sensor, triple)
      BY <2>1, <2>5
    <3>2. /\ DOMAIN sensor' = DOMAIN sensor \cup {n}
          /\ \A i \in DOMAIN sensor : sensor'[i] = sensor[i]
          /\ sensor'[n] = triple
      BY <3>1, AppendIs DEF Typed
    <3>3. Sensors' \subseteq Sensors \cup {n} /\ \A i \in Sensors : sensor'[i] = sensor[i]
      BY <2>1, <3>2 DEF Sensors
    <3>4. ASSUME NEW i \in Sensors, sensor[i] = triple PROVE triple \in twins'.sensors
      <4>1. SensorAwaited(sensor[i])
        BY <2>1, <2>2, <3>4 DEF SensorAwaited
      <4>2. <<i, sensor[i]>> \notin sync.found
        BY <3>1, <3>4 DEF Sensors
      <4> QED  BY <1>1, <2>3, <2>5, <3>4, <4>1, <4>2 DEF AwaitedAreNew
    <3>5. SyncMakesNoSecond'
      BY <1>1, <2>1, <2>3, <3>2, <3>3, <3>4, SensorPut
    <3>6. CASE AtGroups
      BY <3>5, <3>6 DEF NoSecondInv, AwaitedAreNew, SensorAwaited, GroupAwaited, AtGroups
    <3>7. CASE ~AtGroups
      <4>1. /\ sync'.phase = "sensors" /\ sync'.next = sync.next + 1
            /\ sync'.found = sync.found /\ sync'.at = sync.at
        BY <2>1, <3>7 DEF TakenSensors
      <4>2. Object' = Object
        BY <2>1, <4>1 DEF Object
      <4>3. ASSUME NEW i \in Sensors', NEW k \in sync'.next .. Len(Object.sensors),
                   sensor'[i] = Object.sensors[k]
            PROVE  \/ sensor'[i] \in twins'.sensors
                   \/ <<i, sensor'[i]>> \in sync.found
                   \/ \E j \in 1 .. sync.next : Object.sensors[j] = sensor'[i]
        <5>1. CASE i = n
          BY <2>2, <3>2, <5>1
        <5>2. CASE i # n
          <6>1. i \in Sensors /\ sensor'[i] = sensor[i]
            BY <3>3, <4>3, <5>2
          <6>2. SensorAwaited(sensor[i])
            <7>1. k \in sync.next .. Len(Object.sensors) /\ Object.sensors[k] = sensor[i]
              BY <2>2, <4>1, <4>3, <6>1
            <7> QED  BY <2>1, <7>1 DEF SensorAwaited
          <6> QED  BY <1>1, <2>2, <2>3, <6>1, <6>2 DEF AwaitedAreNew
        <5> QED  BY <5>1, <5>2
      <4>4. AwaitedAreNew'
        BY <2>2, <4>1, <4>2, <4>3 DEF AwaitedAreNew, SensorAwaited, GroupAwaited
      <4> QED  BY <3>5, <4>4 DEF NoSecondInv
    <3> QED  BY <3>6, <3>7
  <2> QED  BY <2>4, <2>5
<1>7. CASE FindNestedGroup
  <2> DEFINE id == Object.groups[sync.next]
  <2>1. /\ sync.phase = "groups"
        /\ UNCHANGED <<sensor, group, goneSensors, goneGroups, queue, twins>>
        /\ \/ \E n \in DOMAIN group :
                sync' = AfterGroups([sync EXCEPT !.next = @ + 1, !.groups = @ \cup {n}])
           \/ groupsLike(id) = {} /\ sync' = [sync EXCEPT !.phase = "createNested"]
    BY <1>7 DEF FindNestedGroup, groupsLike, Groups
  <2>2. CASE \E n \in DOMAIN group :
               sync' = AfterGroups([sync EXCEPT !.next = @ + 1, !.groups = @ \cup {n}])
    <3>1. TakenGroup
      BY <2>1, <2>2, NestedMoves
    <3>2. sync'.phase \in {"groups", "findGroup"}
      BY <3>1 DEF TakenGroup
    <3> QED  BY <2>1, <3>2, NothingAwaited
  <2>3. CASE groupsLike(id) = {} /\ sync' = [sync EXCEPT !.phase = "createNested"]
    <3>1. sync'.phase = "createNested" /\ sync'.at = sync.at /\ sync'.next = sync.next
      BY <2>3 DEF Typed, SyncState
    <3>2. Object' = Object
      BY <2>1, <3>1 DEF Object
    <3>3. \A n \in Groups : group[n].id # id
      BY <2>3 DEF groupsLike
    <3>4. AwaitedAreNew'
      BY <2>1, <3>1, <3>2, <3>3 DEF AwaitedAreNew, SensorAwaited, GroupAwaited, Groups
    <3>5. SyncMakesNoSecond'
      BY <1>1, <2>1 DEF SyncMakesNoSecond, Sensors, Groups
    <3> QED  BY <3>4, <3>5 DEF NoSecondInv
  <2> QED  BY <2>1, <2>2, <2>3
<1>8. CASE CreateNestedGroup
  <2> DEFINE doc == [id |-> Object.groups[sync.next], sensors |-> {}, groups |-> {}]
             n == Len(group) + 1
  <2>1. /\ sync.phase = "createNested" /\ group' = Append(group, doc)
        /\ sync' = AfterGroups([sync EXCEPT !.next = @ + 1, !.groups = @ \cup {n}])
        /\ UNCHANGED <<sensor, goneSensors, goneGroups, twins>>
    BY <1>8 DEF CreateNestedGroup
  <2>2. groupsLike(doc.id) # {} => doc.id \in twins.groups
    BY <1>1, <2>1 DEF AwaitedAreNew, GroupAwaited, groupsLike
  <2>3. SyncMakesNoSecond'
    BY <1>1, <2>1, <2>2, GroupPut
  <2>4. n \in DOMAIN group' /\ DOMAIN group \subseteq DOMAIN group'
    BY <2>1, AppendIs DEF Typed
  <2>5. TakenGroup
    BY <2>1, <2>4, NestedMoves
  <2>6. AwaitedAreNew'
    BY <2>5 DEF TakenGroup, AwaitedAreNew, SensorAwaited, GroupAwaited
  <2> QED  BY <2>3, <2>6 DEF NoSecondInv
<1>9. CASE FindGroup
  <2>1. /\ sync.phase = "findGroup"
        /\ UNCHANGED <<sensor, group, goneSensors, goneGroups, queue, twins>>
        /\ \/ \E n \in DOMAIN group : sync' = [sync EXCEPT !.phase = "updateGroup", !.target = n]
           \/ groupsLike(Object.id) = {} /\ sync' = [sync EXCEPT !.phase = "createGroup"]
    BY <1>9 DEF FindGroup, groupsLike, Groups
  <2>2. CASE \E n \in DOMAIN group : sync' = [sync EXCEPT !.phase = "updateGroup", !.target = n]
    <3>1. sync'.phase = "updateGroup"
      BY <2>2 DEF Typed, SyncState
    <3> QED  BY <2>1, <3>1, NothingAwaited
  <2>3. CASE groupsLike(Object.id) = {} /\ sync' = [sync EXCEPT !.phase = "createGroup"]
    <3>1. sync'.phase = "createGroup" /\ sync'.at = sync.at
      BY <2>3 DEF Typed, SyncState
    <3>2. Object' = Object
      BY <2>1, <3>1 DEF Object
    <3>3. \A n \in Groups : group[n].id # Object.id
      BY <2>3 DEF groupsLike
    <3>4. AwaitedAreNew'
      BY <2>1, <3>1, <3>2, <3>3 DEF AwaitedAreNew, SensorAwaited, GroupAwaited, Groups
    <3>5. SyncMakesNoSecond'
      BY <1>1, <2>1 DEF SyncMakesNoSecond, Sensors, Groups
    <3> QED  BY <3>4, <3>5 DEF NoSecondInv
  <2> QED  BY <2>1, <2>2, <2>3
<1>10. CASE UpdateGroup
  <2>1. /\ sync' = ObjectDone /\ UNCHANGED <<sensor, goneSensors, goneGroups, twins>>
        /\ group' = [k \in DOMAIN group |-> IF k \in {sync.target} \cap Groups
                                            THEN withSensors(group[k], sync.sensors)
                                            ELSE group[k]]
    BY <1>10 DEF UpdateGroup
  <2>2. /\ sync.sensors \in SUBSET DOMAIN sensor
        /\ {sync.target} \cap Groups \in SUBSET DOMAIN group
    BY DEF Typed, SyncState, Groups
  <2>3. DOMAIN group' = DOMAIN group /\ \A n \in DOMAIN group : group'[n].id = group[n].id
    BY <2>1, <2>2, GroupsExtended
  <2> QED  BY <2>1, <2>3, DoneAwaitsNothing, NothingAwaited
<1>11. CASE CreateGroup
  <2> DEFINE doc == [id |-> Object.id, sensors |-> sync.sensors, groups |-> sync.groups]
  <2>1. /\ sync.phase = "createGroup" /\ sync' = ObjectDone /\ group' = Append(group, doc)
        /\ UNCHANGED <<sensor, goneSensors, goneGroups, twins>>
    BY <1>11 DEF CreateGroup
  <2>2. groupsLike(doc.id) # {} => doc.id \in twins.groups
    BY <1>1, <2>1 DEF AwaitedAreNew, GroupAwaited, groupsLike
  <2>3. SyncMakesNoSecond'
    BY <1>1, <2>1, <2>2, GroupPut
  <2>4. AwaitedAreNew'
    BY <2>1, DoneAwaitsNothing DEF AwaitedAreNew, SensorAwaited, GroupAwaited
  <2> QED  BY <2>3, <2>4 DEF NoSecondInv
<1> QED
  BY <1>2, <1>3, <1>4, <1>5, <1>6, <1>7, <1>8, <1>9, <1>10, <1>11

\* The calls beside it.
LEMMA NoSecondByCalls ==
  ASSUME Typed, Placed, NoSecondInv,
         \/ \E m \in Message : SendObjects(m)
         \/ \E t \in Triple \ Bare : PostSensor(t)
         \/ \E i \in DOMAIN sensor, t \in Triple \ Bare : PatchSensor(i, t)
         \/ \E i \in DOMAIN sensor : DeleteSensor(i)
         \/ \E id \in GroupMO, sensors \in SUBSET Sensors : PostGroup(id, sensors)
         \/ \E n \in DOMAIN group, sensors \in SUBSET Sensors : PatchGroup(n, sensors)
         \/ \E n \in DOMAIN group : DeleteGroup(n)
  PROVE  NoSecondInv'
<1>1. SyncMakesNoSecond /\ AwaitedAreNew
  BY DEF NoSecondInv
<1>2. sync' = sync /\ (queue' = queue \/ \E m \in Message : queue' = Append(queue, m))
  BY CallTypes
<1>3. sync.phase \in Working => Object' = Object
  BY <1>2, SameObject
<1>4. \A t : SensorAwaited(t) \/ GroupAwaited(t) => sync.phase \in Working
  BY DEF SensorAwaited, GroupAwaited, Working, GroupPhase
<1>5. ASSUME NEW t \in Triple, NEW n, Sensors' \subseteq Sensors \cup {n},
             \A i \in Sensors : i # n => sensor'[i] = sensor[i],
             sensor'[n] = t,
             twins' = IF SecondSensor(t) THEN [twins EXCEPT !.sensors = @ \cup {t}] ELSE twins,
             UNCHANGED <<group, goneGroups, goneSensors>>
      PROVE  NoSecondInv'
  <2>1. /\ twins.sensors \subseteq twins'.sensors /\ twins.groups = twins'.groups
        /\ SecondSensor(t) => t \in twins'.sensors
    <3>1. twins \in Exempt
      BY DEF Typed
    <3> QED  BY <1>5, <3>1 DEF Exempt
  <2>2. SyncMakesNoSecond'
    BY <1>1, <1>5, <2>1, SensorPut DEF SecondSensor
  <2>3. AwaitedAreNew'
    <3>1. CASE sync.phase \in Working
      <4>1. SensorAwaited(t) => t \in twins'.sensors
        BY <2>1 DEF SecondSensor
      <4> QED
        BY <1>1, <1>2, <1>3, <1>5, <2>1, <3>1, <4>1
        DEF AwaitedAreNew, SensorAwaited, GroupAwaited, Groups
    <3>2. CASE sync.phase \notin Working
      BY <1>2, <3>2 DEF AwaitedAreNew, SensorAwaited, GroupAwaited, Working, GroupPhase
    <3> QED  BY <3>1, <3>2
  <2> QED  BY <2>2, <2>3 DEF NoSecondInv
<1>6. ASSUME UNCHANGED <<sensor, twins>>, Sensors' \subseteq Sensors, Groups' \subseteq Groups,
             \A n \in Groups : group'[n].id = group[n].id
      PROVE  NoSecondInv'
  <2>1. SyncMakesNoSecond'
    BY <1>1, <1>6 DEF SyncMakesNoSecond
  <2>2. AwaitedAreNew'
    <3>1. CASE sync.phase \in Working
      BY <1>1, <1>2, <1>3, <1>6, <3>1 DEF AwaitedAreNew, SensorAwaited, GroupAwaited
    <3>2. CASE sync.phase \notin Working
      BY <1>2, <3>2 DEF AwaitedAreNew, SensorAwaited, GroupAwaited, Working, GroupPhase
    <3> QED  BY <3>1, <3>2
  <2> QED  BY <2>1, <2>2 DEF NoSecondInv
<1>7. ASSUME NEW m \in Message, SendObjects(m) PROVE NoSecondInv'
  BY <1>6, <1>7 DEF SendObjects, Sensors, Groups
<1>8. ASSUME NEW t \in Triple \ Bare, PostSensor(t) PROVE NoSecondInv'
  <2>1. /\ sensor' = Append(sensor, t) /\ UNCHANGED <<group, goneSensors, goneGroups>>
        /\ twins' = IF SecondSensor(t) THEN [twins EXCEPT !.sensors = @ \cup {t}] ELSE twins
    BY <1>8 DEF PostSensor
  <2>2. /\ Sensors' \subseteq Sensors \cup {Len(sensor) + 1} /\ sensor'[Len(sensor) + 1] = t
        /\ \A i \in Sensors : sensor'[i] = sensor[i]
    BY <2>1, SensorAdded DEF Sensors
  <2> QED  BY <1>5, <2>1, <2>2
<1>9. ASSUME NEW i \in DOMAIN sensor, NEW t \in Triple \ Bare, PatchSensor(i, t)
      PROVE  NoSecondInv'
  <2>1. /\ sensor' = [sensor EXCEPT ![i] = t] /\ UNCHANGED <<group, goneSensors, goneGroups>>
        /\ twins' = IF SecondSensor(t) THEN [twins EXCEPT !.sensors = @ \cup {t}] ELSE twins
    BY <1>9 DEF PatchSensor
  <2>2. /\ Sensors' \subseteq Sensors \cup {i} /\ sensor'[i] = t
        /\ \A k \in Sensors : k # i => sensor'[k] = sensor[k]
    BY <2>1 DEF Typed, Sensors
  <2> QED  BY <1>5, <2>1, <2>2
<1>10. ASSUME NEW i \in DOMAIN sensor, DeleteSensor(i) PROVE NoSecondInv'
  BY <1>6, <1>10 DEF DeleteSensor, Sensors, Groups
<1>11. ASSUME NEW id \in GroupMO, NEW sensors \in SUBSET Sensors, PostGroup(id, sensors)
       PROVE  NoSecondInv'
  <2> DEFINE doc == [id |-> id, sensors |-> sensors, groups |-> {}]
  <2>1. /\ group' = Append(group, doc) /\ UNCHANGED <<sensor, goneSensors, goneGroups>>
        /\ twins' = IF GroupAwaited(id) \/ groupsLike(id) # {}
                    THEN [twins EXCEPT !.groups = @ \cup {id}] ELSE twins
    BY <1>11 DEF PostGroup
  <2>2. /\ twins.groups \subseteq twins'.groups /\ twins.sensors = twins'.sensors
        /\ GroupAwaited(id) \/ groupsLike(id) # {} => id \in twins'.groups
    <3>1. twins \in Exempt
      BY DEF Typed
    <3> QED  BY <2>1, <3>1 DEF Exempt
  <2>3. /\ SyncMakesNoSecond' /\ Groups' = Groups \cup {Len(group) + 1}
        /\ group'[Len(group) + 1] = doc
        /\ \A n \in Groups : group'[n] = group[n]
    BY <1>1, <2>1, <2>2, GroupPut
  <2>4. AwaitedAreNew'
    <3>1. CASE sync.phase \in Working
      <4>1. ASSUME NEW n \in Groups', GroupAwaited(group'[n].id)
            PROVE  group'[n].id \in twins'.groups
        BY <1>1, <2>2, <2>3, <4>1 DEF AwaitedAreNew
      <4>2. \A n \in Groups' : GroupAwaited(group[n].id)' => group'[n].id \in twins'.groups
        BY <1>2, <1>3, <3>1, <4>1 DEF GroupAwaited
      <4>3. \A i \in Sensors' : SensorAwaited(sensor[i])' =>
              \/ sensor'[i] \in twins'.sensors
              \/ /\ sync'.phase = "sensors"
                 /\ \/ <<i, sensor'[i]>> \in sync'.found
                    \/ \E j \in 1 .. (sync'.next - 1) : Object'.sensors[j] = sensor'[i]
        BY <1>1, <1>2, <1>3, <2>1, <2>2, <3>1 DEF AwaitedAreNew, SensorAwaited, Sensors
      <4> QED  BY <4>2, <4>3 DEF AwaitedAreNew
    <3>2. CASE sync.phase \notin Working
      BY <1>2, <3>2 DEF AwaitedAreNew, SensorAwaited, GroupAwaited, Working, GroupPhase
    <3> QED  BY <3>1, <3>2
  <2> QED  BY <2>3, <2>4 DEF NoSecondInv
<1>12. ASSUME NEW n \in DOMAIN group, NEW sensors \in SUBSET Sensors, PatchGroup(n, sensors)
       PROVE  NoSecondInv'
  <2>1. /\ group' = [k \in DOMAIN group |-> IF k \in {n} THEN withSensors(group[k], sensors)
                                                         ELSE group[k]]
        /\ UNCHANGED <<sensor, goneSensors, goneGroups, twins>>
    BY <1>12 DEF PatchGroup
  <2>2. {n} \in SUBSET DOMAIN group /\ sensors \in SUBSET DOMAIN sensor
    BY DEF Sensors
  <2>3. DOMAIN group' = DOMAIN group /\ \A k \in DOMAIN group : group'[k].id = group[k].id
    BY <2>1, <2>2, GroupsExtended
  <2> QED  BY <1>6, <2>1, <2>3 DEF Sensors, Groups
<1>13. ASSUME NEW n \in DOMAIN group, DeleteGroup(n) PROVE NoSecondInv'
  BY <1>6, <1>13 DEF DeleteGroup, Sensors, Groups
<1> QED  BY <1>7, <1>8, <1>9, <1>10, <1>11, <1>12, <1>13

LEMMA NoSecondStep == TypeInv /\ NoSecondInv /\ [Next]_vars => NoSecondInv'
<1> SUFFICES ASSUME TypeInv, NoSecondInv, [Next]_vars PROVE NoSecondInv'  OBVIOUS
<1>1. Typed /\ Placed
  BY TypeParts DEF TypeInv
<1>2. CASE Next
  BY <1>1, <1>2, NoSecondByHandler, NoSecondByCalls DEF Next
<1>3. CASE UNCHANGED vars
  BY <1>3
  DEF vars, NoSecondInv, SyncMakesNoSecond, AwaitedAreNew, SensorAwaited, GroupAwaited,
      Sensors, Groups, Object
<1> QED  BY <1>2, <1>3

(* Messages never make a second sensor of a triple or a second group of an    *)
(* id: the handler creates what its look-up did not find, and nothing but an  *)
(* HTTP call, or the message itself, puts one there in between.               *)
THEOREM NoSecond == Spec => []SyncMakesNoSecond
<1>1. Init => NoSecondInv
  BY DEF Init, Idle, NoSecondInv, SyncMakesNoSecond, AwaitedAreNew, SensorAwaited,
         GroupAwaited, Sensors, Groups
<1>2. NoSecondInv => SyncMakesNoSecond
  BY DEF NoSecondInv
<1> QED  BY <1>1, <1>2, NoSecondStep, TypeInit, TypeStep, PTL DEF Spec

----------------------------------------------------------------------------
(* What has been handled is there.                                         *)

Objects == SensorObject \cup GroupObject

\* What is behind the handler in the message is synced,
BehindIsSynced ==
  sync.phase \in Working =>
    \A k \in 1 .. (sync.at - 1), o \in Objects : o = Head(queue)[k] => Synced(o)

\* and all of it at the end;
AllIsSynced ==
  sync.phase = "applied" =>
    \A k \in DOMAIN Head(queue), o \in Objects : o = Head(queue)[k] => Synced(o)

\* what the look-up found is there as it was,
FoundIsCurrent ==
  sync.phase = "sensors" => \A i \in DOMAIN sensor, t \in Triple :
    <<i, t>> \in sync.found /\ Kept(t) => i \in Sensors /\ sensor[i] = t

\* the sensors of the group behind the handler are collected,
SensorsCollected ==
  sync.phase \in GroupPhase => \A k \in DOMAIN Object.sensors :
    /\ sync.phase = "sensors" => k < sync.next
    /\ Object.sensors[k] \notin Bare /\ Kept(Object.sensors[k])
    => \E s \in sync.sensors \cap Sensors : sensor[s] = Object.sensors[k]

\* the groups in it behind the handler exist,
NestedExist ==
  sync.phase \in GroupPhase \ {"sensors"} => \A k \in DOMAIN Object.groups :
    /\ sync.phase \in {"groups", "createNested"} => k < sync.next
    /\ Object.groups[k] \notin removed.groups
    => \E n \in Groups : group[n].id = Object.groups[k]

\* and the group to update is the one of the message.
TargetIsCurrent ==
  sync.phase = "updateGroup" =>
    \/ Object.id \in removed.groups
    \/ sync.target \in Groups /\ group[sync.target].id = Object.id

SyncedInv ==
  /\ BehindIsSynced /\ AllIsSynced /\ FoundIsCurrent /\ SensorsCollected
  /\ NestedExist /\ TargetIsCurrent

\* A step that takes away only what it enters in removed.
Keeps ==
  /\ removed.sensors \subseteq removed'.sensors /\ removed.groups \subseteq removed'.groups
  /\ \A i \in Sensors : CaseOf[sensor[i]] \notin removed'.sensors =>
       i \in Sensors' /\ sensor'[i] = sensor[i]
  /\ \A n \in Groups : group[n].id \notin removed'.groups =>
       /\ n \in Groups' /\ group'[n].id = group[n].id
       /\ group[n].sensors \subseteq group'[n].sensors

LEMMA SensorSynced ==
  ASSUME NEW o \in SensorObject, NEW i \in Sensors', CaseOf[sensor'[i]] = CaseOf[o.triple]
  PROVE  Synced(o)'
BY DEF Synced, sensorsLike, SensorObject

LEMMA GroupSynced ==
  ASSUME NEW o \in GroupObject,
         \/ o.id \in removed'.groups
         \/ \E n \in Groups' :
              /\ group'[n].id = o.id
              /\ \A k \in DOMAIN o.sensors :
                   o.sensors[k] \notin Bare /\ CaseOf[o.sensors[k]] \notin removed'.sensors =>
                     \E s \in group'[n].sensors \cap Sensors' : sensor'[s] = o.sensors[k],
         \A k \in DOMAIN o.groups : o.groups[k] \notin removed'.groups =>
           \E n \in Groups' : group'[n].id = o.groups[k]
  PROVE  Synced(o)'
<1>1. o.type = "GROUP"
  BY DEF GroupObject
<1>2. \A id : (groupsLike(id) # {})' <=> \E n \in Groups' : group'[n].id = id
  BY DEF groupsLike
<1>3. \/ o.id \in removed'.groups
      \/ \E n \in groupsLike(o.id)' :
           \A k \in DOMAIN o.sensors : o.sensors[k] \notin Bare /\ Kept(o.sensors[k])' =>
             \E s \in group'[n].sensors \cap Sensors' : sensor'[s] = o.sensors[k]
  BY DEF groupsLike, Kept
<1> QED  BY <1>1, <1>2, <1>3 DEF Synced

LEMMA SyncedStays ==
  ASSUME Keeps, NEW o \in Objects, Synced(o)
  PROVE  Synced(o)'
<1>1. CASE o \in SensorObject
  <2>1. o.type = "SENSOR" /\ o.type # "GROUP"
    BY <1>1 DEF SensorObject
  <2>2. CASE CaseOf[o.triple] \in removed'.sensors
    BY <2>1, <2>2 DEF Synced, Kept
  <2>3. CASE CaseOf[o.triple] \notin removed'.sensors
    <3>1. Kept(o.triple)
      BY <2>3 DEF Keeps, Kept
    <3>2. PICK i \in Sensors : CaseOf[sensor[i]] = CaseOf[o.triple]
      BY <2>1, <3>1 DEF Synced, sensorsLike
    <3>3. i \in Sensors' /\ sensor'[i] = sensor[i]
      BY <2>3, <3>2 DEF Keeps
    <3> QED  BY <1>1, <3>2, <3>3, SensorSynced
  <2> QED  BY <2>2, <2>3
<1>2. CASE o \in GroupObject
  <2>1. o.type = "GROUP" /\ o.type # "SENSOR"
    BY <1>2 DEF GroupObject
  <2>2. \A k \in DOMAIN o.groups : o.groups[k] \notin removed'.groups =>
          \E n \in Groups' : group'[n].id = o.groups[k]
    <3>1. \A k \in DOMAIN o.groups : o.groups[k] \notin removed.groups =>
            \E n \in Groups : group[n].id = o.groups[k]
      BY <2>1 DEF Synced, groupsLike
    <3> QED  BY <3>1 DEF Keeps
  <2>3. CASE o.id \in removed'.groups
    BY <1>2, <2>2, <2>3, GroupSynced
  <2>4. CASE o.id \notin removed'.groups
    <3>1. o.id \notin removed.groups
      BY <2>4 DEF Keeps
    <3>2. PICK n \in Groups :
            /\ group[n].id = o.id
            /\ \A k \in DOMAIN o.sensors :
                 o.sensors[k] \notin Bare /\ Kept(o.sensors[k]) =>
                   \E s \in group[n].sensors \cap Sensors : sensor[s] = o.sensors[k]
      BY <2>1, <3>1 DEF Synced, groupsLike
    <3>3. /\ n \in Groups' /\ group'[n].id = o.id /\ group[n].sensors \subseteq group'[n].sensors
      BY <2>4, <3>2 DEF Keeps
    <3>4. ASSUME NEW k \in DOMAIN o.sensors, o.sensors[k] \notin Bare,
                 CaseOf[o.sensors[k]] \notin removed'.sensors
          PROVE  \E s \in group'[n].sensors \cap Sensors' : sensor'[s] = o.sensors[k]
      <4>1. Kept(o.sensors[k])
        BY <3>4 DEF Keeps, Kept
      <4>2. PICK s \in group[n].sensors \cap Sensors : sensor[s] = o.sensors[k]
        BY <3>2, <3>4, <4>1
      <4>3. s \in Sensors' /\ sensor'[s] = sensor[s]
        BY <3>4, <4>2 DEF Keeps
      <4> QED  BY <3>3, <4>2, <4>3
    <3> QED  BY <1>2, <2>2, <3>3, <3>4, GroupSynced
  <2> QED  BY <2>3, <2>4
<1> QED  BY <1>1, <1>2 DEF Objects

\* While the handler stays where it is, what it relies on does.
LEMMA SyncedBeside ==
  ASSUME Typed, SyncedInv, Keeps, sync' = sync,
         queue' = queue \/ \E m \in Message : queue' = Append(queue, m)
  PROVE  SyncedInv'
<1>1. CASE sync.phase \in Working \cup {"applied"}
  <2>1. Head(queue') = Head(queue) /\ Object' = Object
    <3>1. queue # <<>> /\ queue \in Seq(Message)
      BY <1>1 DEF Typed, Working, GroupPhase
    <3>2. Head(queue') = Head(queue)
      BY <3>1
    <3> QED  BY <3>2 DEF Object
  <2>2. BehindIsSynced'
    BY <2>1, SyncedStays DEF SyncedInv, BehindIsSynced
  <2>3. AllIsSynced'
    BY <2>1, SyncedStays DEF SyncedInv, AllIsSynced
  <2>4. FoundIsCurrent'
    <3> SUFFICES ASSUME sync.phase = "sensors", NEW i, NEW t \in Triple, <<i, t>> \in sync.found,
                        CaseOf[t] \notin removed'.sensors
                 PROVE  i \in Sensors' /\ sensor'[i] = t
      BY DEF FoundIsCurrent, Kept
    <3>1. i \in DOMAIN sensor
      BY DEF Typed, SyncState
    <3>2. Kept(t)
      BY DEF Keeps, Kept
    <3>3. i \in Sensors /\ sensor[i] = t
      BY <3>1, <3>2 DEF SyncedInv, FoundIsCurrent
    <3> QED  BY <3>3 DEF Keeps
  <2>5. SensorsCollected'
    <3> SUFFICES ASSUME sync.phase \in GroupPhase, NEW k \in DOMAIN Object.sensors,
                        sync.phase = "sensors" => k < sync.next, Object.sensors[k] \notin Bare,
                        CaseOf[Object.sensors[k]] \notin removed'.sensors
                 PROVE  \E s \in sync.sensors \cap Sensors' : sensor'[s] = Object.sensors[k]
      BY <2>1 DEF SensorsCollected, Kept
    <3>1. Kept(Object.sensors[k])
      BY DEF Keeps, Kept
    <3>2. PICK s \in sync.sensors \cap Sensors : sensor[s] = Object.sensors[k]
      BY <3>1 DEF SyncedInv, SensorsCollected
    <3> QED  BY <3>2 DEF Keeps
  <2>6. NestedExist'
    BY <2>1 DEF SyncedInv, NestedExist, Keeps
  <2>7. TargetIsCurrent'
    BY <2>1 DEF SyncedInv, TargetIsCurrent, Keeps
  <2> QED  BY <2>2, <2>3, <2>4, <2>5, <2>6, <2>7 DEF SyncedInv
<1>2. CASE sync.phase \notin Working \cup {"applied"}
  BY <1>2
  DEF SyncedInv, BehindIsSynced, AllIsSynced, FoundIsCurrent, SensorsCollected, NestedExist,
      TargetIsCurrent, Working, GroupPhase
<1> QED  BY <1>1, <1>2

\* The handler goes on in the object in work, or to the next one.
LEMMA StillInObject ==
  ASSUME Typed, Placed, SyncedInv, Keeps, sync.phase \in Working, queue' = queue,
         sync'.at = sync.at, sync'.phase \in Working
  PROVE  BehindIsSynced' /\ AllIsSynced' /\ Object' = Object
<1>1. Object' = Object
  BY DEF Object
<1>2. BehindIsSynced'
  BY SyncedStays DEF SyncedInv, BehindIsSynced
<1>3. AllIsSynced'
  BY DEF AllIsSynced, Working, GroupPhase
<1> QED  BY <1>1, <1>2, <1>3

LEMMA ObjectFinished ==
  ASSUME Typed, Placed, SyncedInv, Keeps, sync.phase \in Working, queue' = queue,
         sync' = ObjectDone, \A o \in Objects : o = Object => Synced(o)'
  PROVE  SyncedInv'
<1>1. /\ sync.at \in DOMAIN Head(queue) /\ sync.at \in Nat
      /\ DOMAIN Head(queue) = 1 .. Len(Head(queue)) /\ Len(Head(queue)) \in Nat
  BY PlacedIs, ObjectsAre DEF Typed
<1>2. \/ sync'.phase = "applied" /\ sync.at = Len(Head(queue))
      \/ sync'.phase = "objects" /\ sync'.at = sync.at + 1
  BY <1>1, ObjectDoneIs
<1>3. ASSUME NEW k \in 1 .. sync.at, NEW o \in Objects, o = Head(queue)[k]
      PROVE  Synced(o)'
  <2>1. CASE k = sync.at
    BY <1>3, <2>1 DEF Object
  <2>2. CASE k # sync.at
    <3>1. k \in 1 .. (sync.at - 1)
      BY <1>1, <2>2
    <3> QED  BY <1>3, <3>1, SyncedStays DEF SyncedInv, BehindIsSynced
  <2> QED  BY <2>1, <2>2
<1>4. BehindIsSynced'
  <2>1. sync'.phase \in Working => sync'.at - 1 = sync.at
    BY <1>1, <1>2 DEF Working, GroupPhase
  <2> QED  BY <1>3, <2>1 DEF BehindIsSynced
<1>5. AllIsSynced'
  <2>1. sync'.phase = "applied" => DOMAIN Head(queue) = 1 .. sync.at
    BY <1>1, <1>2
  <2> QED  BY <1>3, <2>1 DEF AllIsSynced
<1> QED
  BY <1>2, <1>4, <1>5
  DEF SyncedInv, FoundIsCurrent, SensorsCollected, NestedExist, TargetIsCurrent, GroupPhase

\* Where all sensors are collected, the handler begins with the groups.
LEMMA GroupsBegin ==
  ASSUME Typed, Placed, SyncedInv, Keeps, sync.phase \in Working, queue' = queue,
         sync'.at = sync.at, Object \in GroupObject, AtGroups,
         \A k \in DOMAIN Object.sensors :
           Object.sensors[k] \notin Bare /\ CaseOf[Object.sensors[k]] \notin removed'.sensors =>
             \E s \in sync'.sensors \cap Sensors' : sensor'[s] = Object.sensors[k]
  PROVE  SyncedInv'
<1>1. sync'.phase \in {"groups", "findGroup"}
  BY DEF AtGroups
<1>2. BehindIsSynced' /\ AllIsSynced' /\ Object' = Object
  BY <1>1, StillInObject DEF Working, GroupPhase
<1>3. SensorsCollected'
  BY <1>2 DEF SensorsCollected, Kept
<1>4. NestedExist'
  <2>1. CASE sync'.phase = "groups" /\ sync'.next = 1
    <3>1. \A k \in DOMAIN Object.groups : ~(k < 1)
      BY DEF GroupObject
    <3> QED  BY <1>2, <2>1, <3>1 DEF NestedExist
  <2>2. CASE sync'.phase = "findGroup" /\ Object.groups = <<>>
    BY <1>2, <2>2 DEF NestedExist
  <2> QED  BY <2>1, <2>2 DEF AtGroups
<1>5. FoundIsCurrent' /\ TargetIsCurrent'
  BY <1>1 DEF FoundIsCurrent, TargetIsCurrent
<1> QED  BY <1>2, <1>3, <1>4, <1>5 DEF SyncedInv

\* What is collected stays there while the handler is at the groups.
LEMMA CollectedStays ==
  ASSUME SyncedInv, Keeps, sync.phase \in GroupPhase \ {"sensors"}, Object' = Object,
         sync.sensors \subseteq sync'.sensors
  PROVE  SensorsCollected'
<1> SUFFICES ASSUME NEW k \in DOMAIN Object.sensors,
                    sync'.phase = "sensors" => k < sync'.next, Object.sensors[k] \notin Bare,
                    CaseOf[Object.sensors[k]] \notin removed'.sensors
             PROVE  \E s \in sync'.sensors \cap Sensors' : sensor'[s] = Object.sensors[k]
  BY DEF SensorsCollected, Kept
<1>1. Kept(Object.sensors[k])
  BY DEF Keeps, Kept
<1>2. PICK s \in sync.sensors \cap Sensors : sensor[s] = Object.sensors[k]
  BY <1>1 DEF SyncedInv, SensorsCollected
<1> QED  BY <1>2 DEF Keeps

\* The group itself is synced once its sensors and groups are.
LEMMA TargetSynced ==
  ASSUME SyncedInv, Keeps, sync.phase \in {"updateGroup", "createGroup"}, Object \in GroupObject,
         \/ Object.id \in removed'.groups
         \/ \E n \in Groups' : group'[n].id = Object.id /\ sync.sensors \subseteq group'[n].sensors
  PROVE  \A o \in Objects : o = Object => Synced(o)'
<1>1. ASSUME NEW n \in Groups', sync.sensors \subseteq group'[n].sensors,
             NEW k \in DOMAIN Object.sensors, Object.sensors[k] \notin Bare,
             CaseOf[Object.sensors[k]] \notin removed'.sensors
      PROVE  \E s \in group'[n].sensors \cap Sensors' : sensor'[s] = Object.sensors[k]
  <2>1. Kept(Object.sensors[k])
    BY <1>1 DEF Keeps, Kept
  <2>2. PICK s \in sync.sensors \cap Sensors : sensor[s] = Object.sensors[k]
    BY <1>1, <2>1 DEF SyncedInv, SensorsCollected, GroupPhase
  <2>3. s \in Sensors' /\ sensor'[s] = sensor[s]
    BY <1>1, <2>2 DEF Keeps
  <2> QED  BY <1>1, <2>2, <2>3
<1>2. ASSUME NEW k \in DOMAIN Object.groups, Object.groups[k] \notin removed'.groups
      PROVE  \E n \in Groups' : group'[n].id = Object.groups[k]
  <2>1. Object.groups[k] \notin removed.groups
    BY <1>2 DEF Keeps
  <2>2. PICK n \in Groups : group[n].id = Object.groups[k]
    BY <1>2, <2>1 DEF SyncedInv, NestedExist, GroupPhase
  <2> QED  BY <1>2, <2>2 DEF Keeps
<1>3. \/ Object.id \in removed'.groups
      \/ \E n \in Groups' :
           /\ group'[n].id = Object.id
           /\ \A k \in DOMAIN Object.sensors :
                Object.sensors[k] \notin Bare
                /\ CaseOf[Object.sensors[k]] \notin removed'.sensors =>
                  \E s \in group'[n].sensors \cap Sensors' : sensor'[s] = Object.sensors[k]
  BY <1>1
<1>4. ASSUME NEW o \in Objects, o = Object PROVE Synced(o)'
  BY <1>2, <1>3, <1>4, GroupSynced
<1> QED  BY <1>4

\* What the steps of the handler take away.
LEMMA KeepsAll ==
  ASSUME UNCHANGED <<goneSensors, goneGroups>>,
         removed' = removed \/ \E id : removed' = [removed EXCEPT !.groups = @ \cup {id}],
         removed \in Exempt,
         DOMAIN sensor \subseteq DOMAIN sensor', \A i \in DOMAIN sensor : sensor'[i] = sensor[i],
         DOMAIN group \subseteq DOMAIN group',
         \A n \in DOMAIN group : /\ group'[n].id = group[n].id
                                 /\ group[n].sensors \subseteq group'[n].sensors
  PROVE  Keeps
<1>1. removed.sensors \subseteq removed'.sensors /\ removed.groups \subseteq removed'.groups
  BY DEF Exempt
<1> QED  BY <1>1 DEF Keeps, Sensors, Groups

LEMMA SyncedByHandler ==
  ASSUME Typed, Placed, SyncedInv,
         \/ StartMessage \/ FindSensor \/ CreateSensor \/ FindGroupSensors
         \/ TakeGroupSensor \/ FindNestedGroup \/ CreateNestedGroup \/ FindGroup
         \/ UpdateGroup \/ FailUpdate \/ CreateGroup \/ Ack \/ Fail \/ Crash
  PROVE  SyncedInv'
<1>1. removed \in Exempt
  BY DEF Typed
<1>2. ASSUME UNCHANGED <<sensor, group, goneSensors, goneGroups>>,
             removed' = removed \/ \E id : removed' = [removed EXCEPT !.groups = @ \cup {id}]
      PROVE  Keeps
  BY <1>1, <1>2, KeepsAll
<1>3. CASE StartMessage
  <2>1. /\ sync'.at = 1 /\ queue' = queue
        /\ sync'.phase = IF Head(queue) = <<>> THEN "applied" ELSE "objects"
    BY <1>3 DEF StartMessage, Idle
  <2>2. BehindIsSynced' /\ AllIsSynced'
    BY <2>1 DEF BehindIsSynced, AllIsSynced
  <2> QED
    BY <2>1, <2>2
    DEF SyncedInv, FoundIsCurrent, SensorsCollected, NestedExist, TargetIsCurrent, GroupPhase
<1>4. CASE Ack \/ Fail \/ Crash
  <2>1. sync'.phase \in {"idle", "blocked"}
    BY <1>4 DEF Ack, Fail, Crash, Idle
  <2> QED
    BY <2>1
    DEF SyncedInv, BehindIsSynced, AllIsSynced, FoundIsCurrent, SensorsCollected, NestedExist,
        TargetIsCurrent, Working, GroupPhase
<1>5. CASE FindSensor
  <2>1. /\ sync.phase = "objects" /\ Object.type = "SENSOR"
        /\ UNCHANGED <<sensor, group, goneSensors, goneGroups, queue, removed>>
        /\ \/ sync' = ObjectDone /\ sensorsLike({Object.triple}) # {}
           \/ sync' = [sync EXCEPT !.phase = "createSensor"]
    BY <1>5 DEF FindSensor
  <2>2. Keeps
    BY <1>2, <2>1
  <2>3. Object \in SensorObject
    BY <2>1, PlacedIs DEF Working
  <2>4. CASE sync' = ObjectDone /\ sensorsLike({Object.triple}) # {}
    <3>1. PICK i \in Sensors : CaseOf[sensor[i]] = CaseOf[Object.triple]
      BY <2>4 DEF sensorsLike
    <3>2. i \in Sensors' /\ sensor'[i] = sensor[i]
      BY <2>1 DEF Sensors
    <3>3. \A o \in Objects : o = Object => Synced(o)'
      BY <2>3, <3>1, <3>2, SensorSynced
    <3> QED  BY <2>1, <2>2, <2>4, <3>3, ObjectFinished DEF Working
  <2>5. CASE sync' = [sync EXCEPT !.phase = "createSensor"]
    <3>1. sync'.phase = "createSensor" /\ sync'.at = sync.at
      BY <2>5 DEF Typed, SyncState
    <3>2. BehindIsSynced' /\ AllIsSynced'
      BY <2>1, <2>2, <3>1, StillInObject DEF Working
    <3> QED
      BY <3>1, <3>2
      DEF SyncedInv, FoundIsCurrent, SensorsCollected, NestedExist, TargetIsCurrent, GroupPhase
  <2> QED  BY <2>1, <2>4, <2>5
<1>6. CASE CreateSensor
  <2> DEFINE t == Object.triple
             n == Len(sensor) + 1
  <2>1. /\ sync.phase = "createSensor" /\ sync' = ObjectDone /\ sensor' = Append(sensor, t)
        /\ UNCHANGED <<group, goneSensors, goneGroups, queue, removed>>
    BY <1>6 DEF CreateSensor
  <2>2. Object \in SensorObject
    BY <2>1, PlacedIs DEF Placed, Working
  <2>3. /\ DOMAIN sensor' = DOMAIN sensor \cup {n} /\ n \notin DOMAIN sensor
        /\ \A i \in DOMAIN sensor : sensor'[i] = sensor[i]
        /\ sensor'[n] = t
    BY <2>1, AppendIs DEF Typed
  <2>4. Keeps
    BY <1>1, <2>1, <2>3, KeepsAll
  <2>5. n \in Sensors'
    BY <2>1, <2>3 DEF Typed, Sensors
  <2>6. \A o \in Objects : o = Object => Synced(o)'
    BY <2>2, <2>3, <2>5, SensorSynced
  <2> QED  BY <2>1, <2>4, <2>6, ObjectFinished DEF Working
<1>7. CASE FindGroupSensors
  <2>1. UNCHANGED <<sensor, group, goneSensors, goneGroups, queue, removed>>
    BY <1>7 DEF FindGroupSensors
  <2>2. /\ sync.phase = "objects" /\ sync'.at = sync.at /\ Object \in GroupObject
        /\ \/ sync'.phase = "sensors" /\ sync'.next = 1 /\ sync'.found = Looked
           \/ Object.sensors = <<>> /\ AtGroups
    BY <1>7, LookedIs
  <2>3. Keeps
    BY <1>2, <2>1
  <2>4. CASE sync'.phase = "sensors" /\ sync'.next = 1 /\ sync'.found = Looked
    <3>1. BehindIsSynced' /\ AllIsSynced' /\ Object' = Object
      BY <2>1, <2>2, <2>3, <2>4, StillInObject DEF Working, GroupPhase
    <3>2. ASSUME NEW i, NEW t \in Triple, <<i, t>> \in Looked
          PROVE  i \in Sensors' /\ sensor'[i] = t
      <4>1. PICK l \in sensorsLike({Object.sensors[k] : k \in DOMAIN Object.sensors}) :
              <<i, t>> = <<l, sensor[l]>>
        BY <3>2 DEF Looked
      <4> QED  BY <2>1, <4>1 DEF sensorsLike, Sensors
    <3>3. FoundIsCurrent'
      BY <2>4, <3>2 DEF FoundIsCurrent
    <3>4. SensorsCollected'
      <4>1. \A k \in DOMAIN Object.sensors : ~(k < 1)
        BY <2>2 DEF GroupObject
      <4> QED  BY <2>4, <3>1, <4>1 DEF SensorsCollected
    <3> QED  BY <2>4, <3>1, <3>3, <3>4 DEF SyncedInv, NestedExist, TargetIsCurrent
  <2>5. CASE Object.sensors = <<>> /\ AtGroups
    BY <2>1, <2>2, <2>3, <2>5, GroupsBegin DEF Working
  <2> QED  BY <2>2, <2>4, <2>5
<1>8. CASE TakeGroupSensor
  <2> DEFINE triple == Object.sensors[sync.next]
             n == Len(sensor) + 1
  <2>1. /\ sync.phase = "sensors" /\ Object \in GroupObject
        /\ sync.next \in DOMAIN Object.sensors /\ triple \in Triple
        /\ UNCHANGED <<group, goneSensors, goneGroups, queue, removed>>
        /\ \/ /\ \E i \in DOMAIN sensor : <<i, triple>> \in sync.found /\ TakenSensors({i})
              /\ sensor' = sensor
           \/ triple \in Bare /\ TakenSensors({}) /\ sensor' = sensor
           \/ TakenSensors({n}) /\ sensor' = Append(sensor, triple)
    BY <1>8, TakeIs
  <2>2. /\ DOMAIN sensor \subseteq DOMAIN sensor'
        /\ \A i \in DOMAIN sensor : sensor'[i] = sensor[i]
        /\ sensor' = Append(sensor, triple) =>
             /\ DOMAIN sensor' = DOMAIN sensor \cup {n} /\ n \notin DOMAIN sensor
             /\ sensor'[n] = triple
    <3>1. /\ sensor \in Seq(Triple \ Bare)
          /\ sensor' = sensor \/ sensor' = Append(sensor, triple)
      BY <2>1 DEF Typed
    <3>2. CASE sensor' = Append(sensor, triple)
      BY <3>1, <3>2, AppendIs
    <3>3. CASE sensor' = sensor /\ sensor' # Append(sensor, triple)
      BY <3>3
    <3> QED  BY <3>1, <3>2, <3>3
  <2>3. Keeps
    BY <1>1, <2>1, <2>2, KeepsAll
  <2>4. PICK ids : /\ TakenSensors(ids)
                   /\ triple \notin Bare /\ Kept(triple) =>
                        \E s \in ids \cap Sensors' : sensor'[s] = triple
    <3>1. CASE \E i \in DOMAIN sensor : <<i, triple>> \in sync.found /\ TakenSensors({i})
      <4>1. PICK i \in DOMAIN sensor : <<i, triple>> \in sync.found /\ TakenSensors({i})
        BY <3>1
      <4>2. Kept(triple) => i \in Sensors /\ sensor[i] = triple
        BY <2>1, <4>1 DEF SyncedInv, FoundIsCurrent
      <4>3. Kept(triple) => i \in Sensors' /\ sensor'[i] = triple
        BY <2>1, <2>2, <4>2 DEF Sensors
      <4>4. i \in {i}
        OBVIOUS
      <4> QED  BY <4>1, <4>3, <4>4
    <3>2. CASE triple \in Bare /\ TakenSensors({})
      BY <3>2
    <3>3. CASE TakenSensors({n}) /\ sensor' = Append(sensor, triple)
      <4>1. n \in Sensors' /\ sensor'[n] = triple
        BY <2>1, <2>2, <3>3 DEF Typed, Sensors
      <4> QED  BY <3>3, <4>1
    <3> QED  BY <2>1, <3>1, <3>2, <3>3
  <2>5. sync'.at = sync.at /\ sync'.sensors = sync.sensors \cup ids
    BY <2>4 DEF TakenSensors
  <2>6. sync.next \in Nat /\ DOMAIN Object.sensors = 1 .. Len(Object.sensors)
        /\ Len(Object.sensors) \in Nat
    BY <2>1 DEF GroupObject
  <2>7. ASSUME NEW k \in DOMAIN Object.sensors, k <= sync.next, Object.sensors[k] \notin Bare,
               CaseOf[Object.sensors[k]] \notin removed'.sensors
        PROVE  \E s \in sync'.sensors \cap Sensors' : sensor'[s] = Object.sensors[k]
    <3>1. Kept(Object.sensors[k])
      BY <2>1, <2>7 DEF Kept
    <3>2. CASE k = sync.next
      BY <2>4, <2>5, <2>7, <3>1, <3>2
    <3>3. CASE k # sync.next
      <4>1. k < sync.next
        BY <2>6, <2>7, <3>3
      <4>2. PICK s \in sync.sensors \cap Sensors : sensor[s] = Object.sensors[k]
        BY <2>1, <2>7, <3>1, <4>1 DEF SyncedInv, SensorsCollected, GroupPhase
      <4> QED  BY <2>5, <2>7, <4>2, <2>3 DEF Keeps
    <3> QED  BY <3>2, <3>3
  <2>8. CASE /\ sync'.phase = "sensors" /\ sync'.next = sync.next + 1 /\ sync'.found = sync.found
    <3>1. BehindIsSynced' /\ AllIsSynced' /\ Object' = Object
      BY <2>1, <2>3, <2>5, <2>8, StillInObject DEF Working, GroupPhase
    <3>2. SensorsCollected'
      <4>1. \A k \in DOMAIN Object.sensors : k < sync.next + 1 => k <= sync.next
        BY <2>6
      <4> QED  BY <2>7, <2>8, <3>1, <4>1 DEF SensorsCollected, Kept
    <3>3. FoundIsCurrent'
      <4> SUFFICES ASSUME NEW i, NEW t \in Triple, <<i, t>> \in sync.found,
                          CaseOf[t] \notin removed'.sensors
                   PROVE  i \in Sensors' /\ sensor'[i] = t
        BY <2>8 DEF FoundIsCurrent, Kept
      <4>1. i \in DOMAIN sensor /\ Kept(t)
        BY <2>1 DEF Typed, SyncState, Kept
      <4>2. i \in Sensors /\ sensor[i] = t
        BY <2>1, <4>1 DEF SyncedInv, FoundIsCurrent
      <4> QED  BY <2>1, <2>2, <4>2 DEF Sensors
    <3> QED  BY <2>8, <3>1, <3>2, <3>3 DEF SyncedInv, NestedExist, TargetIsCurrent
  <2>9. CASE sync.next = Len(Object.sensors) /\ AtGroups
    <3>1. \A k \in DOMAIN Object.sensors : k <= sync.next
      BY <2>6, <2>9
    <3> QED  BY <2>1, <2>3, <2>5, <2>7, <2>9, <3>1, GroupsBegin DEF Working, GroupPhase
  <2> QED  BY <2>4, <2>8, <2>9 DEF TakenSensors
<1>9. ASSUME sync.phase \in {"groups", "createNested"}, Keeps, queue' = queue, TakenGroup,
             \E n \in Groups' : group'[n].id = Object.groups[sync.next]
      PROVE  SyncedInv'
  <2>1. Object \in GroupObject /\ sync.next \in DOMAIN Object.groups
    BY <1>9, PlacedIs DEF Placed, Working, GroupPhase
  <2>2. sync.next \in Nat /\ DOMAIN Object.groups = 1 .. Len(Object.groups)
        /\ Len(Object.groups) \in Nat
    BY <2>1 DEF GroupObject
  <2>3. /\ sync'.at = sync.at /\ sync'.sensors = sync.sensors
        /\ \/ sync'.phase = "groups" /\ sync'.next = sync.next + 1
           \/ sync'.phase = "findGroup" /\ sync.next = Len(Object.groups)
    BY <1>9 DEF TakenGroup
  <2>4. BehindIsSynced' /\ AllIsSynced' /\ Object' = Object
    BY <1>9, <2>3, StillInObject DEF Working, GroupPhase
  <2>5. SensorsCollected'
    BY <1>9, <2>3, <2>4, CollectedStays DEF GroupPhase
  <2>6. ASSUME NEW k \in DOMAIN Object.groups, k <= sync.next,
               Object.groups[k] \notin removed'.groups
        PROVE  \E n \in Groups' : group'[n].id = Object.groups[k]
    <3>1. CASE k = sync.next
      BY <1>9, <3>1
    <3>2. CASE k # sync.next
      <4>1. k < sync.next /\ Object.groups[k] \notin removed.groups
        BY <1>9, <2>2, <2>6, <3>2 DEF Keeps
      <4>2. PICK n \in Groups : group[n].id = Object.groups[k]
        BY <1>9, <2>6, <4>1 DEF SyncedInv, NestedExist, GroupPhase
      <4> QED  BY <1>9, <2>6, <4>2 DEF Keeps
    <3> QED  BY <3>1, <3>2
  <2>7. NestedExist'
    <3>1. \A k \in DOMAIN Object.groups :
            (sync'.phase \in {"groups", "createNested"} => k < sync'.next) => k <= sync.next
      BY <2>2, <2>3
    <3> QED  BY <2>4, <2>6, <3>1 DEF NestedExist
  <2> QED
    BY <2>3, <2>4, <2>5, <2>7 DEF SyncedInv, FoundIsCurrent, TargetIsCurrent
<1>10. CASE FindNestedGroup
  <2>1. /\ sync.phase = "groups"
        /\ UNCHANGED <<sensor, group, goneSensors, goneGroups, queue, removed>>
        /\ \/ \E n \in groupsLike(Object.groups[sync.next]) :
                sync' = AfterGroups([sync EXCEPT !.next = @ + 1, !.groups = @ \cup {n}])
           \/ sync' = [sync EXCEPT !.phase = "createNested"]
    BY <1>10 DEF FindNestedGroup
  <2>2. Keeps
    BY <1>2, <2>1
  <2>3. CASE \E n \in groupsLike(Object.groups[sync.next]) :
               sync' = AfterGroups([sync EXCEPT !.next = @ + 1, !.groups = @ \cup {n}])
    <3>1. PICK n \in groupsLike(Object.groups[sync.next]) :
            sync' = AfterGroups([sync EXCEPT !.next = @ + 1, !.groups = @ \cup {n}])
      BY <2>3
    <3>2. n \in DOMAIN group /\ n \in Groups' /\ group'[n].id = Object.groups[sync.next]
      BY <2>1, <3>1 DEF groupsLike, Groups
    <3>3. TakenGroup
      BY <2>1, <3>1, <3>2, NestedMoves
    <3> QED  BY <1>9, <2>1, <2>2, <3>2, <3>3
  <2>4. CASE sync' = [sync EXCEPT !.phase = "createNested"]
    <3>1. /\ sync'.phase = "createNested" /\ sync'.at = sync.at /\ sync'.next = sync.next
          /\ sync'.sensors = sync.sensors
      BY <2>4 DEF Typed, SyncState
    <3>2. BehindIsSynced' /\ AllIsSynced' /\ Object' = Object
      BY <2>1, <2>2, <3>1, StillInObject DEF Working, GroupPhase
    <3>3. SensorsCollected'
      BY <2>1, <2>2, <3>1, <3>2, CollectedStays DEF GroupPhase
    <3>4. NestedExist'
      BY <2>1, <3>1, <3>2 DEF SyncedInv, NestedExist, GroupPhase, Groups
    <3> QED  BY <3>1, <3>2, <3>3, <3>4 DEF SyncedInv, FoundIsCurrent, TargetIsCurrent
  <2> QED  BY <2>1, <2>3, <2>4
<1>11. ASSUME NEW doc, group' = Append(group, doc),
              UNCHANGED <<sensor, goneSensors, goneGroups, removed>>
       PROVE  /\ Keeps /\ Len(group) + 1 \in Groups' /\ group'[Len(group) + 1] = doc
              /\ Len(group) + 1 \in DOMAIN group' /\ DOMAIN group \subseteq DOMAIN group'
  <2>1. /\ DOMAIN group' = DOMAIN group \cup {Len(group) + 1}
        /\ Len(group) + 1 \notin DOMAIN group
        /\ \A n \in DOMAIN group : group'[n] = group[n]
        /\ group'[Len(group) + 1] = doc
    BY <1>11, AppendIs DEF Typed
  <2>2. Keeps
    BY <1>1, <1>11, <2>1, KeepsAll
  <2> QED  BY <1>11, <2>1, <2>2 DEF Typed, Groups
<1>12. CASE CreateNestedGroup
  <2> DEFINE doc == [id |-> Object.groups[sync.next], sensors |-> {}, groups |-> {}]
             n == Len(group) + 1
  <2>1. /\ sync.phase = "createNested" /\ group' = Append(group, doc)
        /\ sync' = AfterGroups([sync EXCEPT !.next = @ + 1, !.groups = @ \cup {n}])
        /\ UNCHANGED <<sensor, goneSensors, goneGroups, queue, removed>>
    BY <1>12 DEF CreateNestedGroup
  <2>2. /\ Keeps /\ n \in Groups' /\ group'[n] = doc /\ n \in DOMAIN group'
        /\ DOMAIN group \subseteq DOMAIN group'
    BY <1>11, <2>1
  <2>3. TakenGroup
    BY <2>1, <2>2, NestedMoves
  <2> QED  BY <1>9, <2>1, <2>2, <2>3
<1>13. CASE FindGroup
  <2>1. /\ sync.phase = "findGroup"
        /\ UNCHANGED <<sensor, group, goneSensors, goneGroups, queue, removed>>
        /\ \/ \E n \in groupsLike(Object.id) :
                sync' = [sync EXCEPT !.phase = "updateGroup", !.target = n]
           \/ sync' = [sync EXCEPT !.phase = "createGroup"]
    BY <1>13 DEF FindGroup
  <2>2. Keeps
    BY <1>2, <2>1
  <2>3. /\ sync'.phase \in {"updateGroup", "createGroup"} /\ sync'.at = sync.at
        /\ sync'.sensors = sync.sensors
        /\ sync'.phase = "updateGroup" => sync'.target \in groupsLike(Object.id)
    BY <2>1 DEF Typed, SyncState
  <2>4. BehindIsSynced' /\ AllIsSynced' /\ Object' = Object
    BY <2>1, <2>2, <2>3, StillInObject DEF Working, GroupPhase
  <2>5. SensorsCollected'
    BY <2>1, <2>2, <2>3, <2>4, CollectedStays DEF GroupPhase
  <2>6. NestedExist'
    BY <2>1, <2>3, <2>4 DEF SyncedInv, NestedExist, GroupPhase, Groups
  <2>7. TargetIsCurrent'
    BY <2>1, <2>3, <2>4 DEF TargetIsCurrent, groupsLike, Groups
  <2> QED  BY <2>3, <2>4, <2>5, <2>6, <2>7 DEF SyncedInv, FoundIsCurrent
<1>14. CASE UpdateGroup
  <2> DEFINE N == {sync.target} \cap Groups
  <2>1. /\ sync.phase = "updateGroup" /\ sync' = ObjectDone
        /\ group' = [k \in DOMAIN group |-> IF k \in N THEN withSensors(group[k], sync.sensors)
                                                       ELSE group[k]]
        /\ UNCHANGED <<sensor, goneSensors, goneGroups, queue, removed>>
    BY <1>14 DEF UpdateGroup
  <2>2. Object \in GroupObject
    BY <2>1, PlacedIs DEF Placed, Working, GroupPhase
  <2>3. sync.sensors \in SUBSET DOMAIN sensor /\ N \in SUBSET DOMAIN group
    BY DEF Typed, SyncState, Groups
  <2>4. /\ DOMAIN group' = DOMAIN group
        /\ \A k \in DOMAIN group : /\ group'[k].id = group[k].id
                                   /\ group[k].sensors \subseteq group'[k].sensors
        /\ \A k \in N : group'[k].sensors = group[k].sensors \cup sync.sensors
    BY <2>1, <2>3, GroupsExtended
  <2>5. Keeps
    BY <1>1, <2>1, <2>4, KeepsAll
  <2>6. \/ Object.id \in removed'.groups
        \/ \E n \in Groups' : group'[n].id = Object.id /\ sync.sensors \subseteq group'[n].sensors
    <3>1. CASE Object.id \in removed.groups
      BY <2>1, <3>1
    <3>2. CASE sync.target \in Groups /\ group[sync.target].id = Object.id
      <4>1. sync.target \in Groups' /\ sync.target \in N /\ sync.target \in DOMAIN group
        BY <2>1, <2>4, <3>2 DEF Groups
      <4> QED  BY <2>4, <3>2, <4>1
    <3> QED  BY <2>1, <3>1, <3>2 DEF SyncedInv, TargetIsCurrent
  <2>7. \A o \in Objects : o = Object => Synced(o)'
    BY <2>1, <2>2, <2>5, <2>6, TargetSynced
  <2> QED  BY <2>1, <2>5, <2>7, ObjectFinished DEF Working, GroupPhase
<1>15. CASE FailUpdate
  <2>1. /\ sync.phase = "updateGroup" /\ sync' = ObjectDone
        /\ UNCHANGED <<sensor, group, goneSensors, goneGroups, queue>>
        /\ removed' = [removed EXCEPT !.groups = @ \cup {Object.id}]
    BY <1>15 DEF FailUpdate
  <2>2. Object \in GroupObject
    BY <2>1, PlacedIs DEF Placed, Working, GroupPhase
  <2>3. Keeps /\ Object.id \in removed'.groups
    BY <1>1, <1>2, <2>1 DEF Exempt
  <2>4. \A o \in Objects : o = Object => Synced(o)'
    BY <2>1, <2>2, <2>3, TargetSynced
  <2> QED  BY <2>1, <2>3, <2>4, ObjectFinished DEF Working, GroupPhase
<1>16. CASE CreateGroup
  <2> DEFINE doc == [id |-> Object.id, sensors |-> sync.sensors, groups |-> sync.groups]
             n == Len(group) + 1
  <2>1. /\ sync.phase = "createGroup" /\ sync' = ObjectDone /\ group' = Append(group, doc)
        /\ UNCHANGED <<sensor, goneSensors, goneGroups, queue, removed>>
    BY <1>16 DEF CreateGroup
  <2>2. Object \in GroupObject
    BY <2>1, PlacedIs DEF Placed, Working, GroupPhase
  <2>3. Keeps /\ n \in Groups' /\ group'[n] = doc
    BY <1>11, <2>1
  <2>4. \A o \in Objects : o = Object => Synced(o)'
    BY <2>1, <2>2, <2>3, TargetSynced
  <2> QED  BY <2>1, <2>3, <2>4, ObjectFinished DEF Working, GroupPhase
<1> QED
  BY <1>3, <1>4, <1>5, <1>6, <1>7, <1>8, <1>10, <1>12, <1>13, <1>14, <1>15, <1>16

\* The calls beside it.
LEMMA SyncedByCalls ==
  ASSUME Typed, Placed, SyncedInv,
         \/ \E m \in Message : SendObjects(m)
         \/ \E t \in Triple \ Bare : PostSensor(t)
         \/ \E i \in DOMAIN sensor, t \in Triple \ Bare : PatchSensor(i, t)
         \/ \E i \in DOMAIN sensor : DeleteSensor(i)
         \/ \E id \in GroupMO, sensors \in SUBSET Sensors : PostGroup(id, sensors)
         \/ \E n \in DOMAIN group, sensors \in SUBSET Sensors : PatchGroup(n, sensors)
         \/ \E n \in DOMAIN group : DeleteGroup(n)
  PROVE  SyncedInv'
<1>1. removed \in Exempt
  BY DEF Typed
<1>2. ASSUME NEW m \in Message, SendObjects(m) PROVE Keeps
  BY <1>2 DEF SendObjects, Keeps, Sensors, Groups
<1>3. ASSUME NEW t \in Triple \ Bare, PostSensor(t) PROVE Keeps
  BY <1>1, <1>3, SensorAdded, KeepsAll DEF PostSensor
<1>4. ASSUME NEW i \in DOMAIN sensor, NEW t \in Triple \ Bare, PatchSensor(i, t) PROVE Keeps
  <2>1. /\ DOMAIN sensor' = DOMAIN sensor /\ \A k \in DOMAIN sensor \ {i} : sensor'[k] = sensor[k]
        /\ UNCHANGED <<group, goneSensors, goneGroups>>
        /\ CaseOf[sensor[i]] \in removed'.sensors
        /\ removed.sensors \subseteq removed'.sensors /\ removed'.groups = removed.groups
    BY <1>1, <1>4 DEF PatchSensor, Exempt, Typed
  <2> QED  BY <2>1 DEF Keeps, Sensors, Groups
<1>5. ASSUME NEW i \in DOMAIN sensor, DeleteSensor(i) PROVE Keeps
  <2>1. /\ UNCHANGED <<sensor, group, goneGroups>> /\ goneSensors' = goneSensors \cup {i}
        /\ CaseOf[sensor[i]] \in removed'.sensors
        /\ removed.sensors \subseteq removed'.sensors /\ removed'.groups = removed.groups
    BY <1>1, <1>5 DEF DeleteSensor, Exempt
  <2> QED  BY <2>1 DEF Keeps, Sensors, Groups
<1>6. ASSUME NEW id \in GroupMO, NEW sensors \in SUBSET Sensors, PostGroup(id, sensors)
      PROVE  Keeps
  <2> DEFINE doc == [id |-> id, sensors |-> sensors, groups |-> {}]
  <2>1. group' = Append(group, doc) /\ UNCHANGED <<sensor, goneSensors, goneGroups, removed>>
    BY <1>6 DEF PostGroup
  <2>2. DOMAIN group \subseteq DOMAIN group' /\ \A n \in DOMAIN group : group'[n] = group[n]
    BY <2>1, AppendIs DEF Typed
  <2> QED  BY <1>1, <2>1, <2>2, KeepsAll
<1>7. ASSUME NEW n \in DOMAIN group, NEW sensors \in SUBSET Sensors, PatchGroup(n, sensors)
      PROVE  Keeps
  <2>1. /\ group' = [k \in DOMAIN group |-> IF k \in {n} THEN withSensors(group[k], sensors)
                                                         ELSE group[k]]
        /\ UNCHANGED <<sensor, goneSensors, goneGroups, removed>>
    BY <1>7 DEF PatchGroup
  <2>2. {n} \in SUBSET DOMAIN group /\ sensors \in SUBSET DOMAIN sensor
    BY DEF Sensors
  <2>3. /\ DOMAIN group' = DOMAIN group
        /\ \A k \in DOMAIN group : /\ group'[k].id = group[k].id
                                   /\ group[k].sensors \subseteq group'[k].sensors
    BY <2>1, <2>2, GroupsExtended
  <2> QED  BY <1>1, <2>1, <2>3, KeepsAll
<1>8. ASSUME NEW n \in DOMAIN group, DeleteGroup(n) PROVE Keeps
  <2>1. /\ UNCHANGED <<sensor, group, goneSensors>> /\ goneGroups' = goneGroups \cup {n}
        /\ group[n].id \in removed'.groups
        /\ removed.groups \subseteq removed'.groups /\ removed'.sensors = removed.sensors
    BY <1>1, <1>8 DEF DeleteGroup, Exempt
  <2> QED  BY <2>1 DEF Keeps, Sensors, Groups
<1>9. Keeps
  BY <1>2, <1>3, <1>4, <1>5, <1>6, <1>7, <1>8
<1> QED  BY <1>9, CallTypes, SyncedBeside

LEMMA SyncedStep == TypeInv /\ SyncedInv /\ [Next]_vars => SyncedInv'
<1> SUFFICES ASSUME TypeInv, SyncedInv, [Next]_vars PROVE SyncedInv'  OBVIOUS
<1>1. Typed /\ Placed
  BY TypeParts DEF TypeInv
<1>2. CASE Next
  BY <1>1, <1>2, SyncedByHandler, SyncedByCalls DEF Next
<1>3. CASE UNCHANGED vars
  <2>1. Keeps
    BY <1>3 DEF vars, Keeps, Sensors, Groups
  <2> QED  BY <1>1, <1>3, <2>1, SyncedBeside DEF vars
<1> QED  BY <1>2, <1>3

(* When a message is applied, every sensor and group it reports exists and    *)
(* the groups hold their sensors, but for what was removed or renamed since   *)
(* its delivery and groups whose update failed.                               *)
THEOREM AppliedSynced == Spec => []AppliedMessageIsSynced
<1>1. Init => SyncedInv
  BY DEF Init, Idle, SyncedInv, BehindIsSynced, AllIsSynced, FoundIsCurrent, SensorsCollected,
         NestedExist, TargetIsCurrent, Working, GroupPhase
<1>2. ASSUME TypeInv, SyncedInv PROVE AppliedMessageIsSynced
  <2>1. Typed
    BY <1>2, TypeParts DEF TypeInv
  <2>2. ASSUME sync.phase = "applied", NEW k \in DOMAIN Head(queue)
        PROVE  Synced(Head(queue)[k])
    <3>1. queue # <<>> /\ queue \in Seq(Message)
      BY <2>1, <2>2 DEF Typed
    <3>2. Head(queue)[k] \in Objects
      BY <2>2, <3>1, ObjectsAre DEF Objects
    <3> QED  BY <1>2, <2>2, <3>2 DEF SyncedInv, AllIsSynced
  <2> QED  BY <2>2 DEF AppliedMessageIsSynced
<1> QED  BY <1>1, <1>2, SyncedStep, TypeInit, TypeStep, PTL DEF Spec
=============================================================================
