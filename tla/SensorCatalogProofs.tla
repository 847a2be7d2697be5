------------------------ MODULE SensorCatalogProofs ------------------------
(***************************************************************************)
(* Theorems about SensorCatalog, for any calls, requests, attributes,      *)
(* numbers of sensors and sizes of pages.                                  *)
(***************************************************************************)
EXTENDS SensorCatalog, FiniteSetTheorems, FunctionTheorems, TLAPS

----------------------------------------------------------------------------
(* Types of what the operators return.                                     *)

\* A request is one of those named, and names sensors and keys.
LEMMA RequestFields ==
  ASSUME NEW q \in Request
  PROVE  /\ q.ids \in SUBSET Id /\ q.keys \in SUBSET Key
         /\ q.type \in Type \cup {"any"}
BY RequestAssumption DEF SensorDto

\* A call is one before and after it has begun.
LEMMA CallAtType ==
  ASSUME NEW pc \in {"idle", "running", "done"}, NEW q \in Request,
         NEW left \in SUBSET Id, NEW due \in SUBSET Id
  PROVE  CallAt(pc, q, left, due) \in CallState
BY DEF CallAt, CallState

\* No attributes are attributes.
LEMMA NoAttributes == <<>> \in Attributes
<1>1. <<>> \in [{} -> Call]
  OBVIOUS
<1> QED  BY <1>1 DEF Attributes

\* Setting keys, and taking keys away, leaves attributes.
LEMMA AttributesType ==
  ASSUME NEW d \in Attributes
  PROVE  /\ \A c \in Call, keys \in SUBSET Key : withAttributes(d, c, keys) \in Attributes
         /\ \A S : Restrict(d, DOMAIN d \ S) \in Attributes
<1>1. DOMAIN d \in SUBSET Key /\ \A k \in DOMAIN d : d[k] \in Call
  BY DEF Attributes
<1>2. ASSUME NEW c \in Call, NEW keys \in SUBSET Key
      PROVE  withAttributes(d, c, keys) \in Attributes
  <2>1. keys \cup DOMAIN d \in SUBSET Key
    BY <1>1
  <2>2. withAttributes(d, c, keys) \in [keys \cup DOMAIN d -> Call]
    BY <1>1 DEF withAttributes
  <2> QED  BY <2>1, <2>2 DEF Attributes
<1>3. ASSUME NEW S PROVE Restrict(d, DOMAIN d \ S) \in Attributes
  <2>1. DOMAIN d \ S \in SUBSET Key
    BY <1>1
  <2>2. Restrict(d, DOMAIN d \ S) \in [DOMAIN d \ S -> Call]
    BY <1>1 DEF Restrict
  <2> QED  BY <2>1, <2>2 DEF Attributes
<1> QED  BY <1>2, <1>3

\* Sets of sensors are finite.
LEMMA IdFinite ==
  /\ IsFiniteSet(Id)
  /\ \A S \in SUBSET Id : IsFiniteSet(S) /\ Cardinality(S) \in Nat
<1>1. IsFiniteSet(Id)
  BY FS_Interval, BoundAssumption DEF Id
<1> QED  BY <1>1, FS_Subset, FS_CardinalityType

\* What a change of the sensors does to the search.
LEMMA FollowedType ==
  ASSUME stored \in SUBSET Id, stored' \in SUBSET Id, search \in SearchState
  PROVE  Followed \in SearchState
<1> DEFINE after == {s \in stored' : type'[s] = search.type}
           left  == found(search.type) \ after
           new   == after \ found(search.type)
<1>1. left \in SUBSET Id /\ new \in SUBSET Id /\ left \cup new \in SUBSET Id
  BY DEF found
<1>2. Cardinality(left \cup new) \in Nat
  BY <1>1, IdFinite
<1> HIDE DEF left, new
<1>3. search.drift + Cardinality(left \cup new) \in Nat
  BY <1>2 DEF SearchState
<1>4. Followed = IF search.pc \notin {"ask", "counted"} THEN search
                 ELSE [search EXCEPT !.steady = @ \ left, !.gone = @ \cup left,
                         !.came = @ \cup new,
                         !.drift = IF search.pc = "counted"
                                   THEN @ + Cardinality(left \cup new) ELSE @]
  BY DEF Followed, left, new
<1> QED  BY <1>1, <1>3, <1>4 DEF SearchState

\* The history of what was meant and written.
LEMMA MeansType ==
  ASSUME TypeOK, NEW c \in Call, NEW s \in Id, NEW keys, NEW cleared,
         Means(c, s, keys, cleared)
  PROVE  meant' \in [Id -> [Key -> Call \cup {None}]] /\ wrote' \in [Call -> SUBSET Id]
BY DEF Means, TypeOK

----------------------------------------------------------------------------
\* The sensors that are there have _ids.
LEMMA StoredType ==
  ASSUME TypeOK
  PROVE  stored \in SUBSET Id /\ last \in Nat
BY BoundAssumption DEF TypeOK, Id

\* The initial states are typed.
LEMMA TypeInit == Init => TypeOK
<1> SUFFICES ASSUME Init PROVE TypeOK  OBVIOUS
<1>1. /\ (CHOOSE q \in Request : TRUE) \in Request
      /\ (CHOOSE t \in Type : TRUE) \in Type
      /\ (CHOOSE n \in PageSize : TRUE) \in PageSize
  BY ValueAssumption, PagingAssumption
<1>2. call \in [Call -> CallState]
  BY <1>1, CallAtType DEF Init
<1>3. search \in SearchState
  BY <1>1 DEF Init, NewSearch, SearchState, Absent
<1>4. attr \in [Id -> Attributes]
  BY NoAttributes DEF Init
<1>5. type \in [Id -> Type]
  BY DEF Init
<1>6. last \in Initial .. MaxSensors /\ stored \subseteq Id
  BY BoundAssumption DEF Init, Id
<1>7. meant \in [Id -> [Key -> Call \cup {None}]] /\ wrote \in [Call -> SUBSET Id]
  BY DEF Init
<1> QED  BY <1>2, <1>3, <1>4, <1>5, <1>6, <1>7 DEF TypeOK

\* How many documents a creation has.
LEMMA DocumentsCount ==
  ASSUME NEW q \in Request
  PROVE  Cardinality(q.ids) \in Nat
BY RequestFields, IdFinite

\* A call that begins, and one whose answer to an update of one sensor comes in.
LEMMA CallTypes ==
  ASSUME TypeOK, NEW c \in Call
  PROVE  /\ \A q \in Request, left \in SUBSET Id, due \in SUBSET Id :
              Begin(c, q, left, due) => call' \in [Call -> CallState]
         /\ \A s \in Id, outcome \in Outcome :
              Settle(c, s, outcome) => call' \in [Call -> CallState]
<1>1. ASSUME NEW q \in Request, NEW left \in SUBSET Id, NEW due \in SUBSET Id,
             Begin(c, q, left, due)
      PROVE  call' \in [Call -> CallState]
  BY <1>1, CallAtType DEF Begin, TypeOK
<1>2. ASSUME NEW s \in Id, NEW outcome \in Outcome, Settle(c, s, outcome)
      PROVE  call' \in [Call -> CallState]
  <2>1. call \in [Call -> CallState] /\ call[c] \in CallState
    BY DEF TypeOK
  <2>2. [call[c].outcome EXCEPT ![s] = outcome] \in [Id -> Outcome \cup {"open"}]
    BY <2>1 DEF CallState
  <2>3. [call[c] EXCEPT !.left = @ \ {s}, !.outcome = [@ EXCEPT ![s] = outcome]] \in CallState
    BY <2>1, <2>2 DEF CallState
  <2>4. call' = [call EXCEPT ![c] = [call[c] EXCEPT !.left = @ \ {s},
                                        !.outcome = [@ EXCEPT ![s] = outcome]]]
    BY <1>2, <2>1 DEF Settle
  <2> QED  BY <2>1, <2>3, <2>4
<1> QED  BY <1>1, <1>2

\* Every action, and stuttering, keeps the types.
LEMMA TypeStep == TypeOK /\ [Next]_vars => TypeOK'
<1> SUFFICES ASSUME TypeOK, [Next]_vars PROVE TypeOK'  OBVIOUS
<1>1. ASSUME NEW c \in Call, NEW q \in Request, NEW left \in SUBSET Id,
             NEW due \in SUBSET Id, Begin(c, q, left, due)
      PROVE  TypeOK'
  BY <1>1, CallTypes DEF Begin, TypeOK
<1>2. ASSUME NEW c \in Call, NEW q \in Request,
             CreateSensors(c, q) \/ UpdateSensors(c, q) \/ UpdateMany(c, q)
      PROVE  TypeOK'
  <2>1. identified(q) \in SUBSET Id
    BY StoredType DEF identified
  <2>2. CASE CreateSensors(c, q)
    <3> DEFINE new == last + 1 .. last + Cardinality(q.ids)
    <3>1. /\ new \in SUBSET Id /\ last' = last + Cardinality(q.ids)
          /\ call' = [call EXCEPT ![c] = CallAt("running", q, new, {})]
          /\ UNCHANGED <<stored, type, attr, search, meant, wrote>>
      BY <2>2 DEF CreateSensors
    <3>2. call' \in [Call -> CallState]
      BY <3>1, CallAtType DEF TypeOK
    <3>3. last' \in Initial .. MaxSensors
      <4>1. last \in Initial .. MaxSensors /\ last \in Nat /\ Cardinality(q.ids) \in Nat
        BY StoredType, DocumentsCount DEF TypeOK
      <4>2. CASE Cardinality(q.ids) = 0
        BY <3>1, <4>1, <4>2
      <4>3. CASE Cardinality(q.ids) # 0
        <5>1. last + Cardinality(q.ids) \in Id
          BY <3>1, <4>1, <4>3
        <5> QED  BY <3>1, <4>1, <5>1, BoundAssumption DEF Id
      <4> QED  BY <4>2, <4>3
    <3> QED  BY <3>1, <3>2, <3>3 DEF TypeOK
  <2> QED  BY <1>1, <1>2, <2>1, <2>2, RequestFields DEF UpdateSensors, UpdateMany
<1>3. ASSUME NEW c \in Call, NEW s \in Id, NEW outcome \in Outcome,
             InsertSensor(c, s, outcome)
      PROVE  TypeOK'
  <2> DEFINE q == call[c].req
  <2>1. /\ q \in Request /\ q.keys \in SUBSET Key /\ q.type \in Type
        /\ stored' = stored \cup {s} /\ last' = last
    BY <1>3, RequestFields, CreationAssumption DEF TypeOK, CallState, InsertSensor, Running
  <2>2. last' \in Initial .. MaxSensors /\ stored' \subseteq Id
    BY <2>1 DEF TypeOK
  <2>3. type' \in [Id -> Type]
    BY <1>3, <2>1 DEF InsertSensor, TypeOK
  <2>4. attr' \in [Id -> Attributes]
    <3>1. withAttributes(<<>>, c, q.keys) \in Attributes
      BY <2>1, NoAttributes, AttributesType
    <3> QED  BY <1>3, <3>1 DEF InsertSensor, TypeOK
  <2>5. call' \in [Call -> CallState]
    BY <1>3, CallTypes DEF InsertSensor
  <2>6. meant' \in [Id -> [Key -> Call \cup {None}]] /\ wrote' \in [Call -> SUBSET Id]
    BY <1>3, MeansType DEF InsertSensor
  <2>7. search' \in SearchState
    <3>1. stored \in SUBSET Id /\ stored' \in SUBSET Id /\ search \in SearchState
      BY <2>2, StoredType DEF TypeOK
    <3> QED  BY <1>3, <3>1, FollowedType DEF InsertSensor
  <2> QED  BY <2>2, <2>3, <2>4, <2>5, <2>6, <2>7 DEF TypeOK
<1>4. ASSUME NEW c \in Call, NEW n \in Id, FailInsert(c, n) PROVE TypeOK'
  BY <1>4, CallTypes DEF FailInsert, TypeOK, Outcome
<1>5. ASSUME NEW c \in Call, NEW s \in Id, NEW outcome \in Outcome,
             UpdateSensor(c, s, outcome)
      PROVE  TypeOK'
  <2>1. call[c].req \in Request /\ call[c].req.keys \in SUBSET Key
        /\ call[c].req.type \in Type \cup {"any"}
    BY RequestFields DEF TypeOK, CallState
  <2>2. type' \in [Id -> Type]
    BY <1>5, <2>1 DEF UpdateSensor, TypeOK
  <2>3. attr' \in [Id -> Attributes]
    BY <1>5, <2>1, AttributesType DEF UpdateSensor, TypeOK
  <2>4. call' \in [Call -> CallState]
    BY <1>5, CallTypes DEF UpdateSensor
  <2>5. meant' \in [Id -> [Key -> Call \cup {None}]] /\ wrote' \in [Call -> SUBSET Id]
    BY <1>5, MeansType DEF UpdateSensor
  <2>6. search' \in SearchState
    BY <1>5, StoredType, FollowedType DEF UpdateSensor, TypeOK
  <2> QED  BY <1>5, <2>2, <2>3, <2>4, <2>5, <2>6 DEF UpdateSensor, TypeOK
<1>6. ASSUME NEW c \in Call, NEW s \in Id, NEW outcome \in Outcome,
             MissSensor(c, s, outcome)
      PROVE  TypeOK'
  BY <1>6, CallTypes DEF MissSensor, TypeOK
<1>7. ASSUME NEW c \in Call, NEW q \in Request, UpdateOne(c, q) PROVE TypeOK'
  <2>1. q.ids \in SUBSET Id /\ q.keys \in SUBSET Key /\ q.type \in Type \cup {"any"}
    BY RequestFields
  <2>2. PICK s \in q.ids :
          IF s \in stored
          THEN /\ type' = IF q.type = "any" THEN type ELSE [type EXCEPT ![s] = q.type]
               /\ attr' = [attr EXCEPT ![s] = withCustomAttributes(@, c, q)]
               /\ Means(c, s, q.keys, IF q.whole THEN Custom ELSE {})
          ELSE UNCHANGED <<type, attr, meant, wrote>>
    BY <1>7 DEF UpdateOne
  <2>3. s \in Id
    BY <2>1
  <2>4. type' \in [Id -> Type]
    BY <2>1, <2>2, <2>3 DEF TypeOK
  <2>5. \A d \in Attributes : withCustomAttributes(d, c, q) \in Attributes
    BY <2>1, AttributesType DEF withCustomAttributes
  <2>6. attr' \in [Id -> Attributes]
    BY <2>2, <2>3, <2>5 DEF TypeOK
  <2>7. meant' \in [Id -> [Key -> Call \cup {None}]] /\ wrote' \in [Call -> SUBSET Id]
    BY <2>2, <2>3, MeansType DEF TypeOK
  <2>8. call' \in [Call -> CallState]
    <3>1. CallAt("done", q, {}, {}) \in CallState
      BY CallAtType
    <3>2. [CallAt("done", q, {}, {}) EXCEPT !.answer = q.ids \cap stored] \in CallState
      BY <2>1, <3>1 DEF CallState
    <3> QED  BY <1>7, <3>2 DEF UpdateOne, TypeOK
  <2>9. search' \in SearchState
    BY <1>7, StoredType, FollowedType DEF UpdateOne, TypeOK
  <2> QED  BY <1>7, <2>4, <2>6, <2>7, <2>8, <2>9 DEF UpdateOne, TypeOK
<1>8. ASSUME NEW c \in Call, NEW q \in Request, RemoveSensor(c, q) PROVE TypeOK'
  <2>1. CallAt("done", q, {}, {}) \in CallState
    BY CallAtType
  <2>2. call' \in [Call -> CallState]
    BY <1>8, <2>1 DEF RemoveSensor, TypeOK
  <2>3. search' \in SearchState
    BY <1>8, StoredType, FollowedType DEF RemoveSensor, TypeOK
  <2> QED  BY <1>8, <2>2, <2>3 DEF RemoveSensor, TypeOK
<1>9. ASSUME NEW c \in Call, NEW s \in Id, SetAttributes(c, s) \/ UnsetAttributes(c, s)
      PROVE  TypeOK'
  <2>1. call[c] \in CallState /\ call[c].req \in Request /\ call[c].req.keys \in SUBSET Key
    BY RequestFields DEF TypeOK, CallState
  <2>2. \A d \in Attributes : /\ withAttributes(d, c, call[c].req.keys) \in Attributes
                              /\ withoutAttributes(d, call[c].req) \in Attributes
    BY <2>1, AttributesType DEF withoutAttributes
  <2>3. attr' \in [Id -> Attributes]
    <3>1. PICK d \in Attributes : attr' = [attr EXCEPT ![s] = d]
      <4>1. attr[s] \in Attributes
        BY DEF TypeOK
      <4>2. CASE SetAttributes(c, s)
        BY <2>2, <4>1, <4>2 DEF SetAttributes
      <4>3. CASE UnsetAttributes(c, s)
        BY <2>2, <4>1, <4>3 DEF UnsetAttributes
      <4> QED  BY <1>9, <4>2, <4>3
    <3> QED  BY <3>1 DEF TypeOK
  <2>4. call' \in [Call -> CallState]
    <3>1. [call[c] EXCEPT !.left = @ \ {s}] \in CallState
      BY <2>1 DEF CallState
    <3>2. call' = [call EXCEPT ![c] = [call[c] EXCEPT !.left = @ \ {s}]]
      BY <1>9, <2>1 DEF SetAttributes, UnsetAttributes, CallState, TypeOK
    <3> QED  BY <3>1, <3>2 DEF TypeOK
  <2>5. meant' \in [Id -> [Key -> Call \cup {None}]] /\ wrote' \in [Call -> SUBSET Id]
    BY <1>9, MeansType DEF SetAttributes, UnsetAttributes
  <2> QED  BY <1>9, <2>3, <2>4, <2>5 DEF SetAttributes, UnsetAttributes, TypeOK
<1>10. ASSUME NEW c \in Call, Answer(c) PROVE TypeOK'
  <2>1. call[c] \in CallState
    BY DEF TypeOK
  <2>2. answerOf(call[c]) \in SUBSET Id
    BY <2>1 DEF answerOf, completedUpdates, CallState
  <2>3. call' \in [Call -> CallState]
    BY <1>10, <2>1, <2>2 DEF Answer, TypeOK, CallState
  <2> QED  BY <1>10, <2>3 DEF Answer, TypeOK
<1>11. ASSUME NEW t \in Type, NEW size \in PageSize, StartSearch(t, size) PROVE TypeOK'
  <2>1. found(t) \in SUBSET Id
    BY StoredType DEF found
  <2>2. search' \in SearchState
    BY <1>11, <2>1 DEF StartSearch, NewSearch, SearchState, Absent
  <2> QED  BY <1>11, <2>2 DEF StartSearch, TypeOK
<1>12. CASE CountSensors
  <2>1. found(search.type) \in SUBSET Id
    BY StoredType DEF found
  <2>2. Cardinality(found(search.type)) \in Int
    BY <2>1, IdFinite
  <2>3. search' \in SearchState
    BY <1>12, <2>2 DEF CountSensors, SearchState, TypeOK
  <2> QED  BY <1>12, <2>3 DEF CountSensors, TypeOK
<1>13. CASE FindPage
  <2> DEFINE data == pageOf(found(search.type), search.page, search.size)
  <2>1. data \in SUBSET Id
    BY StoredType DEF found, pageOf
  <2>2. Cardinality(data) \in Nat
    BY <2>1, IdFinite
  <2>3. search' = [search EXCEPT
          !.pc = IF Cardinality(data) < search.size THEN "done" ELSE "ask",
          !.page = @ + 1, !.got = Cardinality(data),
          !.total = IF search.pc = "counted" THEN @ ELSE Absent,
          !.read = @ \cup data, !.again = @ \cup (search.read \cap data)]
    BY <1>13 DEF FindPage
  <2> HIDE DEF data
  <2>4. search' \in SearchState
    <3>1. search \in SearchState
      BY DEF TypeOK
    <3>2. search.page + 1 \in Nat /\ search.read \cup data \in SUBSET Id
          /\ search.again \cup (search.read \cap data) \in SUBSET Id
      BY <2>1, <3>1 DEF SearchState
    <3>3. (IF search.pc = "counted" THEN search.total ELSE Absent) \in Int
      BY <3>1 DEF SearchState, Absent
    <3> QED  BY <2>2, <2>3, <3>1, <3>2, <3>3 DEF SearchState
  <2> QED  BY <1>13, <2>4 DEF FindPage, TypeOK
<1>14. CASE UNCHANGED vars
  BY <1>14 DEF TypeOK, vars
<1> QED
  BY <1>2, <1>3, <1>4, <1>5, <1>6, <1>7, <1>8, <1>9, <1>10, <1>11, <1>12, <1>13, <1>14 DEF Next

(* Every variable has the type written down for it, whatever the calls, the *)
(* failures and the order of the operations of the collection.              *)
THEOREM Typing == Spec => []TypeOK
BY TypeInit, TypeStep, PTL DEF Spec

----------------------------------------------------------------------------
(* The _ids of documents that are still to be saved.                       *)

\* They were given out, each to one call, and none of them is stored.
WayInv ==
  /\ stored \subseteq Nameable
  /\ \A c \in Call : Running(c, "create") => call[c].left \subseteq 1 .. last
  /\ \A c, d \in Call :
       c # d /\ Running(c, "create") /\ Running(d, "create") =>
         call[c].left \cap call[d].left = {}

\* A step that hands out no _id and saves no document.
LEMMA WayKept ==
  ASSUME TypeOK, WayInv, UNCHANGED last, stored' \subseteq stored,
         \A c \in Call : Running(c, "create")' =>
           Running(c, "create") /\ call'[c].left \subseteq call[c].left
  PROVE  WayInv' /\ Nameable \subseteq Nameable'
<1>1. OnTheWay' \subseteq OnTheWay
  BY DEF OnTheWay
<1>2. Nameable \subseteq Nameable'
  BY <1>1 DEF Nameable
<1> QED  BY <1>2 DEF WayInv

\* Every action keeps it: an _id that can be named stays so, and what is gone
\* stays gone.
LEMMA WayStep ==
  ASSUME TypeOK, WayInv, [Next]_vars
  PROVE  /\ WayInv' /\ Nameable \subseteq Nameable'
         /\ \A s \in Nameable : s \notin stored => s \notin stored'
<1> DEFINE Kept == /\ WayInv' /\ Nameable \subseteq Nameable'
                   /\ \A s \in Nameable : s \notin stored => s \notin stored'
<1>1. call \in [Call -> CallState] /\ last \in Nat
  BY StoredType DEF TypeOK
<1>2. ASSUME UNCHANGED <<last, call>>, stored' \subseteq stored PROVE Kept
  BY <1>2, WayKept DEF Running
<1>3. ASSUME NEW c \in Call, NEW a, call' = [call EXCEPT ![c] = a],
             UNCHANGED last, stored' \subseteq stored,
             a.pc = "running" /\ a.req.op = "create" =>
               Running(c, "create") /\ a.left \subseteq call[c].left
      PROVE  Kept
  <2>1. call'[c] = a /\ \A d \in Call \ {c} : call'[d] = call[d]
    BY <1>1, <1>3
  <2>2. \A d \in Call : Running(d, "create")' =>
          Running(d, "create") /\ call'[d].left \subseteq call[d].left
    BY <1>3, <2>1 DEF Running
  <2> QED  BY <1>3, <2>2, WayKept
<1>4. ASSUME NEW c \in Call, NEW s \in Id, NEW outcome \in Outcome, Settle(c, s, outcome)
      PROVE  /\ call'[c].pc = call[c].pc /\ call'[c].req = call[c].req
             /\ call'[c].left = call[c].left \ {s}
             /\ \A d \in Call \ {c} : call'[d] = call[d]
  BY <1>1, <1>4 DEF Settle, CallState
<1>5. ASSUME NEW c \in Call, NEW s \in Id, NEW outcome \in Outcome, Settle(c, s, outcome),
             UNCHANGED <<last, stored>>
      PROVE  Kept
  <2>1. \A d \in Call : Running(d, "create")' =>
          Running(d, "create") /\ call'[d].left \subseteq call[d].left
    BY <1>4, <1>5 DEF Running
  <2> QED  BY <1>5, <2>1, WayKept
<1>6. ASSUME NEW c \in Call, NEW q \in Request, CreateSensors(c, q) PROVE Kept
  <2> DEFINE new == last + 1 .. last + Cardinality(q.ids)
  <2>1. /\ last' = last + Cardinality(q.ids) /\ stored' = stored
        /\ call[c].pc = "idle" /\ q.op = "create"
        /\ call' = [call EXCEPT ![c] = CallAt("running", q, new, {})]
        /\ Cardinality(q.ids) \in Nat
    BY <1>6, DocumentsCount DEF CreateSensors
  <2>2. /\ 1 .. last \subseteq 1 .. last' /\ new \subseteq 1 .. last'
        /\ new \cap (1 .. last) = {}
    BY <1>1, <2>1
  <2> HIDE DEF new
  <2>3. /\ Running(c, "create")' /\ call'[c].left = new /\ ~Running(c, "create")
        /\ \A d \in Call \ {c} :
             call'[d] = call[d] /\ (Running(d, "create")' <=> Running(d, "create"))
    BY <1>1, <2>1 DEF Running, CallAt
  <2>4. \A d \in Call \ {c} : Running(d, "create") =>
          call[d].left \subseteq 1 .. last /\ call[d].left \cap new = {}
    BY <2>2 DEF WayInv
  <2>5. OnTheWay' \subseteq OnTheWay \cup new
    BY <2>3 DEF OnTheWay
  <2>6. Nameable \subseteq Nameable'
    BY <2>2, <2>5 DEF Nameable
  <2>7. stored' \subseteq Nameable'
    BY <2>1, <2>6 DEF WayInv
  <2>8. ASSUME NEW b \in Call, Running(b, "create")'
        PROVE  call'[b].left \subseteq 1 .. last'
    BY <2>2, <2>3, <2>4, <2>8
  <2>9. ASSUME NEW b \in Call, NEW d \in Call, b # d,
               Running(b, "create")', Running(d, "create")'
        PROVE  call'[b].left \cap call'[d].left = {}
    <3>1. CASE b = c
      BY <2>3, <2>4, <2>9, <3>1
    <3>2. CASE d = c
      BY <2>3, <2>4, <2>9, <3>2
    <3>3. CASE b # c /\ d # c
      BY <2>3, <2>9, <3>3 DEF WayInv
    <3> QED  BY <3>1, <3>2, <3>3
  <2> QED  BY <2>1, <2>6, <2>7, <2>8, <2>9 DEF WayInv
<1>7. ASSUME NEW c \in Call, NEW s \in Id, NEW outcome \in Outcome,
             InsertSensor(c, s, outcome)
      PROVE  Kept
  <2>1. /\ Running(c, "create") /\ s \in call[c].left /\ last' = last
        /\ stored' = stored \cup {s} /\ Settle(c, s, outcome)
    BY <1>7 DEF InsertSensor
  <2>2. /\ call'[c].pc = call[c].pc /\ call'[c].req = call[c].req
        /\ call'[c].left = call[c].left \ {s}
        /\ \A d \in Call \ {c} : call'[d] = call[d]
    BY <1>4, <2>1
  <2>3. \A d \in Call : /\ Running(d, "create")' <=> Running(d, "create")
                        /\ Running(d, "create")' => call'[d].left \subseteq call[d].left \ {s}
    BY <2>1, <2>2 DEF Running, WayInv
  <2>4. OnTheWay' \subseteq OnTheWay \ {s}
    BY <2>3 DEF OnTheWay
  <2>5. Nameable \subseteq Nameable' /\ s \in Nameable' /\ s \notin Nameable
    BY <2>1, <2>4 DEF Nameable, WayInv, OnTheWay
  <2>6. stored' \subseteq Nameable'
    BY <2>1, <2>5 DEF WayInv
  <2>7. \A d \in Call : Running(d, "create")' => call'[d].left \subseteq 1 .. last'
    BY <2>1, <2>3 DEF WayInv
  <2>8. \A b, d \in Call : b # d /\ Running(b, "create")' /\ Running(d, "create")' =>
          call'[b].left \cap call'[d].left = {}
    BY <2>3 DEF WayInv
  <2> QED  BY <2>1, <2>5, <2>6, <2>7, <2>8 DEF WayInv
<1>8. ASSUME NEW c \in Call, NEW s \in Id, NEW outcome \in Outcome,
             UpdateSensor(c, s, outcome) \/ MissSensor(c, s, outcome)
      PROVE  Kept
  BY <1>5, <1>8 DEF UpdateSensor, MissSensor
<1>9. ASSUME NEW c \in Call, NEW q \in Request, UpdateSensors(c, q) \/ UpdateMany(c, q)
      PROVE  Kept
  <2>1. PICK left, due : Begin(c, q, left, due)
    BY <1>9 DEF UpdateSensors, UpdateMany
  <2>2. q.op # "create" /\ CallAt("running", q, left, due).req = q
    BY <1>9 DEF UpdateSensors, UpdateMany, CallAt
  <2> QED  BY <1>3, <2>1, <2>2 DEF Begin
<1>10. ASSUME NEW c \in Call, NEW q \in Request, UpdateOne(c, q) \/ RemoveSensor(c, q)
       PROVE  Kept
  <2>1. PICK answer :
          call' = [call EXCEPT ![c] = [CallAt("done", q, {}, {}) EXCEPT !.answer = answer]]
    <3>1. [CallAt("done", q, {}, {}) EXCEPT !.answer = {}] = CallAt("done", q, {}, {})
      BY DEF CallAt
    <3> QED  BY <1>10, <3>1 DEF UpdateOne, RemoveSensor
  <2>2. [CallAt("done", q, {}, {}) EXCEPT !.answer = answer].pc = "done"
    BY DEF CallAt
  <2>3. UNCHANGED last /\ stored' \subseteq stored
    BY <1>10 DEF UpdateOne, RemoveSensor
  <2> QED  BY <1>3, <2>1, <2>2, <2>3
<1>11. ASSUME NEW c \in Call, NEW s \in Id, SetAttributes(c, s) \/ UnsetAttributes(c, s)
       PROVE  Kept
  <2>1. /\ ~Running(c, "create") /\ UNCHANGED <<last, stored>>
        /\ call' = [call EXCEPT ![c] = [call[c] EXCEPT !.left = call[c].left \ {s}]]
    BY <1>1, <1>11 DEF SetAttributes, UnsetAttributes, Running, CallState
  <2>2. /\ [call[c] EXCEPT !.left = call[c].left \ {s}].pc = call[c].pc
        /\ [call[c] EXCEPT !.left = call[c].left \ {s}].req = call[c].req
    BY <1>1 DEF CallState
  <2> QED  BY <1>3, <2>1, <2>2 DEF Running
<1>12. ASSUME NEW c \in Call, Answer(c) PROVE Kept
  <2>1. /\ UNCHANGED <<last, stored>>
        /\ \A d \in Call : Running(d, "create")' =>
             Running(d, "create") /\ call'[d].left \subseteq call[d].left
    BY <1>1, <1>12 DEF Answer, Running, CallState
  <2> QED  BY <2>1, WayKept
<1>13. ASSUME NEW t \in Type, NEW size \in PageSize, StartSearch(t, size) PROVE Kept
  BY <1>2, <1>13 DEF StartSearch
<1>14. CASE CountSensors \/ FindPage \/ UNCHANGED vars
  BY <1>2, <1>14 DEF CountSensors, FindPage, vars
<1>15. ASSUME NEW c \in Call, NEW s \in Id, FailInsert(c, s) PROVE Kept
  BY <1>5, <1>15 DEF FailInsert, Outcome
<1> QED
  BY <1>6, <1>7, <1>8, <1>9, <1>10, <1>11, <1>12, <1>13, <1>14, <1>15 DEF Next

LEMMA WayInit == Init => WayInv
<1> SUFFICES ASSUME Init PROVE WayInv  OBVIOUS
<1>1. \A op : \A c \in Call : ~Running(c, op)
  BY DEF Init, Running, CallAt
<1>2. OnTheWay = {}
  BY <1>1 DEF OnTheWay
<1> QED  BY <1>1, <1>2 DEF WayInv, Nameable, Init

----------------------------------------------------------------------------
(* No write is lost.                                                       *)

\* Attributes d are those that were to be set last.
Fits(d, m) ==
  \A k \in Key : IF m[k] = None THEN k \notin DOMAIN d
                 ELSE k \in DOMAIN d /\ d[k] = m[k]

\* Nobody has written to a sensor whose _id nobody knows.
WritesInv ==
  /\ TypeOK /\ WayInv
  /\ \A s \in stored : Fits(attr[s], meant[s])
  /\ \A s \in Id \ Nameable, k \in Key : meant[s][k] = None

\* Attributes e are attributes d, but for keys that c has set and others that
\* are taken away.
Rewritten(d, e, c, keys, cleared) ==
  \A k \in Key :
    /\ k \in keys => k \in DOMAIN e /\ e[k] = c
    /\ k \in cleared \ keys => k \notin DOMAIN e
    /\ k \notin keys \cup cleared =>
         /\ k \in DOMAIN e <=> k \in DOMAIN d
         /\ k \in DOMAIN d => e[k] = d[k]

\* An operation on one document that sets keys, removes cleared and leaves the
\* rest leaves it as meant, and all others as they were.
LEMMA WriteFits ==
  ASSUME TypeOK, NEW c \in Call, NEW s \in Id, NEW keys, NEW cleared, NEW e,
         Means(c, s, keys, cleared), attr' = [attr EXCEPT ![s] = e],
         Fits(attr[s], meant[s]), Rewritten(attr[s], e, c, keys, cleared)
  PROVE  /\ Fits(attr'[s], meant'[s])
         /\ \A t \in Id \ {s} : attr'[t] = attr[t] /\ meant'[t] = meant[t]
<1>1. /\ meant'[s] = [k \in Key |-> IF k \in keys THEN c ELSE IF k \in cleared THEN None
                                    ELSE meant[s][k]]
      /\ \A t \in Id \ {s} : meant'[t] = meant[t]
  BY DEF Means, TypeOK
<1>2. attr'[s] = e /\ \A t \in Id \ {s} : attr'[t] = attr[t]
  BY DEF TypeOK
<1>3. ASSUME NEW k \in Key
      PROVE  IF meant'[s][k] = None THEN k \notin DOMAIN e
             ELSE k \in DOMAIN e /\ e[k] = meant'[s][k]
  <2>1. CASE k \in keys
    BY <1>1, <2>1, NoneAssumption DEF Rewritten
  <2>2. CASE k \in cleared \ keys
    BY <1>1, <2>2 DEF Rewritten
  <2>3. CASE k \notin keys \cup cleared
    BY <1>1, <2>3 DEF Rewritten, Fits
  <2> QED  BY <2>1, <2>2, <2>3
<1> QED  BY <1>1, <1>2, <1>3 DEF Fits

\* What the operations of the collection make of a document.
LEMMA DocumentKeys ==
  ASSUME NEW d \in Attributes, NEW c \in Call, NEW q \in Request
  PROVE  /\ Rewritten(d, withAttributes(d, c, q.keys), c, q.keys, {})
         /\ Rewritten(d, withCustomAttributes(d, c, q), c, q.keys,
                      IF q.whole THEN Custom ELSE {})
         /\ Rewritten(d, withoutAttributes(d, q), c, {},
                      q.keys \cup IF q.whole THEN Custom ELSE {})
<1> DEFINE S == IF q.whole THEN Custom ELSE {}
           r == Restrict(d, DOMAIN d \ S)
           z == Restrict(d, DOMAIN d \ (q.keys \cup S))
<1>1. Rewritten(d, withAttributes(d, c, q.keys), c, q.keys, {})
  BY DEF withAttributes, Rewritten
<1>2. /\ withCustomAttributes(d, c, q) = withAttributes(r, c, q.keys)
      /\ withoutAttributes(d, q) = z
  BY DEF withCustomAttributes, withoutAttributes
<1>3. /\ DOMAIN r = DOMAIN d \ S
      /\ \A k \in DOMAIN d \ S : r[k] = d[k]
  BY DEF Restrict
<1>4. /\ DOMAIN z = DOMAIN d \ (q.keys \cup S)
      /\ \A k \in DOMAIN d \ (q.keys \cup S) : z[k] = d[k]
  BY DEF Restrict
<1> HIDE DEF r, z, S
<1>5. Rewritten(d, withAttributes(r, c, q.keys), c, q.keys, S)
  BY <1>3 DEF withAttributes, Rewritten
<1>6. Rewritten(d, z, c, {}, q.keys \cup S)
  BY <1>4 DEF Rewritten
<1> QED  BY <1>1, <1>2, <1>5, <1>6 DEF S

\* Every action keeps what was written as it was meant.
LEMMA WritesStep == WritesInv /\ [Next]_vars => WritesInv'
<1> SUFFICES ASSUME WritesInv, [Next]_vars PROVE WritesInv'  OBVIOUS
<1>1. TypeOK /\ TypeOK' /\ WayInv /\ WayInv' /\ Nameable \subseteq Nameable'
  BY TypeStep, WayStep DEF WritesInv
<1>2. stored \subseteq Id /\ stored \subseteq Nameable /\ stored' \subseteq Nameable'
  BY <1>1 DEF TypeOK, WayInv
<1>3. ASSUME stored' \subseteq stored, UNCHANGED <<attr, meant>>
      PROVE  WritesInv'
  BY <1>1, <1>3 DEF WritesInv
<1>4. ASSUME NEW c \in Call, NEW s \in stored, NEW keys, NEW cleared, NEW e,
             UNCHANGED stored, Means(c, s, keys, cleared),
             attr' = [attr EXCEPT ![s] = e], Rewritten(attr[s], e, c, keys, cleared)
      PROVE  WritesInv'
  <2>1. s \in Id /\ Fits(attr[s], meant[s])
    BY <1>2 DEF WritesInv
  <2>2. /\ Fits(attr'[s], meant'[s])
        /\ \A t \in Id \ {s} : attr'[t] = attr[t] /\ meant'[t] = meant[t]
    BY <1>1, <1>4, <2>1, WriteFits
  <2>3. \A t \in stored' : Fits(attr'[t], meant'[t])
    BY <1>2, <1>4, <2>2 DEF WritesInv
  <2>4. \A t \in Id \ Nameable', k \in Key : meant'[t][k] = None
    BY <1>1, <1>2, <1>4, <2>2 DEF WritesInv
  <2> QED  BY <1>1, <2>3, <2>4 DEF WritesInv
<1>5. ASSUME NEW c \in Call, NEW s \in Id, NEW outcome \in Outcome,
             InsertSensor(c, s, outcome)
      PROVE  WritesInv'
  <2> DEFINE q == call[c].req
             e == withAttributes(<<>>, c, q.keys)
  <2>1. /\ stored' = stored \cup {s} /\ Means(c, s, q.keys, {})
        /\ attr' = [attr EXCEPT ![s] = e]
    BY <1>5 DEF InsertSensor
  <2>2. DOMAIN e = q.keys /\ \A k \in q.keys : e[k] = c
    BY DEF withAttributes
  <2>3. \A k \in Key : meant[s][k] = None
    <3>1. s \notin Nameable
      BY <1>5 DEF InsertSensor, Nameable, OnTheWay
    <3> QED  BY <3>1 DEF WritesInv
  <2> HIDE DEF e, q
  <2>4. meant'[s] = [k \in Key |-> IF k \in q.keys THEN c ELSE None]
    BY <1>1, <2>1, <2>3 DEF Means, TypeOK
  <2>5. attr'[s] = e
    BY <1>1, <2>1 DEF TypeOK
  <2>6. Fits(attr'[s], meant'[s])
    BY <2>2, <2>4, <2>5, NoneAssumption DEF Fits
  <2>7. \A t \in Id \ {s} : attr'[t] = attr[t] /\ meant'[t] = meant[t]
    BY <1>1, <2>1 DEF Means, TypeOK
  <2>8. \A t \in stored' : Fits(attr'[t], meant'[t])
    BY <1>2, <2>1, <2>6, <2>7 DEF WritesInv
  <2>9. \A t \in Id \ Nameable' : t \in Id \ Nameable /\ t # s
    BY <1>1, <1>2, <2>1
  <2>10. \A t \in Id \ Nameable', k \in Key : meant'[t][k] = None
    BY <2>7, <2>9 DEF WritesInv
  <2> QED  BY <1>1, <2>8, <2>10 DEF WritesInv
<1>6. ASSUME NEW c \in Call, NEW s \in Id, NEW outcome \in Outcome,
             UpdateSensor(c, s, outcome)
      PROVE  WritesInv'
  <2> DEFINE q == call[c].req
             e == withAttributes(attr[s], c, q.keys)
  <2>1. q \in Request /\ attr[s] \in Attributes /\ s \in stored
    BY <1>1, <1>6 DEF TypeOK, CallState, UpdateSensor
  <2>2. /\ Means(c, s, q.keys, {}) /\ UNCHANGED <<last, stored>>
        /\ attr' = [attr EXCEPT ![s] = e]
    BY <1>6 DEF UpdateSensor
  <2>3. Rewritten(attr[s], e, c, q.keys, {})
    BY <2>1, DocumentKeys
  <2> HIDE DEF q, e
  <2> QED  BY <1>4, <2>1, <2>2, <2>3
<1>7. ASSUME NEW c \in Call, NEW q \in Request, UpdateOne(c, q) PROVE WritesInv'
  <2> DEFINE S == IF q.whole THEN Custom ELSE {}
  <2>1. PICK s \in q.ids :
          IF s \in stored
          THEN /\ attr' = [attr EXCEPT ![s] = withCustomAttributes(attr[s], c, q)]
               /\ Means(c, s, q.keys, S)
          ELSE UNCHANGED <<type, attr, meant, wrote>>
    BY <1>7 DEF UpdateOne
  <2>2. UNCHANGED <<last, stored>>
    BY <1>7 DEF UpdateOne
  <2>3. CASE s \notin stored
    BY <1>3, <2>1, <2>2, <2>3
  <2>4. CASE s \in stored
    <3> DEFINE e == withCustomAttributes(attr[s], c, q)
    <3>1. attr[s] \in Attributes
      BY <1>1, <1>2, <2>4 DEF TypeOK
    <3>2. Rewritten(attr[s], e, c, q.keys, S)
      BY <3>1, DocumentKeys
    <3>3. attr' = [attr EXCEPT ![s] = e] /\ Means(c, s, q.keys, S)
      BY <2>1, <2>4
    <3> HIDE DEF S, e
    <3> QED  BY <1>4, <2>2, <2>4, <3>2, <3>3
  <2> QED  BY <2>3, <2>4
<1>8. ASSUME NEW c \in Call, NEW s \in Id, SetAttributes(c, s) PROVE WritesInv'
  <2> DEFINE q == call[c].req
             e == withAttributes(attr[s], c, q.keys)
  <2>1. q \in Request /\ attr[s] \in Attributes /\ s \in stored
    BY <1>1, <1>8 DEF TypeOK, CallState, SetAttributes, identified
  <2>2. /\ Means(c, s, q.keys, {}) /\ UNCHANGED <<last, stored>>
        /\ attr' = [attr EXCEPT ![s] = e]
    BY <1>8 DEF SetAttributes
  <2>3. Rewritten(attr[s], e, c, q.keys, {})
    BY <2>1, DocumentKeys
  <2> HIDE DEF q, e
  <2> QED  BY <1>4, <2>1, <2>2, <2>3
<1>9. ASSUME NEW c \in Call, NEW s \in Id, UnsetAttributes(c, s) PROVE WritesInv'
  <2> DEFINE q == call[c].req
             S == q.keys \cup IF q.whole THEN Custom ELSE {}
             e == withoutAttributes(attr[s], q)
  <2>1. q \in Request /\ attr[s] \in Attributes /\ s \in stored
    BY <1>1, <1>9 DEF TypeOK, CallState, UnsetAttributes, identified
  <2>2. /\ Means(c, s, {}, S) /\ UNCHANGED <<last, stored>>
        /\ attr' = [attr EXCEPT ![s] = e]
    BY <1>9 DEF UnsetAttributes
  <2>3. Rewritten(attr[s], e, c, {}, S)
    BY <2>1, DocumentKeys
  <2> HIDE DEF q, S, e
  <2> QED  BY <1>4, <2>1, <2>2, <2>3
<1>10. ASSUME NEW c \in Call, NEW q \in Request,
              CreateSensors(c, q) \/ UpdateSensors(c, q) \/ RemoveSensor(c, q) \/ UpdateMany(c, q)
       PROVE  WritesInv'
  BY <1>3, <1>10 DEF CreateSensors, UpdateSensors, RemoveSensor, UpdateMany, Begin
<1>11. ASSUME NEW c \in Call, NEW s \in Id, NEW outcome,
              FailInsert(c, s) \/ MissSensor(c, s, outcome)
       PROVE  WritesInv'
  BY <1>3, <1>11 DEF FailInsert, MissSensor
<1>12. ASSUME NEW c \in Call, Answer(c) PROVE WritesInv'
  BY <1>3, <1>12 DEF Answer
<1>13. ASSUME NEW t \in Type, NEW size \in PageSize, StartSearch(t, size)
       PROVE  WritesInv'
  BY <1>3, <1>13 DEF StartSearch
<1>14. CASE CountSensors \/ FindPage \/ UNCHANGED vars
  BY <1>3, <1>14 DEF CountSensors, FindPage, vars
<1> QED
  BY <1>5, <1>6, <1>7, <1>8, <1>9, <1>10, <1>11, <1>12, <1>13, <1>14 DEF Next

(* However the operations of concurrent calls fall together, an attribute   *)
(* of a sensor has the value of the last call that named it, or is absent   *)
(* if that call removed it.                                                 *)
THEOREM Writes == Spec => []NoWriteLost
<1>1. Init => WritesInv
  <2> SUFFICES ASSUME Init PROVE WritesInv  OBVIOUS
  <2>1. TypeOK
    BY TypeInit
  <2>2. \A s \in Id : attr[s] = <<>> /\ \A k \in Key : meant[s][k] = None
    BY DEF Init
  <2>3. DOMAIN <<>> = {}
    OBVIOUS
  <2>4. stored \subseteq Id
    BY <2>1, StoredType
  <2> QED  BY <2>1, <2>2, <2>3, <2>4, WayInit DEF WritesInv, Fits
<1>2. WritesInv => NoWriteLost
  BY DEF WritesInv, Fits, NoWriteLost
<1> QED  BY <1>1, <1>2, WritesStep, PTL DEF Spec

----------------------------------------------------------------------------
(* The answer to an update of several sensors.                             *)

\* Update d of several sensors that can be named: each is still open and to be
\* dealt with, or was written, or was found gone, or was rejected.
Accounted(d, written) ==
  /\ d.req.ids \cup d.left \subseteq Nameable
  /\ \A s \in Id :
       /\ d.outcome[s] = "document" => s \in written
       /\ d.outcome[s] = "null" => s \notin stored /\ s \in Nameable
       /\ s \in d.req.ids /\ d.outcome[s] = "open" => s \in d.left
  /\ d.pc = "done" => d.left = {} /\ d.answer = completedUpdates(d.outcome)

AnswersInv ==
  /\ TypeOK /\ WayInv
  /\ \A c \in Call : call[c].pc # "idle" /\ call[c].req.op = "update" =>
       Accounted(call[c], wrote[c])

\* What a call has written stays written.
LEMMA WrittenStays ==
  ASSUME TypeOK, [Next]_vars
  PROVE  \A c \in Call : wrote[c] \subseteq wrote'[c]
<1>1. ASSUME NEW c \in Call, NEW s, NEW keys, NEW cleared, Means(c, s, keys, cleared)
      PROVE  \A b \in Call : wrote[b] \subseteq wrote'[b]
  BY <1>1 DEF Means, TypeOK
<1>2. ASSUME NEW c \in Call, NEW s \in Id, NEW outcome,
             \/ InsertSensor(c, s, outcome) \/ UpdateSensor(c, s, outcome)
             \/ SetAttributes(c, s) \/ UnsetAttributes(c, s)
      PROVE  \A b \in Call : wrote[b] \subseteq wrote'[b]
  BY <1>1, <1>2 DEF InsertSensor, UpdateSensor, SetAttributes, UnsetAttributes
<1>3. ASSUME NEW c \in Call, NEW q \in Request, UpdateOne(c, q)
      PROVE  \A b \in Call : wrote[b] \subseteq wrote'[b]
  <2>1. UNCHANGED wrote \/ \E s : Means(c, s, q.keys, IF q.whole THEN Custom ELSE {})
    BY <1>3 DEF UpdateOne
  <2> QED  BY <1>1, <2>1
<1>4. ASSUME NEW c \in Call, NEW q \in Request,
             CreateSensors(c, q) \/ UpdateSensors(c, q) \/ RemoveSensor(c, q) \/ UpdateMany(c, q)
      PROVE  UNCHANGED wrote
  BY <1>4 DEF CreateSensors, UpdateSensors, RemoveSensor, UpdateMany, Begin
<1>5. ASSUME NEW c \in Call, NEW s \in Id, NEW outcome,
             FailInsert(c, s) \/ MissSensor(c, s, outcome)
      PROVE  UNCHANGED wrote
  BY <1>5 DEF FailInsert, MissSensor
<1>6. ASSUME NEW c \in Call, Answer(c) PROVE UNCHANGED wrote
  BY <1>6 DEF Answer
<1>7. ASSUME NEW t \in Type, NEW size \in PageSize, StartSearch(t, size)
      PROVE  UNCHANGED wrote
  BY <1>7 DEF StartSearch
<1>8. ASSUME CountSensors \/ FindPage \/ UNCHANGED vars PROVE UNCHANGED wrote
  BY <1>8 DEF CountSensors, FindPage, vars
<1> QED  BY <1>2, <1>3, <1>4, <1>5, <1>6, <1>7, <1>8 DEF Next

\* Every action keeps the updates accounted for.
LEMMA AnswersStep == AnswersInv /\ [Next]_vars => AnswersInv'
<1> SUFFICES ASSUME AnswersInv, [Next]_vars PROVE AnswersInv'  OBVIOUS
<1>1. TypeOK /\ TypeOK' /\ WayInv /\ WayInv'
  BY TypeStep, WayStep DEF AnswersInv
<1>2. /\ Nameable \subseteq Nameable'
      /\ \A s \in Nameable : s \notin stored => s \notin stored'
      /\ \A c \in Call : wrote[c] \subseteq wrote'[c]
  BY <1>1, WayStep, WrittenStays
<1>3. ASSUME NEW c \in Call, call[c].pc # "idle", call[c].req.op = "update",
             call'[c] = call[c]
      PROVE  Accounted(call[c], wrote[c])'
  BY <1>2, <1>3 DEF AnswersInv, Accounted
<1>4. ASSUME NEW c \in Call, \A b \in Call \ {c} : call'[b] = call[b],
             call'[c].pc # "idle" /\ call'[c].req.op = "update" =>
               Accounted(call[c], wrote[c])'
      PROVE  AnswersInv'
  BY <1>1, <1>3, <1>4 DEF AnswersInv
<1>5. ASSUME UNCHANGED call PROVE AnswersInv'
  BY <1>1, <1>3, <1>5 DEF AnswersInv
<1>6. ASSUME NEW c \in Call, NEW b, call' = [call EXCEPT ![c] = b]
      PROVE  call'[c] = b /\ \A a \in Call \ {c} : call'[a] = call[a]
  BY <1>1, <1>6 DEF TypeOK
<1>7. ASSUME NEW c \in Call, NEW q \in Request, UpdateSensors(c, q) PROVE AnswersInv'
  <2>1. call' = [call EXCEPT ![c] = CallAt("running", q, q.ids, {})]
    BY <1>7 DEF UpdateSensors, Begin
  <2>2. call'[c] = CallAt("running", q, q.ids, {})
        /\ \A a \in Call \ {c} : call'[a] = call[a]
    BY <1>6, <2>1
  <2>3. q.ids \subseteq Nameable'
    BY <1>2, <1>7 DEF UpdateSensors, Known
  <2>4. Accounted(call[c], wrote[c])'
    BY <2>2, <2>3 DEF Accounted, CallAt
  <2> QED  BY <1>4, <2>2, <2>4
<1>8. ASSUME NEW c \in Call, NEW q \in Request,
             CreateSensors(c, q) \/ UpdateMany(c, q) \/ UpdateOne(c, q) \/ RemoveSensor(c, q)
      PROVE  AnswersInv'
  <2>1. q.op # "update"
    BY <1>8 DEF CreateSensors, UpdateMany, UpdateOne, RemoveSensor
  <2>2. PICK pc, left, due, answer :
          call' = [call EXCEPT ![c] = [CallAt(pc, q, left, due) EXCEPT !.answer = answer]]
    <3>1. \A pc, left, due :
            [CallAt(pc, q, left, due) EXCEPT !.answer = {}] = CallAt(pc, q, left, due)
      BY DEF CallAt
    <3>2. CASE CreateSensors(c, q)
      <4>1. PICK left : call' = [call EXCEPT ![c] = CallAt("running", q, left, {})]
        BY <3>2 DEF CreateSensors
      <4>2. call' = [call EXCEPT ![c] = [CallAt("running", q, left, {}) EXCEPT !.answer = {}]]
        BY <3>1, <4>1
      <4> QED  BY <4>2
    <3>3. CASE UpdateMany(c, q)
      <4>1. PICK due : call' = [call EXCEPT ![c] = CallAt("running", q, Id, due)]
        BY <3>3 DEF UpdateMany, Begin
      <4>2. call' = [call EXCEPT ![c] = [CallAt("running", q, Id, due) EXCEPT !.answer = {}]]
        BY <3>1, <4>1
      <4> QED  BY <4>2
    <3>4. CASE UpdateOne(c, q)
      <4>1. call' = [call EXCEPT ![c] = [CallAt("done", q, {}, {}) EXCEPT !.answer = q.ids \cap stored]]
        BY <3>4 DEF UpdateOne
      <4> QED  BY <4>1
    <3>5. CASE RemoveSensor(c, q)
      <4>1. call' = [call EXCEPT ![c] = CallAt("done", q, {}, {})]
        BY <3>5 DEF RemoveSensor
      <4>2. call' = [call EXCEPT ![c] = [CallAt("done", q, {}, {}) EXCEPT !.answer = {}]]
        BY <3>1, <4>1
      <4> QED  BY <4>2
    <3> QED  BY <1>8, <3>2, <3>3, <3>4, <3>5
  <2>3. [CallAt(pc, q, left, due) EXCEPT !.answer = answer].req = q
    BY DEF CallAt
  <2>4. call'[c].req = q /\ \A a \in Call \ {c} : call'[a] = call[a]
    BY <1>6, <2>2, <2>3
  <2> QED  BY <1>4, <2>1, <2>4
<1>9. ASSUME NEW c \in Call, NEW s \in Id, NEW outcome \in Outcome, Settle(c, s, outcome)
      PROVE  /\ \A a \in Call \ {c} : call'[a] = call[a]
             /\ call'[c].left = call[c].left \ {s}
             /\ call'[c].outcome = [call[c].outcome EXCEPT ![s] = outcome]
             /\ call'[c].pc = call[c].pc /\ call'[c].req = call[c].req
  BY <1>1, <1>9 DEF Settle, TypeOK, CallState
<1>10. ASSUME NEW c \in Call, NEW s \in Id, NEW outcome \in Outcome, Settle(c, s, outcome),
              Running(c, "update"),
              outcome = "document" => s \in wrote'[c],
              outcome = "null" => s \notin stored' /\ s \in Nameable'
       PROVE  AnswersInv'
  <2>1. Accounted(call[c], wrote[c]) /\ call[c].pc = "running"
    BY <1>10 DEF AnswersInv, Running
  <2>2. /\ \A a \in Call \ {c} : call'[a] = call[a]
        /\ call'[c].left = call[c].left \ {s}
        /\ call'[c].outcome = [call[c].outcome EXCEPT ![s] = outcome]
        /\ call'[c].pc = call[c].pc /\ call'[c].req = call[c].req
    BY <1>9, <1>10
  <2>3. call[c].outcome \in [Id -> Outcome \cup {"open"}]
    BY <1>1 DEF TypeOK, CallState
  <2>4. /\ call'[c].outcome[s] = outcome /\ outcome # "open"
        /\ \A t \in Id \ {s} : call'[c].outcome[t] = call[c].outcome[t]
    BY <2>2, <2>3 DEF Outcome
  <2>5. ASSUME NEW t \in Id
        PROVE  /\ call'[c].outcome[t] = "document" => t \in wrote'[c]
               /\ call'[c].outcome[t] = "null" => t \notin stored' /\ t \in Nameable'
               /\ t \in call'[c].req.ids /\ call'[c].outcome[t] = "open" => t \in call'[c].left
    <3>1. CASE t = s
      BY <1>10, <2>4, <3>1
    <3>2. CASE t # s
      BY <1>2, <2>1, <2>2, <2>4, <3>2 DEF Accounted
    <3> QED  BY <3>1, <3>2
  <2>6. call'[c].req.ids \cup call'[c].left \subseteq Nameable'
    BY <1>2, <2>1, <2>2 DEF Accounted
  <2>7. Accounted(call[c], wrote[c])'
    BY <2>1, <2>2, <2>5, <2>6 DEF Accounted
  <2> QED  BY <1>4, <2>2, <2>7
<1>11. ASSUME NEW c \in Call, NEW s \in Id, NEW outcome \in Outcome,
              UpdateSensor(c, s, outcome)
       PROVE  AnswersInv'
  <2>1. s \in wrote'[c]
    BY <1>1, <1>11 DEF UpdateSensor, Means, TypeOK
  <2> QED  BY <1>10, <1>11, <2>1 DEF UpdateSensor
<1>12. ASSUME NEW c \in Call, NEW s \in Id, NEW outcome \in Outcome,
              MissSensor(c, s, outcome)
       PROVE  AnswersInv'
  <2>1. Accounted(call[c], wrote[c]) /\ call[c].pc = "running" /\ s \in call[c].left
    BY <1>12 DEF AnswersInv, MissSensor, Running
  <2>2. outcome = "null" => s \notin stored'
    BY <1>12 DEF MissSensor
  <2>3. s \in Nameable'
    BY <1>2, <2>1 DEF Accounted
  <2> QED  BY <1>10, <1>12, <2>2, <2>3 DEF MissSensor
<1>13. ASSUME NEW c \in Call, NEW s \in Id, NEW outcome \in Outcome,
              Settle(c, s, outcome), Running(c, "create")
       PROVE  AnswersInv'
  <2>1. call[c].req.op = "create"
    BY <1>13 DEF Running
  <2>2. call'[c].req = call[c].req /\ \A a \in Call \ {c} : call'[a] = call[a]
    BY <1>9, <1>13
  <2> QED  BY <1>4, <2>1, <2>2
<1>14. ASSUME NEW c \in Call, NEW s \in Id, SetAttributes(c, s) \/ UnsetAttributes(c, s)
       PROVE  AnswersInv'
  <2>1. call[c].req.op # "update"
    BY <1>14 DEF SetAttributes, UnsetAttributes, Running
  <2>2. call'[c].req = call[c].req /\ \A a \in Call \ {c} : call'[a] = call[a]
    BY <1>1, <1>14 DEF SetAttributes, UnsetAttributes, TypeOK, CallState
  <2> QED  BY <1>4, <2>1, <2>2
<1>15. ASSUME NEW c \in Call, Answer(c) PROVE AnswersInv'
  <2>1. /\ call'[c].req = call[c].req /\ \A a \in Call \ {c} : call'[a] = call[a]
        /\ call'[c].left = call[c].left /\ call'[c].outcome = call[c].outcome
        /\ call'[c].answer = answerOf(call[c])
        /\ UNCHANGED <<stored, wrote>> /\ call[c].pc = "running"
    BY <1>1, <1>15 DEF Answer, TypeOK, CallState
  <2>2. ASSUME call[c].req.op = "update" PROVE Accounted(call[c], wrote[c])'
    <3>1. call[c].left = {} /\ answerOf(call[c]) = completedUpdates(call[c].outcome)
      BY <1>15, <2>2 DEF Answer, answerOf
    <3>2. Accounted(call[c], wrote[c])
      BY <2>1, <2>2 DEF AnswersInv
    <3> QED  BY <1>2, <2>1, <3>1, <3>2 DEF Accounted
  <2> QED  BY <1>4, <2>1, <2>2
<1>16. ASSUME NEW t \in Type, NEW size \in PageSize, StartSearch(t, size) PROVE AnswersInv'
  BY <1>5, <1>16 DEF StartSearch
<1>17. CASE CountSensors \/ FindPage \/ UNCHANGED vars
  BY <1>5, <1>17 DEF CountSensors, FindPage, vars
<1>18. ASSUME NEW c \in Call, NEW s \in Id, NEW outcome \in Outcome,
              InsertSensor(c, s, outcome)
       PROVE  AnswersInv'
  BY <1>13, <1>18 DEF InsertSensor
<1>19. ASSUME NEW c \in Call, NEW s \in Id, FailInsert(c, s) PROVE AnswersInv'
  BY <1>13, <1>19 DEF FailInsert, Outcome
<1> QED
  BY <1>7, <1>8, <1>11, <1>12, <1>14, <1>15, <1>16, <1>17, <1>18, <1>19 DEF Next

(* The answer to an update of several sensors names only sensors it has     *)
(* updated; one it does not name is gone, or its update was rejected.       *)
THEOREM Answers == Spec => []AnswerNamesTheUpdated
<1>1. Init => AnswersInv
  <2> SUFFICES ASSUME Init PROVE AnswersInv  OBVIOUS
  <2>1. \A c \in Call : call[c].pc = "idle"
    BY DEF Init, CallAt
  <2> QED  BY <2>1, TypeInit, WayInit DEF AnswersInv
<1>2. AnswersInv => AnswerNamesTheUpdated
  <2> SUFFICES ASSUME AnswersInv, NEW c \in Call, call[c].pc = "done",
                      call[c].req.op = "update"
               PROVE  /\ call[c].answer \subseteq wrote[c]
                      /\ \A s \in call[c].req.ids \ call[c].answer :
                           s \notin stored \/ call[c].outcome[s] = "rejected"
    BY DEF AnswerNamesTheUpdated
  <2>1. Accounted(call[c], wrote[c])
    BY DEF AnswersInv
  <2>2. call[c].outcome \in [Id -> Outcome \cup {"open"}] /\ call[c].req.ids \subseteq Id
    BY RequestFields DEF AnswersInv, TypeOK, CallState
  <2>3. call[c].left = {} /\ call[c].answer = {s \in Id : call[c].outcome[s] = "document"}
    BY <2>1 DEF Accounted, completedUpdates
  <2> QED  BY <2>1, <2>2, <2>3 DEF Accounted, Outcome
<1> QED  BY <1>1, <1>2, AnswersStep, PTL DEF Spec

----------------------------------------------------------------------------
(* Reading page by page.                                                   *)

\* The sensors of the search that come before s.
before(s) == {t \in found(search.type) : t < s}

\* A sensor that was read comes again only if others have come before it; unless
\* they have, fewer come before it than there are on the pages read.
PagesInv ==
  /\ TypeOK
  /\ RepeatedOnlyByShift
  /\ search.pc \in {"ask", "counted"} =>
       \A s \in search.read :
         \/ \E t \in search.came : t < s
         \/ Cardinality(before(s)) < skip(search.page, search.size)

\* The next page begins where this one ends.
LEMMA NextPage ==
  ASSUME NEW page \in Nat, NEW size \in Nat
  PROVE  /\ skip(page + 1, size) = skip(page, size) + size
         /\ skip(page, size) \in Int
<1>1. page * size \in Nat /\ (page - 1) * size = page * size - size
  OBVIOUS
<1> QED  BY <1>1 DEF skip

\* One more has a place up to that of s than comes before it.
LEMMA RankBefore ==
  ASSUME NEW ids \in SUBSET Id, NEW s \in ids
  PROVE  rank(s, ids) = Cardinality({t \in ids : t < s}) + 1
<1> DEFINE S == {t \in ids : t < s}
<1>1. IsFiniteSet(S)
  BY IdFinite
<1>2. s \in Int /\ \A t \in ids : t \in Int
  BY DEF Id
<1>3. s \notin S /\ \A t : t \in {u \in ids : u <= s} <=> t \in S \cup {s}
  <2>1. s \notin S
    BY <1>2
  <2>2. \A t \in ids : t <= s <=> t < s \/ t = s
    BY <1>2
  <2> QED  BY <2>1, <2>2
<1> HIDE DEF S
<1>4. Cardinality(S \cup {s}) = Cardinality(S) + 1
  BY <1>1, <1>3, FS_AddElement
<1>5. {t \in ids : t <= s} = S \cup {s}
  BY <1>3
<1> QED  BY <1>4, <1>5 DEF rank, S

\* Sensors that come and go between two queries: those that come are recorded.
LEMMA ShiftsRecorded ==
  ASSUME PagesInv, TypeOK', search' = Followed
  PROVE  PagesInv'
<1>1. TypeOK /\ stored \subseteq Id /\ stored' \subseteq Id /\ search \in SearchState
  BY DEF PagesInv, TypeOK
<1>2. CASE search.pc \notin {"ask", "counted"}
  <2>1. search' = search
    BY <1>2 DEF Followed
  <2> QED  BY <1>1, <1>2, <2>1 DEF PagesInv, RepeatedOnlyByShift
<1>3. CASE search.pc \in {"ask", "counted"}
  <2> DEFINE after == {s \in stored' : type'[s] = search.type}
             left  == found(search.type) \ after
             new   == after \ found(search.type)
  <2>1. search' = [search EXCEPT !.steady = @ \ left, !.gone = @ \cup left,
                     !.came = @ \cup new,
                     !.drift = IF search.pc = "counted"
                               THEN @ + Cardinality(left \cup new) ELSE @]
    BY <1>3 DEF Followed
  <2> HIDE DEF left
  <2>2. /\ search'.came = search.came \cup new
        /\ search'.pc = search.pc /\ search'.read = search.read
        /\ search'.again = search.again /\ search'.page = search.page
        /\ search'.size = search.size /\ search'.type = search.type
    BY <1>1, <2>1 DEF SearchState
  <2>3. found(search.type)' = after
    BY <2>2 DEF found
  <2>4. ASSUME NEW s \in search.read
        PROVE  \/ \E t \in search'.came : t < s
               \/ Cardinality(before(s)') < skip(search.page, search.size)
    <3>1. CASE \E t \in search'.came : t < s
      BY <3>1
    <3>2. CASE ~ \E t \in search'.came : t < s
      <4>2. before(s)' \subseteq before(s)
        <5> SUFFICES ASSUME NEW t \in after, t < s PROVE t \in found(search.type)
          BY <2>3 DEF before
        <5> QED  BY <2>2, <3>2
      <4>3. before(s) \subseteq Id
        BY <1>1 DEF before, found
      <4>4. IsFiniteSet(before(s)) /\ Cardinality(before(s)) \in Nat
        BY <4>3, IdFinite
      <4>5. Cardinality(before(s)') <= Cardinality(before(s))
        BY <4>2, <4>4, FS_Subset
      <4>6. Cardinality(before(s)') \in Nat
        BY <4>2, <4>3, IdFinite
      <4>7. Cardinality(before(s)) < skip(search.page, search.size)
        BY <1>3, <2>2, <3>2 DEF PagesInv
      <4>8. skip(search.page, search.size) \in Int
        BY <1>1, NextPage, PagingAssumption DEF SearchState
      <4> QED  BY <4>4, <4>5, <4>6, <4>7, <4>8
    <3> QED  BY <3>1, <3>2
  <2>6. RepeatedOnlyByShift'
    BY <2>2 DEF PagesInv, RepeatedOnlyByShift
  <2>7. skip(search'.page, search'.size) = skip(search.page, search.size)
    BY <2>2
  <2> QED  BY <2>2, <2>4, <2>6, <2>7 DEF PagesInv
<1> QED  BY <1>2, <1>3

\* Every action keeps what the client has read in place.
LEMMA PagesStep == PagesInv /\ [Next]_vars => PagesInv'
<1> SUFFICES ASSUME PagesInv, [Next]_vars PROVE PagesInv'  OBVIOUS
<1>1. TypeOK /\ TypeOK' /\ search \in SearchState
  BY TypeStep DEF PagesInv, TypeOK
<1>2. stored \subseteq Id
  BY <1>1 DEF TypeOK
<1>3. ASSUME search' = Followed PROVE PagesInv'
  BY <1>1, <1>3, ShiftsRecorded
<1>4. ASSUME UNCHANGED <<search, stored, type>> PROVE PagesInv'
  BY <1>1, <1>4 DEF PagesInv, RepeatedOnlyByShift, before, found
<1>5. ASSUME NEW c \in Call, NEW s \in Id, NEW outcome,
             InsertSensor(c, s, outcome) \/ UpdateSensor(c, s, outcome)
      PROVE  PagesInv'
  BY <1>3, <1>5 DEF InsertSensor, UpdateSensor
<1>6. ASSUME NEW c \in Call, NEW q \in Request, UpdateOne(c, q) \/ RemoveSensor(c, q)
      PROVE  PagesInv'
  BY <1>3, <1>6 DEF UpdateOne, RemoveSensor
<1>7. ASSUME NEW c \in Call, NEW q \in Request,
             CreateSensors(c, q) \/ UpdateSensors(c, q) \/ UpdateMany(c, q)
      PROVE  PagesInv'
  BY <1>4, <1>7 DEF CreateSensors, UpdateSensors, UpdateMany, Begin
<1>8. ASSUME NEW c \in Call, NEW s \in Id, NEW outcome,
             \/ FailInsert(c, s) \/ MissSensor(c, s, outcome)
             \/ SetAttributes(c, s) \/ UnsetAttributes(c, s)
      PROVE  PagesInv'
  BY <1>4, <1>8 DEF FailInsert, MissSensor, SetAttributes, UnsetAttributes
<1>9. ASSUME NEW c \in Call, Answer(c) PROVE PagesInv'
  BY <1>4, <1>9 DEF Answer
<1>10. ASSUME NEW t \in Type, NEW size \in PageSize, StartSearch(t, size) PROVE PagesInv'
  <2>1. search'.read = {} /\ search'.again = {}
    BY <1>10 DEF StartSearch, NewSearch
  <2> QED  BY <1>1, <2>1 DEF PagesInv, RepeatedOnlyByShift
<1>11. CASE CountSensors
  <2>1. /\ search.pc = "ask" /\ UNCHANGED <<stored, type>>
        /\ search' = [search EXCEPT !.pc = "counted", !.drift = 0,
                        !.total = Cardinality(found(search.type))]
    BY <1>11 DEF CountSensors
  <2>2. /\ search'.came = search.came /\ search'.read = search.read
        /\ search'.again = search.again /\ search'.page = search.page
        /\ search'.size = search.size /\ search'.type = search.type
    BY <1>1, <2>1 DEF SearchState
  <2>3. \A s : before(s)' = before(s)
    BY <2>1, <2>2 DEF before, found
  <2> QED  BY <1>1, <2>1, <2>2, <2>3 DEF PagesInv, RepeatedOnlyByShift
<1>12. CASE FindPage
  <2> DEFINE data == pageOf(found(search.type), search.page, search.size)
             start == skip(search.page, search.size)
  <2>1. /\ search.pc \in {"ask", "counted"} /\ UNCHANGED <<stored, type>>
        /\ search' = [search EXCEPT
             !.pc = IF Cardinality(data) < search.size THEN "done" ELSE "ask",
             !.page = @ + 1, !.got = Cardinality(data),
             !.total = IF search.pc = "counted" THEN @ ELSE Absent,
             !.read = @ \cup data, !.again = @ \cup (search.read \cap data)]
    BY <1>12 DEF FindPage
  <2>2. found(search.type) \in SUBSET Id
    BY <1>2 DEF found
  <2>3. ASSUME NEW s \in data
        PROVE  /\ s \in found(search.type)
               /\ Cardinality(before(s)) \in start .. start + search.size - 1
    <3>1. s \in found(search.type) /\ rank(s, found(search.type)) \in
            start + 1 .. start + search.size
      BY DEF pageOf
    <3>2. rank(s, found(search.type)) = Cardinality(before(s)) + 1
      BY <2>2, <3>1, RankBefore DEF before
    <3>3. before(s) \in SUBSET Id
      BY <2>2 DEF before
    <3>4. Cardinality(before(s)) \in Nat
      BY <3>3, IdFinite
    <3>5. start \in Int /\ search.size \in Nat
      BY <1>1, NextPage, PagingAssumption DEF SearchState
    <3> HIDE DEF start
    <3> QED  BY <3>1, <3>2, <3>4, <3>5
  <2> HIDE DEF data
  <2>4. /\ search'.came = search.came /\ search'.read = search.read \cup data
        /\ search'.again = search.again \cup (search.read \cap data)
        /\ search'.page = search.page + 1
        /\ search'.size = search.size /\ search'.type = search.type
    BY <1>1, <2>1 DEF SearchState
  <2>5. \A s : before(s)' = before(s)
    BY <2>1, <2>4 DEF before, found
  <2>6. /\ skip(search'.page, search'.size) = start + search.size
        /\ start \in Int /\ search.size \in Nat \ {0}
    BY <1>1, <2>4, NextPage, PagingAssumption DEF SearchState
  <2> HIDE DEF start
  <2>8. ASSUME NEW s \in search.read \cap data PROVE \E t \in search.came : t < s
    <3>1. \/ \E t \in search.came : t < s
          \/ Cardinality(before(s)) < start
      BY <2>1 DEF PagesInv, start
    <3>2. Cardinality(before(s)) >= start /\ Cardinality(before(s)) \in Int
      BY <2>3, <2>6
    <3> QED  BY <2>6, <3>1, <3>2
  <2>9. RepeatedOnlyByShift'
    BY <2>4, <2>8 DEF PagesInv, RepeatedOnlyByShift
  <2>10. ASSUME NEW s \in search'.read
         PROVE  \/ \E t \in search'.came : t < s
                \/ Cardinality(before(s)') < skip(search'.page, search'.size)
    <3>1. CASE s \in data
      <4>1. Cardinality(before(s)) < start + search.size
        BY <2>3, <2>6, <3>1
      <4> QED  BY <2>5, <2>6, <4>1
    <3>2. CASE s \in search.read
      <4>1. \/ \E t \in search.came : t < s
            \/ Cardinality(before(s)) < start
        BY <2>1, <3>2 DEF PagesInv, start
      <4>2. Cardinality(before(s)) \in Nat
        <5>1. before(s) \in SUBSET Id
          BY <2>2 DEF before
        <5> QED  BY <5>1, IdFinite
      <4> QED  BY <2>4, <2>5, <2>6, <4>1, <4>2
    <3> QED  BY <2>4, <3>1, <3>2
  <2> QED  BY <1>1, <2>9, <2>10 DEF PagesInv
<1>13. CASE UNCHANGED vars
  BY <1>4, <1>13 DEF vars
<1> QED
  BY <1>5, <1>6, <1>7, <1>8, <1>9, <1>10, <1>11, <1>12, <1>13 DEF Next

(* A client that reads a search page by page sees no sensor twice, unless   *)
(* one with a lower _id entered the search meanwhile, in whatever order the *)
(* documents of a creation are saved.                                       *)
THEOREM Pages == Spec => []RepeatedOnlyByShift
<1>1. Init => PagesInv
  <2> SUFFICES ASSUME Init PROVE PagesInv  OBVIOUS
  <2>1. search.read = {} /\ search.again = {}
    BY DEF Init, NewSearch
  <2> QED  BY <2>1, TypeInit DEF PagesInv, RepeatedOnlyByShift
<1>2. PagesInv => RepeatedOnlyByShift
  BY DEF PagesInv
<1> QED  BY <1>1, <1>2, PagesStep, PTL DEF Spec

----------------------------------------------------------------------------
(* How many sensors a page holds.                                         *)

\* A sensor after another has a higher place than that.
LEMMA RanksDiffer ==
  ASSUME NEW ids \in SUBSET Id, NEW s \in ids, NEW t \in ids, s < t
  PROVE  rank(s, ids) < rank(t, ids)
<1> DEFINE S == {u \in ids : u <= s}
           T == {u \in ids : u <= t}
<1>1. s \in Int /\ t \in Int /\ \A u \in ids : u \in Int
  BY DEF Id
<1>2. S \subseteq T /\ t \in T /\ t \notin S
  <2>1. \A u \in ids : u <= s => u <= t
    BY <1>1
  <2>2. t <= t /\ ~ (t <= s)
    BY <1>1
  <2> QED  BY <2>1, <2>2
<1>3. T \in SUBSET Id /\ S \in SUBSET Id
  OBVIOUS
<1> HIDE DEF S, T
<1>4. /\ Cardinality(S) <= Cardinality(T) /\ Cardinality(S) # Cardinality(T)
      /\ Cardinality(S) \in Nat /\ Cardinality(T) \in Nat
  BY <1>2, <1>3, IdFinite, FS_Subset
<1> QED  BY <1>4 DEF rank, S, T

\* The places of the sensors of a set are the numbers from 1, without gaps: they
\* differ, and there are as many numbers as sensors.
LEMMA RanksFill ==
  ASSUME NEW ids \in SUBSET Id
  PROVE  /\ Cardinality(ids) \in Nat
         /\ \A s \in ids : rank(s, ids) \in 1 .. Cardinality(ids)
         /\ \A n \in 1 .. Cardinality(ids) : \E s \in ids : rank(s, ids) = n
<1> DEFINE n == Cardinality(ids)
           f == [s \in ids |-> rank(s, ids)]
<1>1. IsFiniteSet(ids) /\ n \in Nat
  BY IdFinite
<1>2. ASSUME NEW s \in ids PROVE rank(s, ids) \in 1 .. n
  <2> DEFINE S == {t \in ids : t <= s}
  <2>1. S \subseteq ids /\ S \in SUBSET Id
    OBVIOUS
  <2>2. s \in S
    BY DEF Id
  <2> HIDE DEF S
  <2>3. Cardinality(S) <= n /\ IsFiniteSet(S) /\ Cardinality(S) \in Nat
    BY <1>1, <2>1, IdFinite, FS_Subset
  <2>4. Cardinality(S) # 0
    BY <2>2, <2>3, FS_EmptySet
  <2>5. rank(s, ids) = Cardinality(S)
    BY DEF rank, S
  <2> QED  BY <1>1, <2>3, <2>4, <2>5
<1>3. f \in [ids -> 1 .. n]
  BY <1>2
<1>4. ASSUME NEW s \in ids, NEW t \in ids, f[s] = f[t] PROVE s = t
  <2>1. s \in Int /\ t \in Int
    BY DEF Id
  <2>2. f[s] \in Int /\ f[t] \in Int /\ f[s] = rank(s, ids) /\ f[t] = rank(t, ids)
    BY <1>2
  <2>3. s < t => f[s] < f[t]
    BY <2>2, RanksDiffer
  <2>4. t < s => f[t] < f[s]
    BY <2>2, RanksDiffer
  <2> HIDE DEF f
  <2> QED  BY <1>4, <2>1, <2>2, <2>3, <2>4
<1> HIDE DEF f, n
<1>5. f \in Injection(ids, 1 .. n)
  BY <1>3, <1>4, Fun_IsInj
<1>6. IsFiniteSet(1 .. n) /\ Cardinality(1 .. n) = n
  BY <1>1, FS_Interval
<1>7. f \in Surjection(ids, 1 .. n)
  BY <1>5, <1>6, FS_Injection DEF n
<1>8. \A k \in 1 .. n : \E s \in ids : f[s] = k
  BY <1>7, Fun_SurjectionProperties
<1> QED  BY <1>1, <1>2, <1>8 DEF f, n

\* How many sensors a page holds.
LEMMA PageHolds ==
  ASSUME NEW ids \in SUBSET Id, NEW page \in Nat \ {0}, NEW size \in Nat \ {0}
  PROVE  /\ skip(page, size) \in Nat
         /\ Cardinality(pageOf(ids, page, size)) =
              IF Cardinality(ids) <= skip(page, size) THEN 0
              ELSE IF Cardinality(ids) >= skip(page, size) + size THEN size
              ELSE Cardinality(ids) - skip(page, size)
<1> DEFINE n     == Cardinality(ids)
           start == skip(page, size)
           end   == IF n >= start + size THEN start + size ELSE n
           data  == pageOf(ids, page, size)
           f     == [s \in data |-> rank(s, ids)]
<1>1. start \in Nat
  <2>1. page - 1 \in Nat
    OBVIOUS
  <2> QED  BY <2>1 DEF skip
<1>2. n \in Nat
  BY RanksFill
<1>3. data \in SUBSET ids /\ data \in SUBSET Id /\ IsFiniteSet(data)
  <2>1. data \subseteq ids
    BY DEF pageOf
  <2> QED  BY <2>1, IdFinite
<1>4. \A s \in data : rank(s, ids) \in start + 1 .. end
  <2> SUFFICES ASSUME NEW s \in data PROVE rank(s, ids) \in start + 1 .. end  OBVIOUS
  <2>1. rank(s, ids) \in start + 1 .. start + size
    BY DEF pageOf
  <2>2. rank(s, ids) \in 1 .. n
    BY <1>3, RanksFill
  <2> HIDE DEF start, n, data
  <2> QED  BY <1>1, <1>2, <2>1, <2>2
<1>5. \A k \in start + 1 .. end : \E s \in data : rank(s, ids) = k
  <2> SUFFICES ASSUME NEW k \in start + 1 .. end PROVE \E s \in data : rank(s, ids) = k
    OBVIOUS
  <2>1. k \in start + 1 .. start + size /\ k \in 1 .. n
    <3> HIDE DEF start, n
    <3> QED  BY <1>1, <1>2
  <2>2. PICK s \in ids : rank(s, ids) = k
    BY <2>1, RanksFill
  <2>3. s \in data
    BY <2>1, <2>2 DEF pageOf
  <2> QED  BY <2>2, <2>3
<1>6. ASSUME NEW s \in data, NEW t \in data, rank(s, ids) = rank(t, ids) PROVE s = t
  <2>1. s \in ids /\ t \in ids /\ s \in Int /\ t \in Int
    BY <1>3 DEF Id
  <2>2. rank(s, ids) \in Int /\ rank(t, ids) \in Int
    BY <2>1, RanksFill
  <2>3. (s < t => rank(s, ids) < rank(t, ids)) /\ (t < s => rank(t, ids) < rank(s, ids))
    BY <2>1, RanksDiffer
  <2> QED  BY <1>6, <2>1, <2>2, <2>3
<1> HIDE DEF data, start, end, n
<1>7. f \in [data -> start + 1 .. end]
  BY <1>4
<1>8. \A s, t \in data : f[s] = f[t] => s = t
  BY <1>6
<1>9. \A k \in start + 1 .. end : \E s \in data : f[s] = k
  BY <1>5
<1> HIDE DEF f
<1>10. f \in Bijection(data, start + 1 .. end)
  BY <1>7, <1>8, <1>9, Fun_IsBij
<1>11. Cardinality(start + 1 .. end) = Cardinality(data)
  <2>1. ExistsBijection(data, start + 1 .. end)
    BY <1>10 DEF ExistsBijection
  <2> QED  BY <1>3, <2>1, FS_Bijection
<1>12. end \in Int /\ size \in Nat
  BY <1>1, <1>2 DEF end
<1>13. Cardinality(start + 1 .. end) = IF start + 1 > end THEN 0 ELSE end - (start + 1) + 1
  BY <1>1, <1>12, FS_Interval
<1>14. Cardinality(data) = IF n <= start THEN 0 ELSE IF n >= start + size THEN size ELSE n - start
  BY <1>1, <1>2, <1>11, <1>12, <1>13 DEF end
<1> QED  BY <1>1, <1>14 DEF data, n, start

\* A page is not empty just when it is not beyond the number of pages.
LEMMA PagesCounted ==
  ASSUME NEW page \in Nat \ {0}, NEW size \in Nat \ {0}, NEW total \in Nat
  PROVE  skip(page, size) < total <=> page <= totalPages(total, size)
<1> DEFINE q == totalPages(total, size)
<1>1. q \in Nat /\ q * size <= total + size - 1 /\ total + size - 1 < q * size + size
  BY DEF totalPages
<1> HIDE DEF q
<1>2. page * size \in Nat /\ q * size \in Nat /\ skip(page, size) = page * size - size
  BY <1>1 DEF skip
<1>3. page <= q => page * size <= q * size
  BY <1>1
<1>4. q < page => q * size + size <= page * size
  <2> SUFFICES ASSUME q < page PROVE q * size + size <= page * size
    OBVIOUS
  <2>1. page - q - 1 \in Nat
    BY <1>1
  <2>2. (page - q - 1) * size \in Nat
    BY <2>1
  <2>3. (page - q - 1) * size = page * size - q * size - size
    BY <1>1
  <2> QED  BY <1>2, <2>2, <2>3
<1> QED  BY <1>1, <1>2, <1>3, <1>4 DEF q

----------------------------------------------------------------------------
(* Missing nothing, and the total.                                         *)

\* What a step is to somebody who is reading a search: nothing, a change of the
\* sensors that is followed, or a step of the reading.
LEMMA SearchSteps ==
  ASSUME [Next]_vars
  PROVE  \/ UNCHANGED <<search, stored, type>>
         \/ search' = Followed
         \/ \E t \in Type, size \in PageSize : StartSearch(t, size)
         \/ CountSensors
         \/ FindPage
<1> DEFINE Steps == \/ UNCHANGED <<search, stored, type>>
                    \/ search' = Followed
<1>1. ASSUME NEW c \in Call, NEW q \in Request,
             \/ CreateSensors(c, q) \/ UpdateSensors(c, q) \/ UpdateMany(c, q)
             \/ UpdateOne(c, q) \/ RemoveSensor(c, q)
      PROVE  Steps
  BY <1>1 DEF CreateSensors, UpdateSensors, UpdateMany, Begin, UpdateOne, RemoveSensor
<1>2. ASSUME NEW c \in Call, NEW s \in Id,
             FailInsert(c, s) \/ SetAttributes(c, s) \/ UnsetAttributes(c, s)
      PROVE  Steps
  BY <1>2 DEF FailInsert, SetAttributes, UnsetAttributes
<1>3. ASSUME NEW c \in Call, NEW s \in Id, NEW outcome \in Outcome,
             \/ InsertSensor(c, s, outcome)
             \/ UpdateSensor(c, s, outcome) \/ MissSensor(c, s, outcome)
      PROVE  Steps
  BY <1>3 DEF InsertSensor, UpdateSensor, MissSensor
<1>4. ASSUME NEW c \in Call, Answer(c) PROVE Steps
  BY <1>4 DEF Answer
<1>5. CASE UNCHANGED vars
  BY <1>5 DEF vars
<1> QED  BY <1>1, <1>2, <1>3, <1>4, <1>5 DEF Next

\* A sensor that was in the search all the while is there, and if it was not read
\* it comes after the pages read, unless one before it has left.
UnreadAhead ==
  search.pc \in {"ask", "counted"} =>
    /\ search.page # 0
    /\ search.steady \subseteq found(search.type)
    /\ \A s \in search.steady \ search.read :
         \/ \E t \in search.gone : t < s
         \/ skip(search.page, search.size) < rank(s, found(search.type))

\* A total is what was found, but for what has entered or left since.
TotalDrifts ==
  search.pc = "counted" =>
    /\ search.total \in Nat
    /\ Apart(search.total, Cardinality(found(search.type))) <= search.drift

ReadingInv == TypeOK /\ UnreadAhead /\ TotalDrifts /\ MissedOnlyByShift /\ PageFitsTotal

\* When sensors come and go, the unread ones keep their distance: of those before
\* one of them none has left that is not recorded.
LEMMA ShiftsKeepAhead ==
  ASSUME ReadingInv, TypeOK', search' = Followed, search.pc \in {"ask", "counted"}
  PROVE  UnreadAhead'
<1> DEFINE after == {s \in stored' : type'[s] = search.type}
           left  == found(search.type) \ after
           new   == after \ found(search.type)
<1>1. search \in SearchState /\ stored \in SUBSET Id /\ stored' \in SUBSET Id
  BY BoundAssumption DEF ReadingInv, TypeOK, Id
<1>2. search' = [search EXCEPT !.steady = @ \ left, !.gone = @ \cup left,
                   !.came = @ \cup new,
                   !.drift = IF search.pc = "counted"
                             THEN @ + Cardinality(left \cup new) ELSE @]
  BY DEF Followed
<1> HIDE DEF left, new
<1>3. /\ search'.steady = search.steady \ left /\ search'.gone = search.gone \cup left
      /\ search'.pc = search.pc /\ search'.read = search.read
      /\ search'.page = search.page /\ search'.size = search.size
      /\ search'.type = search.type
  BY <1>1, <1>2 DEF SearchState
<1>4. found(search.type)' = after
  BY <1>3 DEF found
<1>5. search.steady \subseteq found(search.type) /\ search.page # 0
  BY DEF ReadingInv, UnreadAhead
<1>6. search'.steady \subseteq after /\ \A u \in Id : u \in Int
  BY <1>3, <1>5, BoundAssumption DEF left, Id
<1>7. ASSUME NEW s \in search'.steady \ search'.read, ~ \E t \in search'.gone : t < s
      PROVE  skip(search.page, search.size) < rank(s, after)
  <2> DEFINE S == {t \in found(search.type) : t <= s}
             T == {t \in after : t <= s}
  <2>1. s \in after /\ s \in Int /\ s \in search.steady \ search.read
    BY <1>1, <1>3, <1>6, <1>7
  <2>2. S \subseteq T
    <3> SUFFICES ASSUME NEW t \in found(search.type), t <= s PROVE t \in after
      OBVIOUS
    <3>1. t \in Int
      BY <1>1, <1>6 DEF found
    <3>2. CASE t = s
      BY <2>1, <3>2
    <3>3. CASE t < s
      BY <1>3, <1>7, <3>3 DEF left
    <3> QED  BY <2>1, <3>1, <3>2, <3>3
  <2>3. S \in SUBSET Id /\ T \in SUBSET Id
    BY <1>1 DEF found
  <2>4. Cardinality(S) = rank(s, found(search.type)) /\ Cardinality(T) = rank(s, after)
    BY DEF rank
  <2> HIDE DEF S, T
  <2>5. /\ Cardinality(S) <= Cardinality(T)
        /\ Cardinality(S) \in Int /\ Cardinality(T) \in Int
    BY <2>2, <2>3, IdFinite, FS_Subset
  <2>6. skip(search.page, search.size) < rank(s, found(search.type))
    BY <1>3, <1>7, <2>1 DEF ReadingInv, UnreadAhead
  <2>7. skip(search.page, search.size) \in Int
    BY <1>1, NextPage, PagingAssumption DEF SearchState
  <2> QED  BY <2>4, <2>5, <2>6, <2>7
<1> HIDE DEF after
<1> QED
  <2>1. skip(search'.page, search'.size) = skip(search.page, search.size)
    BY <1>3
  <2> QED  BY <1>3, <1>4, <1>5, <1>6, <1>7, <2>1 DEF UnreadAhead

\* A set differs from another in size by no more than it differs in members.
LEMMA SizesApart ==
  ASSUME NEW S \in SUBSET Id, NEW T \in SUBSET Id
  PROVE  /\ Apart(Cardinality(S), Cardinality(T)) <= Cardinality((S \ T) \cup (T \ S))
         /\ Cardinality((S \ T) \cup (T \ S)) \in Nat
<1> DEFINE left  == Cardinality(S \ T)
           new   == Cardinality(T \ S)
           both  == Cardinality(S \cap T)
           moved == Cardinality((S \ T) \cup (T \ S))
<1>1. /\ IsFiniteSet(S) /\ IsFiniteSet(T) /\ IsFiniteSet(S \ T) /\ IsFiniteSet(T \ S)
      /\ Cardinality(S) \in Nat /\ Cardinality(T) \in Nat
      /\ left \in Nat /\ new \in Nat /\ both \in Nat /\ moved \in Nat
  <2>1. /\ S \ T \in SUBSET Id /\ T \ S \in SUBSET Id /\ S \cap T \in SUBSET Id
        /\ (S \ T) \cup (T \ S) \in SUBSET Id
    OBVIOUS
  <2> QED  BY <2>1, IdFinite
<1>2. S \cap T = T \cap S /\ (S \ T) \cap (T \ S) = {}
  OBVIOUS
<1>3. left = Cardinality(S) - both /\ new = Cardinality(T) - both
  <2>1. left = Cardinality(S) - Cardinality(S \cap T)
    BY <1>1, FS_Difference
  <2>2. new = Cardinality(T) - Cardinality(T \cap S)
    BY <1>1, FS_Difference
  <2> QED  BY <1>2, <2>1, <2>2
<1>4. moved = left + new
  <2>1. moved = left + new - Cardinality({})
    BY <1>1, <1>2, FS_Union
  <2> QED  BY <1>1, <2>1, FS_EmptySet
<1> HIDE DEF left, new, both, moved
<1>5. Apart(Cardinality(S), Cardinality(T)) <= moved
  BY <1>1, <1>3, <1>4 DEF Apart
<1> QED  BY <1>1, <1>5 DEF moved

\* What enters and leaves is counted.
LEMMA ShiftsAreCounted ==
  ASSUME ReadingInv, TypeOK', search' = Followed, search.pc \in {"ask", "counted"}
  PROVE  TotalDrifts'
<1> DEFINE after == {s \in stored' : type'[s] = search.type}
           left  == found(search.type) \ after
           new   == after \ found(search.type)
<1>1. search \in SearchState /\ stored \in SUBSET Id /\ stored' \in SUBSET Id
  BY BoundAssumption DEF ReadingInv, TypeOK, Id
<1>2. search' = [search EXCEPT !.steady = @ \ left, !.gone = @ \cup left,
                   !.came = @ \cup new,
                   !.drift = IF search.pc = "counted"
                             THEN @ + Cardinality(left \cup new) ELSE @]
  BY DEF Followed
<1>3. found(search.type) \in SUBSET Id /\ after \in SUBSET Id
  BY <1>1 DEF found
<1>4. /\ Apart(Cardinality(found(search.type)), Cardinality(after)) <= Cardinality(left \cup new)
      /\ Cardinality(left \cup new) \in Nat
      /\ Cardinality(found(search.type)) \in Nat /\ Cardinality(after) \in Nat
  BY <1>3, SizesApart, IdFinite
<1> HIDE DEF left, new
<1>5. /\ search'.pc = search.pc /\ search'.total = search.total /\ search'.type = search.type
      /\ search.pc = "counted" => search'.drift = search.drift + Cardinality(left \cup new)
  BY <1>1, <1>2 DEF SearchState
<1>6. found(search.type)' = after
  BY <1>5 DEF found
<1> HIDE DEF after
<1>7. CASE search.pc = "counted"
  <2>1. /\ search.total \in Nat /\ search.drift \in Nat
        /\ Apart(search.total, Cardinality(found(search.type))) <= search.drift
    BY <1>1, <1>7 DEF ReadingInv, TotalDrifts, SearchState
  <2>2. Apart(search.total, Cardinality(after)) <= search.drift + Cardinality(left \cup new)
    BY <1>4, <2>1 DEF Apart
  <2> QED  BY <1>5, <1>6, <2>1, <2>2 DEF TotalDrifts
<1> QED  BY <1>5, <1>7 DEF TotalDrifts

\* What changes between the pages of a search is no fault of theirs.
LEMMA ShiftsKeepReading ==
  ASSUME ReadingInv, TypeOK', search' = Followed
  PROVE  ReadingInv'
<1>1. search \in SearchState
  BY DEF ReadingInv, TypeOK
<1>2. CASE search.pc \notin {"ask", "counted"}
  <2>1. search' = search
    BY <1>2 DEF Followed
  <2> QED  BY <1>2, <2>1
             DEF ReadingInv, UnreadAhead, TotalDrifts, MissedOnlyByShift, PageFitsTotal
<1>3. CASE search.pc \in {"ask", "counted"}
  <2> DEFINE after == {s \in stored' : type'[s] = search.type}
             left  == found(search.type) \ after
             new   == after \ found(search.type)
  <2>1. search' = [search EXCEPT !.steady = @ \ left, !.gone = @ \cup left,
                     !.came = @ \cup new,
                     !.drift = IF search.pc = "counted"
                               THEN @ + Cardinality(left \cup new) ELSE @]
    BY <1>3 DEF Followed
  <2> HIDE DEF left, new
  <2>2. /\ search'.pc = search.pc /\ search'.total = search.total
        /\ search'.page = search.page /\ search'.size = search.size
        /\ search'.got = search.got
        /\ search.pc = "ask" => search'.drift = search.drift
    BY <1>1, <2>1 DEF SearchState
  <2>3. MissedOnlyByShift'
    BY <1>3, <2>2 DEF MissedOnlyByShift
  <2>4. PageFitsTotal'
    BY <1>3, <2>2 DEF ReadingInv, PageFitsTotal
  <2> QED  BY <1>3, <2>3, <2>4, ShiftsKeepAhead, ShiftsAreCounted DEF ReadingInv
<1> QED  BY <1>2, <1>3

\* The client reads on where it was, and comes to the end only when it has read
\* everything.
LEMMA PageKeepsReading ==
  ASSUME ReadingInv, TypeOK', FindPage
  PROVE  ReadingInv'
<1> DEFINE ids   == found(search.type)
           data  == pageOf(ids, search.page, search.size)
           start == skip(search.page, search.size)
           n     == Cardinality(ids)
<1>1. /\ search \in SearchState /\ ids \in SUBSET Id
      /\ search.page \in Nat \ {0} /\ search.size \in Nat \ {0}
      /\ search.pc \in {"ask", "counted"} /\ UNCHANGED <<stored, type>>
  <2>1. search \in SearchState /\ stored \subseteq Id
    BY BoundAssumption DEF ReadingInv, TypeOK, Id
  <2>2. search.pc \in {"ask", "counted"} /\ UNCHANGED <<stored, type>>
    BY DEF FindPage
  <2> QED  BY <2>1, <2>2, PagingAssumption DEF ReadingInv, UnreadAhead, SearchState, found
<1>2. search' = [search EXCEPT
        !.pc = IF Cardinality(data) < search.size THEN "done" ELSE "ask",
        !.page = @ + 1, !.got = Cardinality(data),
        !.total = IF search.pc = "counted" THEN @ ELSE Absent,
        !.read = @ \cup data, !.again = @ \cup (search.read \cap data)]
  BY DEF FindPage
<1>3. /\ n \in Nat /\ start \in Nat
      /\ Cardinality(data) = IF n <= start THEN 0
                             ELSE IF n >= start + search.size THEN search.size
                             ELSE n - start
  BY <1>1, PageHolds, RanksFill
<1>4. \A s \in ids : s \notin data =>
        rank(s, ids) <= start \/ rank(s, ids) > start + search.size
  <2> SUFFICES ASSUME NEW s \in ids, s \notin data
               PROVE  rank(s, ids) <= start \/ rank(s, ids) > start + search.size
    OBVIOUS
  <2>1. rank(s, ids) \notin start + 1 .. start + search.size
    BY DEF pageOf
  <2>2. rank(s, ids) \in Int
    BY <1>1, RanksFill
  <2> HIDE DEF ids, start
  <2> QED  BY <1>1, <1>3, <2>1, <2>2
<1> HIDE DEF data
<1>5. /\ search'.pc = IF Cardinality(data) < search.size THEN "done" ELSE "ask"
      /\ search'.page = search.page + 1 /\ search'.got = Cardinality(data)
      /\ search'.total = IF search.pc = "counted" THEN search.total ELSE Absent
      /\ search'.read = search.read \cup data
      /\ search'.steady = search.steady /\ search'.gone = search.gone
      /\ search'.size = search.size /\ search'.type = search.type
      /\ search'.drift = search.drift
  BY <1>1, <1>2 DEF SearchState
<1>6. found(search.type)' = ids
  BY <1>1, <1>5 DEF found
<1>7. skip(search'.page, search'.size) = start + search.size
  BY <1>1, <1>5, NextPage
<1>8. ASSUME NEW s \in search.steady \ search'.read, ~ \E t \in search.gone : t < s
      PROVE  s \in ids /\ rank(s, ids) \in 1 .. n /\ rank(s, ids) > start + search.size
  <2>1. s \in ids
    BY <1>1, <1>8 DEF ReadingInv, UnreadAhead
  <2>2. s \notin data /\ s \in search.steady \ search.read
    BY <1>5, <1>8
  <2>3. start < rank(s, ids)
    BY <1>1, <1>8, <2>2 DEF ReadingInv, UnreadAhead
  <2>4. rank(s, ids) \in 1 .. n
    BY <1>1, <2>1, RanksFill
  <2> HIDE DEF start, ids, n
  <2> QED  BY <1>3, <1>4, <2>1, <2>2, <2>3, <2>4
<1>9. UnreadAhead'
  <2>1. search'.page # 0
    BY <1>1, <1>5
  <2>2. search'.steady \subseteq ids
    BY <1>1, <1>5 DEF ReadingInv, UnreadAhead
  <2> HIDE DEF ids, start
  <2> QED  BY <1>5, <1>6, <1>7, <1>8, <2>1, <2>2 DEF UnreadAhead
<1>10. MissedOnlyByShift'
  <2> SUFFICES ASSUME search'.pc = "done", NEW s \in search.steady \ search'.read,
                      ~ \E t \in search.gone : t < s
               PROVE  FALSE
    BY <1>5 DEF MissedOnlyByShift
  <2>1. Cardinality(data) < search.size
    BY <1>5
  <2>2. rank(s, ids) \in 1 .. n /\ rank(s, ids) > start + search.size
    BY <1>8
  <2> HIDE DEF ids, start, n
  <2> QED  BY <1>1, <1>3, <2>1, <2>2
<1>11. PageFitsTotal'
  <2> SUFFICES ASSUME search.pc = "counted" PROVE PageFitsTotal'
    BY <1>5 DEF PageFitsTotal
  <2>1. /\ search.total \in Nat /\ search.drift \in Nat
        /\ Apart(search.total, n) <= search.drift
    BY <1>1 DEF ReadingInv, TotalDrifts, SearchState
  <2>2. search'.page - 2 = search.page - 1 /\ search'.page - 1 = search.page
    BY <1>1, <1>5
  <2>3. search'.total - (search'.page - 2) * search'.size = search.total - start
    BY <1>5, <2>2 DEF skip
  <2>4. start < search.total <=> search.page <= totalPages(search.total, search.size)
    BY <1>1, <2>1, PagesCounted
  <2>5. totalPages(search'.total, search'.size) = totalPages(search.total, search.size)
    BY <1>5
  <2> DEFINE expected == search.total - start
             bounded  == IF expected < 0 THEN 0
                         ELSE IF expected > search.size THEN search.size ELSE expected
  <2> HIDE DEF start, n, ids
  <2>6. Apart(bounded, Cardinality(data)) <= search.drift
    BY <1>1, <1>3, <2>1 DEF Apart
  <2>7. search.drift = 0 => search.total = n
    BY <1>3, <2>1 DEF Apart
  <2>8. search.drift = 0 => (Cardinality(data) > 0 <=> start < search.total)
    BY <1>1, <1>3, <2>7
  <2> QED  BY <1>5, <2>2, <2>3, <2>4, <2>5, <2>6, <2>8 DEF PageFitsTotal
<1>12. TotalDrifts'
  BY <1>5 DEF TotalDrifts
<1> QED  BY <1>9, <1>10, <1>11, <1>12 DEF ReadingInv

\* Every action keeps what is unread ahead, and the total near what is found.
LEMMA ReadingStep == ReadingInv /\ [Next]_vars => ReadingInv'
<1> SUFFICES ASSUME ReadingInv, [Next]_vars PROVE ReadingInv'  OBVIOUS
<1>1. TypeOK' /\ search \in SearchState /\ stored \subseteq Id
  BY TypeStep, BoundAssumption DEF ReadingInv, TypeOK, Id
<1>2. CASE UNCHANGED <<search, stored, type>>
  BY <1>1, <1>2 DEF ReadingInv, UnreadAhead, TotalDrifts, MissedOnlyByShift,
                    PageFitsTotal, found
<1>3. CASE search' = Followed
  BY <1>1, <1>3, ShiftsKeepReading
<1>4. ASSUME NEW t \in Type, NEW size \in PageSize, StartSearch(t, size)
      PROVE  ReadingInv'
  <2>1. /\ search'.pc = "ask" /\ search'.page = 1 /\ search'.total = Absent
        /\ search'.steady = found(t) /\ search'.type = t /\ search'.size = size
        /\ UNCHANGED <<stored, type>>
    BY <1>4 DEF StartSearch, NewSearch
  <2>2. found(search.type)' = found(t)
    BY <2>1 DEF found
  <2>3. found(t) \in SUBSET Id /\ size \in Nat
    BY <1>1, PagingAssumption DEF found
  <2>4. skip(search'.page, search'.size) = 0
    BY <2>1, <2>3 DEF skip
  <2>5. \A s \in found(t) : 0 < rank(s, found(t))
    BY <2>3, RanksFill
  <2> QED  BY <1>1, <2>1, <2>2, <2>4, <2>5
             DEF ReadingInv, UnreadAhead, TotalDrifts, MissedOnlyByShift, PageFitsTotal
<1>5. CASE CountSensors
  <2>1. /\ search.pc = "ask" /\ UNCHANGED <<stored, type>>
        /\ search' = [search EXCEPT !.pc = "counted", !.drift = 0,
                        !.total = Cardinality(found(search.type))]
    BY <1>5 DEF CountSensors
  <2>2. /\ search'.pc = "counted" /\ search'.drift = 0
        /\ search'.total = Cardinality(found(search.type))
        /\ search'.read = search.read /\ search'.steady = search.steady
        /\ search'.gone = search.gone /\ search'.page = search.page
        /\ search'.size = search.size /\ search'.type = search.type
    BY <1>1, <2>1 DEF SearchState
  <2>3. found(search.type)' = found(search.type)
    BY <2>1, <2>2 DEF found
  <2>4. UnreadAhead'
    BY <2>1, <2>2, <2>3 DEF ReadingInv, UnreadAhead
  <2>5. Cardinality(found(search.type)) \in Nat
    <3>1. found(search.type) \in SUBSET Id
      BY <1>1 DEF found
    <3> QED  BY <3>1, IdFinite
  <2>6. TotalDrifts'
    BY <2>2, <2>3, <2>5 DEF TotalDrifts, Apart
  <2> QED  BY <1>1, <2>2, <2>4, <2>6 DEF ReadingInv, MissedOnlyByShift, PageFitsTotal
<1>6. CASE FindPage
  BY <1>1, <1>6, PageKeepsReading
<1> QED  BY <1>2, <1>3, <1>4, <1>5, <1>6, SearchSteps

LEMMA ReadingInit == Init => ReadingInv
<1> SUFFICES ASSUME Init PROVE ReadingInv  OBVIOUS
<1>1. search.pc = "idle"
  BY DEF Init, NewSearch
<1> QED  BY <1>1, TypeInit
           DEF ReadingInv, UnreadAhead, TotalDrifts, MissedOnlyByShift, PageFitsTotal

(* A client that has read all pages of a search has seen every sensor that  *)
(* was in it all the while, unless one before it left the search meanwhile. *)
THEOREM Misses == Spec => []MissedOnlyByShift
<1>1. ReadingInv => MissedOnlyByShift
  BY DEF ReadingInv
<1> QED  BY <1>1, ReadingInit, ReadingStep, PTL DEF Spec

(* A page and its total disagree by no more than what entered or left the   *)
(* search between their two queries; if nothing did, the number of pages    *)
(* says which pages are empty.                                              *)
THEOREM Totals == Spec => []PageFitsTotal
<1>1. ReadingInv => PageFitsTotal
  BY DEF ReadingInv
<1> QED  BY <1>1, ReadingInit, ReadingStep, PTL DEF Spec
=============================================================================
