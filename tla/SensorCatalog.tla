--------------------------- MODULE SensorCatalog ---------------------------
(***************************************************************************)
(* The sensors as their HTTP calls see them (SensorsController,            *)
(* SensorsService): creation of several, updates of several, of one and by *)
(* common identifiers, removal of attributes, deletion, and a client that  *)
(* reads a search page by page (SkipPagingService).                        *)
(*                                                                         *)
(* A call that concerns several sensors is several operations of MongoDB,  *)
(* each atomic for one document, in any order and with other calls between *)
(* them: the transaction around them is not passed to them.  The value of  *)
(* an attribute is the call that has written it.                           *)
(***************************************************************************)
EXTENDS Integers, FiniteSets, Functions

CONSTANTS Call,       \* HTTP calls that write
          Request,    \* what they may ask for
          Type,       \* values of valueFragmentType
          Plain,      \* description, valueFragmentDisplayName
          Custom,     \* keys of customAttributes
          Initial,    \* number of sensors in the beginning
          MaxSensors, \* bound on the _ids given out
          PageSize    \* sizes of pages asked for

Id  == 1 .. MaxSensors  \* _ids, in the order in which they are given out
Key == Plain \cup Custom

\* The bodies of the calls.  A creation has as many documents as ids; type is the
\* one asked for, identified by or "any"; whole says that customAttributes is
\* given as such, with keys in it or the boolean true.
SensorDto == [op : {"create", "update", "updateOne", "updateMany", "unset", "remove"},
              ids : SUBSET Id, type : Type \cup {"any"}, keys : SUBSET Key,
              whole : BOOLEAN]

ASSUME RequestAssumption == Request \subseteq SensorDto
ASSUME ValueAssumption  == Request # {} /\ Type # {}
\* CreateSensorDto: valueFragmentType is not empty.
ASSUME CreationAssumption == \A q \in Request : q.op = "create" => q.type \in Type
ASSUME KeyAssumption    == Plain \cap Custom = {}
ASSUME BoundAssumption  == Initial \in Nat /\ MaxSensors \in Nat /\ Initial <= MaxSensors
ASSUME PagingAssumption == PageSize # {} /\ PageSize \subseteq Nat \ {0}

VARIABLES
  last,   \* the last _id given out, to a document that is saved or will be
  stored, \* the sensors in the collection
  type,   \* their valueFragmentType
  attr,   \* their other attributes, those that are set
  call,   \* the calls
  search, \* GET /sensors/search?valueFragmentType=, read page after page
  meant,  \* history: per sensor and key the call that was to set it last, if any
  wrote   \* history: the sensors each call has written

vars == <<last, stored, type, attr, call, search, meant, wrote>>

----------------------------------------------------------------------------
None   == "none"
Absent == -1  \* a total that was not asked for

ASSUME NoneAssumption == None \notin Call

\* Some of the keys, each with the call that has written it.
Attributes == UNION {[keys -> Call] : keys \in SUBSET Key}

\* What an update of updateSensors, or saving a document, settles with.
Outcome == {"document", "null", "rejected"}

\* left are the sensors (for a creation, its documents) still to be dealt with;
\* due those that had the identifiers when an updateMany began.
CallState == [pc : {"idle", "running", "done"}, req : Request, left : SUBSET Id,
              due : SUBSET Id, outcome : [Id -> Outcome \cup {"open"}],
              answer : SUBSET Id]

\* A client that asks for pages until one is not full.  Of the last one asked
\* for with its total: total, what it held, and how often sensors had entered or
\* left the search between the two queries.  Of all pages: what was in one, and
\* in two.  Of the time since the first was asked for: the sensors in the search
\* all the while, and those that left it or entered it.
SearchState == [pc : {"idle", "ask", "counted", "done"}, type : Type,
                size : PageSize, page : Nat, total : Int, got : Nat, drift : Nat,
                read : SUBSET Id, again : SUBSET Id, steady : SUBSET Id,
                gone : SUBSET Id, came : SUBSET Id]

CallAt(pc, req, left, due) ==
  [pc |-> pc, req |-> req, left |-> left, due |-> due, outcome |-> [s \in Id |-> "open"],
   answer |-> {}]

NewSearch(pc, t, size, steady) ==
  [pc |-> pc, type |-> t, size |-> size, page |-> 1, total |-> Absent, got |-> 0,
   drift |-> 0, read |-> {}, again |-> {}, steady |-> steady, gone |-> {}, came |-> {}]

----------------------------------------------------------------------------
(* Documents.  The definitions named ...Wrong are slips a change of the     *)
(* code could make; no action uses them, and a property notices each.       *)

\* The custom attributes of the document replaced by those of the call.
replacedWrong(d, c, keys) ==
  [k \in keys \cup (DOMAIN d \ Custom) |-> IF k \in keys THEN c ELSE d[k]]

\* The sub-document written as a key beside its own ones.
wholeKeyWrong(d, c, keys) ==
  [k \in {"customAttributes"} \cup DOMAIN d |-> IF k \in DOMAIN d THEN d[k] ELSE c]

\* transformAttributesToQuery: a path of its own for each attribute given.
withAttributes(d, c, keys) ==
  [k \in keys \cup DOMAIN d |-> IF k \in keys THEN c ELSE d[k]]

\* updateOne: customAttributes, when given, is one path.
withCustomAttributes(d, c, req) ==
  withAttributes(Restrict(d, DOMAIN d \ IF req.whole THEN Custom ELSE {}), c, req.keys)

\* removeSensorAttributesByCommonIdentifiers: customAttributes stands for all keys,
\* and customAttributeKeys is not looked at then.
withoutAttributes(d, req) ==
  Restrict(d, DOMAIN d \ (req.keys \cup IF req.whole THEN Custom ELSE {}))

\* The filter of an updateMany: all the identifiers that are given.
identified(req) ==
  {s \in stored : /\ req.type = "any" \/ type[s] = req.type
                  /\ req.ids = {} \/ s \in req.ids}

\* Everything that settles taken for a document.
settledWrong(outcome) == {s \in Id : outcome[s] # "open"}

\* awaitAllPromises(updatesInProgress).fulfilled.filter(isPresent)
completedUpdates(outcome) == {s \in Id : outcome[s] = "document"}

\* A creation that fails for one document is answered with its error.
answerOf(a) ==
  IF a.req.op = "create" /\ \E s \in Id : a.outcome[s] = "rejected" THEN {}
  ELSE completedUpdates(a.outcome)

----------------------------------------------------------------------------
(* Paging: findWithPagination.                                             *)

\* The page number not turned into one from 0.
skipWrong(page, size) == page * size

skip(page, size) == (page - 1) * size

\* Rounded down.
totalPagesWrong(total, size) == total \div size

totalPages(total, size) == (total + size - 1) \div size

\* The latest first.
rankWrong(s, ids) == Cardinality({t \in ids : t >= s})

\* The place of s when ids are sorted by _id.
rank(s, ids) == Cardinality({t \in ids : t <= s})

\* sort, skip and limit
pageOf(ids, page, size) ==
  {s \in ids : rank(s, ids) \in skip(page, size) + 1 .. skip(page, size) + size}

found(t) == {s \in stored : type[s] = t}

\* What a step that changes the sensors does to the search somebody is reading.
Followed ==
  LET after == {s \in stored' : type'[s] = search.type}
      left  == found(search.type) \ after
      new   == after \ found(search.type)
  IN IF search.pc \notin {"ask", "counted"} THEN search
     ELSE [search EXCEPT !.steady = @ \ left, !.gone = @ \cup left, !.came = @ \cup new,
                         !.drift = IF search.pc = "counted"
                                   THEN @ + Cardinality(left \cup new) ELSE @]

----------------------------------------------------------------------------
\* Object-sync tasks and earlier calls have left some sensors.
Init ==
  /\ last = Initial /\ stored = 1 .. Initial
  /\ type \in {f \in [Id -> Type] : \A s \in Id \ stored : f[s] = CHOOSE t \in Type : TRUE}
  /\ attr = [s \in Id |-> <<>>]
  /\ call = [c \in Call |-> CallAt("idle", CHOOSE q \in Request : TRUE, {}, {})]
  /\ search = NewSearch("idle", CHOOSE t \in Type : TRUE, CHOOSE n \in PageSize : TRUE, {})
  /\ meant = [s \in Id |-> [k \in Key |-> None]]
  /\ wrote = [c \in Call |-> {}]

Running(c, op) == call[c].pc = "running" /\ call[c].req.op = op

\* The _ids a call can name: those given out, but to documents not yet saved.
OnTheWay == UNION {call[c].left : c \in {d \in Call : Running(d, "create")}}
Nameable == (1 .. last) \ OnTheWay

Known(q) == q.ids \subseteq Nameable

Begin(c, q, left, due) ==
  /\ call[c].pc = "idle"
  /\ call' = [call EXCEPT ![c] = CallAt("running", q, left, due)]
  /\ UNCHANGED <<last, stored, type, attr, search, meant, wrote>>

\* Call c sets keys and removes cleared of s.
Means(c, s, keys, cleared) ==
  /\ meant' = [meant EXCEPT ![s] = [k \in Key |-> IF k \in keys THEN c
                                                  ELSE IF k \in cleared THEN None
                                                  ELSE meant[s][k]]]
  /\ wrote' = [wrote EXCEPT ![c] = @ \cup {s}]

Settle(c, s, outcome) ==
  call' = [call EXCEPT ![c].left = @ \ {s}, ![c].outcome[s] = outcome]

----------------------------------------------------------------------------
(* POST /sensors: Model.create gives every document its _id when it makes   *)
(* it, and saves them side by side.                                         *)

CreateSensors(c, q) ==
  LET new == last + 1 .. last + Cardinality(q.ids) IN
  /\ call[c].pc = "idle" /\ q.op = "create" /\ new \subseteq Id
  /\ last' = last + Cardinality(q.ids)
  /\ call' = [call EXCEPT ![c] = CallAt("running", q, new, {})]
  /\ UNCHANGED <<stored, type, attr, search, meant, wrote>>

\* The error of a connection may hide that the document was saved.
InsertSensor(c, s, outcome) ==
  LET q == call[c].req IN
  /\ Running(c, "create") /\ s \in call[c].left
  /\ outcome \in {"document", "rejected"}
  /\ stored' = stored \cup {s}
  /\ type' = [type EXCEPT ![s] = q.type]
  /\ attr' = [attr EXCEPT ![s] = withAttributes(<<>>, c, q.keys)]
  /\ Settle(c, s, outcome)
  /\ Means(c, s, q.keys, {})
  /\ UNCHANGED last
  /\ search' = Followed

FailInsert(c, s) ==
  /\ Running(c, "create") /\ s \in call[c].left
  /\ Settle(c, s, "rejected")
  /\ UNCHANGED <<last, stored, type, attr, search, meant, wrote>>

----------------------------------------------------------------------------
(* PATCH /sensors: updateSensors starts all updates at once.               *)

UpdateSensors(c, q) ==
  /\ q.op = "update" /\ Known(q)
  /\ Begin(c, q, q.ids, {})

\* findByIdAndUpdate of a sensor that is there; the error of a connection may
\* hide that it was done.
UpdateSensor(c, s, outcome) ==
  LET q == call[c].req IN
  /\ Running(c, "update") /\ s \in call[c].left \cap stored
  /\ outcome \in {"document", "rejected"}
  /\ type' = IF q.type = "any" THEN type ELSE [type EXCEPT ![s] = q.type]
  /\ attr' = [attr EXCEPT ![s] = withAttributes(@, c, q.keys)]
  /\ Settle(c, s, outcome)
  /\ Means(c, s, q.keys, {})
  /\ UNCHANGED <<last, stored>>
  /\ search' = Followed

\* One that is gone, or an update that fails.
MissSensor(c, s, outcome) ==
  /\ Running(c, "update") /\ s \in call[c].left
  /\ \/ outcome = "rejected"
     \/ outcome = "null" /\ s \notin stored
  /\ Settle(c, s, outcome)
  /\ UNCHANGED <<last, stored, type, attr, search, meant, wrote>>

----------------------------------------------------------------------------
(* PATCH /sensors/:id and DELETE /sensors/:id: one operation each.         *)

UpdateOne(c, q) ==
  /\ call[c].pc = "idle" /\ q.op = "updateOne" /\ Known(q)
  /\ \E s \in q.ids :
       IF s \in stored
       THEN /\ type' = IF q.type = "any" THEN type ELSE [type EXCEPT ![s] = q.type]
            /\ attr' = [attr EXCEPT ![s] = withCustomAttributes(@, c, q)]
            /\ Means(c, s, q.keys, IF q.whole THEN Custom ELSE {})
       ELSE UNCHANGED <<type, attr, meant, wrote>>
  /\ call' = [call EXCEPT ![c] = [CallAt("done", q, {}, {}) EXCEPT !.answer = q.ids \cap stored]]
  /\ UNCHANGED <<last, stored>>
  /\ search' = Followed

RemoveSensor(c, q) ==
  /\ call[c].pc = "idle" /\ q.op = "remove" /\ Known(q)
  /\ stored' = stored \ q.ids
  /\ call' = [call EXCEPT ![c] = CallAt("done", q, {}, {})]
  /\ UNCHANGED <<last, type, attr, meant, wrote>>
  /\ search' = Followed

----------------------------------------------------------------------------
(* PATCH /sensors/attributes and POST /sensors/attributes/delete.  A call  *)
(* without any identifier is a 400.  updateMany goes through the sensors   *)
(* that have the identifiers; it may come by one that gets them meanwhile. *)

UpdateMany(c, q) ==
  /\ q.op \in {"updateMany", "unset"} /\ Known(q)
  /\ q.ids # {} \/ q.type # "any"
  /\ Begin(c, q, Id, identified(q))

SetAttributes(c, s) ==
  LET q == call[c].req IN
  /\ Running(c, "updateMany") /\ s \in call[c].left \cap identified(q)
  /\ attr' = [attr EXCEPT ![s] = withAttributes(@, c, q.keys)]
  /\ Means(c, s, q.keys, {})
  /\ call' = [call EXCEPT ![c].left = @ \ {s}]
  /\ UNCHANGED <<last, stored, type, search>>

UnsetAttributes(c, s) ==
  LET q == call[c].req IN
  /\ Running(c, "unset") /\ s \in call[c].left \cap identified(q)
  /\ attr' = [attr EXCEPT ![s] = withoutAttributes(@, q)]
  /\ Means(c, s, {}, q.keys \cup IF q.whole THEN Custom ELSE {})
  /\ call' = [call EXCEPT ![c].left = @ \ {s}]
  /\ UNCHANGED <<last, stored, type, search>>

\* The answers of the calls that take several operations.
Answer(c) ==
  LET q == call[c].req IN
  /\ call[c].pc = "running"
  /\ IF q.op \in {"updateMany", "unset"}
     THEN call[c].left \cap call[c].due \cap identified(q) = {}
     ELSE call[c].left = {}
  /\ call' = [call EXCEPT ![c].pc = "done", ![c].answer = answerOf(call[c])]
  /\ UNCHANGED <<last, stored, type, attr, search, meant, wrote>>

----------------------------------------------------------------------------
(* GET /sensors/search, page by page.                                      *)

StartSearch(t, size) ==
  /\ search.pc = "idle"
  /\ search' = NewSearch("ask", t, size, found(t))
  /\ UNCHANGED <<last, stored, type, attr, call, meant, wrote>>

\* withTotalElements or withTotalPages: a query of its own.
CountSensors ==
  /\ search.pc = "ask"
  /\ search' = [search EXCEPT !.pc = "counted", !.drift = 0,
                              !.total = Cardinality(found(search.type))]
  /\ UNCHANGED <<last, stored, type, attr, call, meant, wrote>>

\* The page itself, with or without a total.
FindPage ==
  LET data == pageOf(found(search.type), search.page, search.size) IN
  /\ search.pc \in {"ask", "counted"}
  /\ search' = [search EXCEPT
       !.pc = IF Cardinality(data) < search.size THEN "done" ELSE "ask",
       !.page = @ + 1, !.got = Cardinality(data),
       !.total = IF search.pc = "counted" THEN @ ELSE Absent,
       !.read = @ \cup data, !.again = @ \cup (search.read \cap data)]
  /\ UNCHANGED <<last, stored, type, attr, call, meant, wrote>>

----------------------------------------------------------------------------
Next ==
  \/ \E c \in Call, q \in Request : CreateSensors(c, q)
  \/ \E c \in Call, s \in Id, outcome \in Outcome : InsertSensor(c, s, outcome)
  \/ \E c \in Call, s \in Id : FailInsert(c, s)
  \/ \E c \in Call, q \in Request : UpdateSensors(c, q)
  \/ \E c \in Call, s \in Id, outcome \in Outcome : UpdateSensor(c, s, outcome)
  \/ \E c \in Call, s \in Id, outcome \in Outcome : MissSensor(c, s, outcome)
  \/ \E c \in Call, q \in Request : UpdateOne(c, q)
  \/ \E c \in Call, q \in Request : RemoveSensor(c, q)
  \/ \E c \in Call, q \in Request : UpdateMany(c, q)
  \/ \E c \in Call, s \in Id : SetAttributes(c, s)
  \/ \E c \in Call, s \in Id : UnsetAttributes(c, s)
  \/ \E c \in Call : Answer(c)
  \/ \E t \in Type, size \in PageSize : StartSearch(t, size)
  \/ CountSensors
  \/ FindPage

Spec == Init /\ [][Next]_vars

----------------------------------------------------------------------------
(* Properties.                                                             *)

TypeOK ==
  /\ last \in Initial .. MaxSensors /\ stored \subseteq Id
  /\ type \in [Id -> Type]
  /\ attr \in [Id -> Attributes]
  /\ call \in [Call -> CallState]
  /\ search \in SearchState
  /\ meant \in [Id -> [Key -> Call \cup {None}]]
  /\ wrote \in [Call -> SUBSET Id]

(* However the operations of concurrent calls fall together, an attribute   *)
(* of a sensor has the value of the last call that named it, and is absent  *)
(* if that call removed it: no call takes away what another has set under   *)
(* keys it does not name itself.                                            *)
NoWriteLost ==
  \A s \in stored, k \in Key :
    IF meant[s][k] = None THEN k \notin DOMAIN attr[s]
    ELSE k \in DOMAIN attr[s] /\ attr[s][k] = meant[s][k]

(* The answer to an update of several sensors, some of which were removed   *)
(* or whose updates failed meanwhile, names only sensors it has updated;    *)
(* one it does not name is gone, or its update was rejected.                *)
AnswerNamesTheUpdated ==
  \A c \in Call :
    call[c].pc = "done" /\ call[c].req.op = "update" =>
      /\ call[c].answer \subseteq wrote[c]
      /\ \A s \in call[c].req.ids \ call[c].answer :
           s \notin stored \/ call[c].outcome[s] = "rejected"

(* A client that has read all pages has seen every sensor that was in the   *)
(* search all the while, unless one before it left the search meanwhile.    *)
MissedOnlyByShift ==
  search.pc = "done" =>
    \A s \in search.steady \ search.read : \E t \in search.gone : t < s

(* It has seen none twice, unless one before it entered the search: being   *)
(* updated, or created with an _id that was given out before that of one it *)
(* had read already.  One that comes after all it has read never does it.   *)
RepeatedOnlyByShift ==
  \A s \in search.again : \E t \in search.came : t < s

Apart(m, n) == IF m < n THEN n - m ELSE m - n

(* A page holds what its total says, but for as many sensors as entered or  *)
(* left the search between the two queries; without any, the pages up to    *)
(* the last by the number of pages are those that are not empty.            *)
PageFitsTotal ==
  LET expected == (search.total - (search.page - 2) * search.size)
      bounded  == IF expected < 0 THEN 0
                  ELSE IF expected > search.size THEN search.size ELSE expected
  IN search.total # Absent /\ search.pc \in {"ask", "done"} =>
       /\ Apart(bounded, search.got) <= search.drift
       /\ search.drift = 0 =>
            (search.got > 0 <=> search.page - 1 <= totalPages(search.total, search.size))
=============================================================================
