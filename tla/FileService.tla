---------------------------- MODULE FileService ----------------------------
(***************************************************************************)
(* The files part of the core service: FilesService, the HTTP calls of     *)
(* FilesController that change a file, and the consumer of the queue       *)
(* coreservice.files.result, together with what they talk to: the MongoDB  *)
(* collection, the publish buffer of the AMQP connection, the data-service *)
(* and the object store it manages.                                        *)
(*                                                                         *)
(* Each await of a handler is a point at which the other handlers run, so  *)
(* a handler is split into one action per database call; what it does      *)
(* between two awaits belongs to the later of the two.                     *)
(***************************************************************************)
EXTENDS Naturals, Sequences

CONSTANTS File,       \* the _ids of the file documents
          Request,    \* calls of POST /files/:id/visibility-state
          Deletion,   \* calls of DELETE /files/:id and POST /files/delete
          MaxCrashes  \* bound on restarts of the service

ASSUME FileAssumption  == File # {}
ASSUME CrashAssumption == MaxCrashes \in Nat

\* VisibilityState; also the bucket (and path) an object of that state is kept in.
VisibilityState == {"PUBLIC", "PRIVATE"}

\* A document: visibilityState.{published, stateChanging, exposedToPlatforms
\* contains CKAN}, whether visibilityState.errorMessage is set, and storage.
Doc == [published : BOOLEAN, stateChanging : BOOLEAN, errorMessage : BOOLEAN,
        exposed : BOOLEAN, storage : VisibilityState]

VARIABLES
  stored,      \* the files in the collection
  doc,         \* their documents
  request,     \* the visibility requests: handleFileVisibilityChangeRequest
  deletion,    \* the deletions: removeFile and removeMany
  outbox,      \* published messages the connection has not yet written out
  dataService, \* messages the data-service has received and not handled
  object,      \* where the object store keeps the file's object
  results,     \* queue coreservice.files.result
  consumer,    \* what became of the delivery of Head(results)
  crashes,     \* restarts so far
  disturbed    \* history: files that met one of the races or losses below

vars == <<stored, doc, request, deletion, outbox, dataService, object,
          results, consumer, crashes, disturbed>>

----------------------------------------------------------------------------
(* Messages.  req and by tell apart messages that carry the same data.     *)

VisibilityMsg == [type : {"visibility"}, req : Request, file : File,
                  newVisibilityState : VisibilityState,
                  storage : VisibilityState]

DeletionMsg == [type : {"deletion"}, by : Deletion,
                files : SUBSET (File \X VisibilityState)]

ResultMsg == [req : Request, file : File, ok : BOOLEAN,
              newVisibilityState : VisibilityState,
              storage : VisibilityState]

(* Handlers in progress.  seen is the document a request has loaded,       *)
(* overtaken whether the stored one was updated since.                     *)
RequestState == [pc : {"idle", "read", "published", "done"}, file : File,
                 to : VisibilityState, seen : Doc, overtaken : BOOLEAN]

DeletionState == [pc : {"idle", "found", "deleted", "done"},
                  seen : SUBSET (File \X VisibilityState)]

NewDoc(place) == [published |-> place = "PUBLIC", stateChanging |-> FALSE,
                  errorMessage |-> FALSE, exposed |-> FALSE, storage |-> place]

RequestAt(pc) == [pc |-> pc, file |-> CHOOSE f \in File : TRUE, to |-> "PUBLIC",
                  seen |-> NewDoc("PUBLIC"), overtaken |-> FALSE]

DeletionAt(pc) == [pc |-> pc, seen |-> {}]

Sent == {outbox[i] : i \in DOMAIN outbox}

\* The places in the queue of the results that are still to be applied: all but
\* a first one that was applied and not yet acknowledged.
Unapplied == {i \in DOMAIN results : ~(i = 1 /\ consumer = "applied")}

\* Somebody still has to answer, or to record the answer to, a change of f.
ChangePending(f) ==
  \/ \E m \in Sent \cup dataService : m.type = "visibility" /\ m.file = f
  \/ \E i \in Unapplied : results[i].file = f

Loaded(r, f) == request[r].pc \in {"read", "published"} /\ request[r].file = f

ChangeActive(f) == ChangePending(f) \/ \E r \in Request : Loaded(r, f)

FilesOf(places) == {p[1] : p \in places}

\* The requests r holding a document of f that is updated under them.
Overtake(f) == [r \in Request |-> IF Loaded(r, f)
                                  THEN [request[r] EXCEPT !.overtaken = TRUE]
                                  ELSE request[r]]

----------------------------------------------------------------------------
(* Documents.  The definitions named ...Wrong are slips a change of the code  *)
(* could make; no action uses them, and a property notices each.            *)

\* save() as a replacement of the whole document by the loaded one.
savedWholeWrong(seen, current) ==
  [seen EXCEPT !.stateChanging = TRUE, !.errorMessage = FALSE]

\* The new sub-document built without the platforms of the old one.
savedUnexposedWrong(seen, current) ==
  [seen EXCEPT !.stateChanging = TRUE, !.errorMessage = FALSE,
               !.exposed = FALSE, !.storage = current.storage]

\* file.visibilityState = {...}; file.save(): the sub-document is written as
\* a whole from what was loaded, and nothing else of the document is written.
saved(seen, current) ==
  [seen EXCEPT !.stateChanging = TRUE, !.errorMessage = FALSE,
               !.storage = current.storage]

\* An error recorded without ending the change.
changeKeptOnErrorWrong(d, m) ==
  IF m.ok
  THEN [d EXCEPT !.stateChanging = FALSE,
                 !.published = (m.newVisibilityState = "PUBLIC"),
                 !.storage = m.storage]
  ELSE [d EXCEPT !.errorMessage = TRUE]

\* setFileVisibilityState with isSyncing = FALSE: an update of the named paths.
setFileVisibilityState(d, m) ==
  IF m.ok
  THEN [d EXCEPT !.stateChanging = FALSE,
                 !.published = (m.newVisibilityState = "PUBLIC"),
                 !.storage = m.storage]
  ELSE [d EXCEPT !.stateChanging = FALSE, !.errorMessage = TRUE]

\* The files that are still there told apart, and the wrong ones kept.
stillStoredWrong(input, still) == still

\* The documents' ids sent instead of the places of their objects.
idsSentWrong(input, still) == FilesOf(input)

\* getDeletedIds(input, still): the input without the ids still in the
\* collection.  Both sides are ObjectId instances of different queries, the set
\* compares them by identity, and nothing is ever filtered out.
getDeletedIds(input, still) == input

\* getFileLink: built from the storage fields, never from a stored url.
getFileLink(f) == doc[f].storage

\* What an answer says of the place of the object.
noticeOf(m) == [item |-> m.file, to |-> IF m.ok THEN m.storage ELSE "nothing"]

noticesOf(queue) == [i \in DOMAIN queue |-> noticeOf(queue[i])]

----------------------------------------------------------------------------
Init ==
  /\ stored = File
  /\ object \in [File -> VisibilityState]
  /\ doc = [f \in File |-> NewDoc(object[f])]
  /\ request = [r \in Request |-> RequestAt("idle")]
  /\ deletion = [d \in Deletion |-> DeletionAt("idle")]
  /\ outbox = <<>>
  /\ dataService = {}
  /\ results = <<>>
  /\ consumer = "idle"
  /\ crashes = 0
  /\ disturbed = {}

----------------------------------------------------------------------------
(* handleFileVisibilityChangeRequest.  The route is for administrators and *)
(* storage is a required field, so the 403 and 400 answers cannot occur.   *)

FindFile(r, f, to) ==
  /\ request[r].pc = "idle"
  /\ request' = [request EXCEPT ![r] =
       IF f \in stored
       THEN [pc |-> "read", file |-> f, to |-> to, seen |-> doc[f],
             overtaken |-> FALSE]
       ELSE RequestAt("done")]
  /\ UNCHANGED <<stored, doc, deletion, outbox, dataService, object, results,
                 consumer, crashes, disturbed>>

\* The message goes out before the document is saved, with the storage as loaded.
PublishChange(r) ==
  /\ request[r].pc = "read"
  /\ outbox' = Append(outbox,
       [type |-> "visibility", req |-> r, file |-> request[r].file,
        newVisibilityState |-> request[r].to,
        storage |-> request[r].seen.storage])
  /\ request' = [request EXCEPT ![r].pc = "published"]
  /\ UNCHANGED <<stored, doc, deletion, dataService, object, results, consumer,
                 crashes, disturbed>>

\* save() of a document that is gone fails with DocumentNotFoundError.
SaveFile(r) ==
  LET f == request[r].file IN
  /\ request[r].pc = "published"
  /\ IF f \in stored
     THEN /\ doc' = [doc EXCEPT ![f] = saved(request[r].seen, doc[f])]
          /\ disturbed' = IF request[r].overtaken THEN disturbed \cup {f}
                                                  ELSE disturbed
     ELSE UNCHANGED <<doc, disturbed>>
  /\ request' = [request EXCEPT ![r] = RequestAt("done")]
  /\ UNCHANGED <<stored, deletion, outbox, dataService, object, results,
                 consumer, crashes>>

(* setFileExposedToPlatform(ids, CKAN, true), called when an upload task is *)
(* DONE: updateMany updates document by document.                           *)
ExposeFile(f) ==
  /\ f \in stored /\ ~doc[f].exposed
  /\ doc' = [doc EXCEPT ![f].exposed = TRUE]
  /\ request' = Overtake(f)
  /\ UNCHANGED <<stored, deletion, outbox, dataService, object, results,
                 consumer, crashes, disturbed>>

----------------------------------------------------------------------------
(* Deletion.                                                               *)

\* removeFile: findByIdAndDelete.
RemoveFile(d, f) ==
  /\ deletion[d].pc = "idle"
  /\ deletion' = [deletion EXCEPT ![d] =
       IF f \in stored
       THEN [pc |-> "deleted", seen |-> {<<f, doc[f].storage>>}]
       ELSE DeletionAt("done")]
  /\ stored' = stored \ {f}
  /\ disturbed' = IF f \in stored /\ ChangeActive(f) THEN disturbed \cup {f}
                                                     ELSE disturbed
  /\ UNCHANGED <<doc, request, outbox, dataService, object, results, consumer,
                 crashes>>

\* removeMany: find the documents first...
FindFiles(d, items) ==
  /\ deletion[d].pc = "idle"
  /\ deletion' = [deletion EXCEPT ![d] =
       IF items \cap stored # {}
       THEN [pc |-> "found",
             seen |-> {<<f, doc[f].storage>> : f \in items \cap stored}]
       ELSE DeletionAt("done")]
  /\ UNCHANGED <<stored, doc, request, outbox, dataService, object, results,
                 consumer, crashes, disturbed>>

\* ...then deleteMany.  The items that were not found are not stored either:
\* an _id is never reused.
DeleteFiles(d) ==
  LET seen == deletion[d].seen IN
  /\ deletion[d].pc = "found"
  /\ deletion' = [deletion EXCEPT ![d].pc = "deleted"]
  /\ stored' = stored \ FilesOf(seen)
  /\ disturbed' = disturbed \cup
       {f \in stored \cap FilesOf(seen) :
          ChangeActive(f) \/ <<f, doc[f].storage>> \notin seen}
  /\ UNCHANGED <<doc, request, outbox, dataService, object, results, consumer,
                 crashes>>

\* The last step of both: tell the data-service, with the storage as loaded.
SendDeletion(d) ==
  LET seen == deletion[d].seen IN
  /\ deletion[d].pc = "deleted"
  /\ outbox' = Append(outbox,
       [type |-> "deletion", by |-> d,
        files |-> getDeletedIds(seen, {p \in seen : p[1] \in stored})])
  /\ deletion' = [deletion EXCEPT ![d] = DeletionAt("done")]
  /\ UNCHANGED <<stored, doc, request, dataService, object, results, consumer,
                 crashes, disturbed>>

\* removeMany: the query of getDeletedIds fails.  removeFile: the error of a
\* connection hides that the file was deleted.  Nobody is told.
FailDeletion(d) ==
  /\ deletion[d].pc = "deleted"
  /\ deletion' = [deletion EXCEPT ![d] = DeletionAt("done")]
  /\ disturbed' = disturbed \cup FilesOf(deletion[d].seen)
  /\ UNCHANGED <<stored, doc, request, outbox, dataService, object, results,
                 consumer, crashes>>

----------------------------------------------------------------------------
(* The environment: the broker, the data-service and the object store.     *)

\* The connection writes out the oldest buffered message.
Deliver ==
  /\ outbox # <<>>
  /\ dataService' = dataService \cup {Head(outbox)}
  /\ outbox' = Tail(outbox)
  /\ UNCHANGED <<stored, doc, request, deletion, object, results, consumer,
                 crashes, disturbed>>

\* The reply to m: VisibilityStateResultMessageRuntype.
Reply(m, ok) ==
  [req |-> m.req, file |-> m.file, ok |-> ok,
   newVisibilityState |-> m.newVisibilityState,
   storage |-> IF ok THEN m.newVisibilityState ELSE m.storage]

\* The data-service handles its messages in any order.  A move succeeds only if
\* the object is where the message says, and may fail for other reasons.
AnswerChange(m, ok) ==
  /\ m \in dataService /\ m.type = "visibility"
  /\ ok => object[m.file] = m.storage
  /\ object' = IF ok THEN [object EXCEPT ![m.file] = m.newVisibilityState]
                     ELSE object
  /\ results' = Append(results, Reply(m, ok))
  /\ dataService' = dataService \ {m}
  /\ UNCHANGED <<stored, doc, request, deletion, outbox, consumer, crashes,
                 disturbed>>

DeleteObjects(m) ==
  /\ m \in dataService /\ m.type = "deletion"
  /\ object' = [f \in File |-> IF <<f, object[f]>> \in m.files THEN "GONE"
                                                               ELSE object[f]]
  /\ dataService' = dataService \ {m}
  /\ UNCHANGED <<stored, doc, request, deletion, outbox, results, consumer,
                 crashes, disturbed>>

----------------------------------------------------------------------------
(* The consumer of coreservice.files.result.  prefetchCount is 1: the next  *)
(* message is delivered when this one is acknowledged.                      *)

\* handleFileVisibilityStateResultMessage; no document, no effect.
HandleResult ==
  LET m == Head(results) IN
  /\ consumer = "idle" /\ results # <<>>
  /\ IF m.file \in stored
     THEN /\ doc' = [doc EXCEPT ![m.file] = setFileVisibilityState(@, m)]
          /\ request' = Overtake(m.file)
     ELSE UNCHANGED <<doc, request>>
  /\ consumer' = "applied"
  /\ UNCHANGED <<stored, deletion, outbox, dataService, object, results,
                 crashes, disturbed>>

AckResult ==
  /\ consumer = "applied"
  /\ results' = Tail(results)
  /\ consumer' = "idle"
  /\ UNCHANGED <<stored, doc, request, deletion, outbox, dataService, object,
                 crashes, disturbed>>

\* A handler that throws is logged by errorHandler and its message is neither
\* acknowledged nor rejected: nothing more is delivered to this consumer.
FailResult ==
  /\ consumer = "idle" /\ results # <<>>
  /\ consumer' = "blocked"
  /\ UNCHANGED <<stored, doc, request, deletion, outbox, dataService, object,
                 results, crashes, disturbed>>

\* A restart loses the handlers in progress and the publish buffer; the broker
\* delivers the unacknowledged message again.
Crash ==
  /\ crashes < MaxCrashes
  /\ crashes' = crashes + 1
  /\ request' = [r \in Request |-> IF request[r].pc = "idle" THEN request[r]
                                   ELSE RequestAt("done")]
  /\ deletion' = [d \in Deletion |-> IF deletion[d].pc = "idle" THEN deletion[d]
                                     ELSE DeletionAt("done")]
  /\ outbox' = <<>>
  /\ consumer' = "idle"
  /\ disturbed' = disturbed
       \cup {f \in File : \E m \in Sent : m.type = "visibility" /\ m.file = f}
       \cup {f \in File : \E m \in Sent : m.type = "deletion" /\ f \in FilesOf(m.files)}
       \cup {f \in File : \E d \in Deletion : /\ deletion[d].pc = "deleted"
                                              /\ f \in FilesOf(deletion[d].seen)}
  /\ UNCHANGED <<stored, doc, dataService, object, results>>

----------------------------------------------------------------------------
Next ==
  \/ \E r \in Request, f \in File, to \in VisibilityState : FindFile(r, f, to)
  \/ \E r \in Request : PublishChange(r)
  \/ \E r \in Request : SaveFile(r)
  \/ \E f \in File : ExposeFile(f)
  \/ \E d \in Deletion, f \in File : RemoveFile(d, f)
  \/ \E d \in Deletion, items \in (SUBSET File) \ {{}} : FindFiles(d, items)
  \/ \E d \in Deletion : DeleteFiles(d)
  \/ \E d \in Deletion : SendDeletion(d)
  \/ \E d \in Deletion : FailDeletion(d)
  \/ Deliver
  \/ \E m \in dataService, ok \in BOOLEAN : AnswerChange(m, ok)
  \/ \E m \in dataService : DeleteObjects(m)
  \/ HandleResult
  \/ AckResult
  \/ FailResult
  \/ Crash

\* The event loop runs a callback that is ready, the connection writes out what
\* it buffers, and the broker delivers; the data-service answers what it is sent.
Fairness ==
  /\ WF_vars(Deliver)
  /\ WF_vars(HandleResult)
  /\ WF_vars(AckResult)
  /\ WF_vars(\E m \in dataService, ok \in BOOLEAN : AnswerChange(m, ok))

Spec == Init /\ [][Next]_vars
FairSpec == Spec /\ Fairness

----------------------------------------------------------------------------
(* Properties.                                                             *)

TypeOK ==
  /\ stored \subseteq File
  /\ doc \in [File -> Doc]
  /\ request \in [Request -> RequestState]
  /\ deletion \in [Deletion -> DeletionState]
  /\ outbox \in Seq(VisibilityMsg \cup DeletionMsg)
  /\ dataService \subseteq VisibilityMsg \cup DeletionMsg
  /\ object \in [File -> VisibilityState \cup {"GONE"}]
  /\ results \in Seq(ResultMsg)
  /\ consumer \in {"idle", "applied", "blocked"}
  /\ consumer = "applied" => results # <<>>
  /\ crashes \in 0 .. MaxCrashes
  /\ disturbed \subseteq File

Moves(f, i) == results[i].ok /\ results[i].file = f

LastMove(f, i) ==
  /\ i \in DOMAIN results /\ Moves(f, i)
  /\ \A j \in DOMAIN results : j > i => ~Moves(f, j)

NoMoveUnapplied(f) == \A i \in Unapplied : ~Moves(f, i)

(* The links handed out for a stored file lead to its object, unless the    *)
(* answer that says where it went is still on its way -- and then the last  *)
(* such answer in the queue says where it is.  Holds across concurrent      *)
(* requests, stale saves, crashes and redeliveries: save() rewrites the     *)
(* visibility state only, and answers are applied in queue order.           *)
StorageTracked ==
  \A f \in stored :
    /\ object[f] # "GONE"
    /\ \A i \in DOMAIN results : LastMove(f, i) => results[i].storage = object[f]
    /\ NoMoveUnapplied(f) => getFileLink(f) = object[f]

(* Once no answer is outstanding for a file, even while a request has just  *)
(* loaded it, it is not marked as changing, and it is published exactly     *)
(* when its object is in the public bucket.  The only files exempt are      *)
(* those that met a save of an overtaken document or a change message lost  *)
(* in a restart (disturbed).                                                *)
SettledFileIsCoherent ==
  \A f \in stored \ disturbed :
    ~ChangePending(f) =>
      /\ ~doc[f].stateChanging
      /\ doc[f].published <=> object[f] = "PUBLIC"

DeletionPending(f) ==
  \/ \E d \in Deletion : /\ deletion[d].pc = "deleted"
                         /\ <<f, object[f]>> \in deletion[d].seen
  \/ \E m \in Sent \cup dataService : /\ m.type = "deletion"
                                      /\ <<f, object[f]>> \in m.files

(* The object of a deleted file is deleted, or a message naming the place   *)
(* where it really is is on its way.  Exempt are only files deleted while a *)
(* visibility change was going on, and deletions of which a failure or a    *)
(* restart has kept the message from being sent.                            *)
DeletedObjectIsReclaimed ==
  \A f \in File \ (stored \cup disturbed) :
    object[f] # "GONE" => DeletionPending(f)

(* A file uploaded to CKAN stays marked as exposed there: the mark is lost  *)
(* only by a save of a document loaded before the mark was set.             *)
ExposureSurvives ==
  [][\A f \in stored \cap stored' :
       doc[f].exposed /\ ~doc'[f].exposed => f \in disturbed']_vars

(* A file marked as changing does not stay so for ever, unless a stale save *)
(* set the mark, its change was lost in a restart, or the result queue is   *)
(* blocked by a message whose handler failed.                               *)
ChangeEnds ==
  \A f \in File :
    (f \in stored /\ doc[f].stateChanging) ~>
      (\/ f \notin stored \/ ~doc[f].stateChanging
       \/ f \in disturbed \/ consumer = "blocked")

----------------------------------------------------------------------------
Links == INSTANCE LinkedObjects WITH
           Item <- File, Place <- VisibilityState, Gone <- "GONE", Nothing <- "nothing",
           live <- stored, place <- object, link <- [f \in File |-> getFileLink(f)],
           notices <- noticesOf(results)

(* The files component implements LinkedObjects: through stale saves,       *)
(* failed handlers, lost publishes and redelivered answers, the link of a   *)
(* file is only changed to where the oldest answer says its object went, no *)
(* answer leaves the queue before the link says so, and no object of a      *)
(* stored file is deleted.                                                  *)
LinksFollowObjects == Links!Spec
=============================================================================
