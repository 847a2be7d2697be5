# c8y-core-service in TLA+

Models, model checks and proofs for `c8y-core-service`, the central service of a
data-export solution around Cumulocity. It keeps sensors, groups, tasks, files
and users in MongoDB, takes HTTP calls of administrators, and works with a
separate *data-service* over RabbitMQ. The data-service fetches data, stores
files in an object store (MinIO), moves and deletes the objects, uploads to CKAN,
and reports back. Paths below are relative to `src/src/`.

## 1. The system

| component | code | state | operations |
|---|---|---|---|
| files | `core/files` | file documents: storage (bucket, path), visibilityState (published, stateChanging, exposedToPlatforms, errorMessage), metadata | change visibility, delete one or many, link, create from a result, mark as exposed, check before an upload, searches |
| tasks | `core/tasks` | task documents: type, name, status, mode, payload, metadata | create and schedule, update status, record a failure, record a data-fetch result, request and record a mode, searches |
| messages | `core/messages` | none; three queues of the broker and the publish buffer of the connection | consume `coreservice.tasks.status`, `coreservice.files.result`, `coreservice.tasks.mode.changed`; publish tasks, modes, file changes, deletions, users |
| object sync handler | `core/messages/handlers` | none | create the sensors and groups a message reports |
| sensors | `core/sensors` | sensor documents with custom attributes | create several, update several, one or by common identifiers, remove attributes, remove, searches |
| groups | `core/groups` | group documents; they hold ids of sensors and groups | create, update (merging), remove, searches |
| paging | `core/paging` | none | count, sort, skip and limit of a search |
| users | `core/users` | user documents: name, password, roles, Cumulocity credentials | register, update, delete, get, default user at start-up |
| auth, guards | `core/auth`, `guards` | tokens, kept by the clients, hold roles and an expiry | login, verification of tokens, required roles of a route |
| application-config | `core/application-config` | the environment, and a flag that the default user was read | getters |
| global, decorators, interceptors, pipes, utils, models | | none | shaping and validation of inputs and outputs |

**How they interact.** HTTP handlers write documents and then publish a message,
without awaiting or storing it. The data-service answers into one of the three
queues. Each queue has one consumer with `prefetchCount` 1, which handles a
message with several awaited database calls and acknowledges it at the end. A
handler that throws is only logged by `errorHandler`: its message is neither
acknowledged nor rejected, so nothing more is delivered to that consumer until
the connection is made anew, and then the same message comes first. All parts
share the documents. Nothing is locked, and no transaction has an effect: the one
`updateGroups` opens is not passed to its updates.

**What is hard.** Each `await` lets any other handler run: documents are loaded,
used and saved in different steps, existence is checked before a creation, and a
message may leave before the document it announces is saved. A restart loses
handlers in progress and published messages not yet written out, while documents
stay, and redelivers what was not acknowledged. The two queues about modes are
unordered to each other. Calls on several sensors are several operations with
other calls between them; the pages of a search are read while sensors come and
go; a token keeps the roles of its time of issue. `PROJECT.json` lists these hazards at their lines.

**What makes it correct.**
- files: links lead to the object; a file is published exactly when its object is
  public and no change hangs; marks of exposure survive; the object of a deleted
  file is deleted.
- tasks: a stored task is announced; two tasks have one name only if created at the
  same time; status and mode agree with the data-service once everything is handled,
  and the status goes through what was reported, in that order; exactly the files of finished uploads are marked,
  and no file is uploaded by two tasks;
  payload entries and file documents of results correspond one to one.
- object sync: messages are idempotent; an acknowledged message is fully applied.
- sensors: no call takes away what another has set; the answer to an update names
  what was updated; a reader of all pages misses and repeats nothing but for shifts.
- access: administrators' calls are made by administrators, revoked roles run out,
  the default user exists.
- users: the data-service has the stored credentials of every user, and of no other,
  unless a failure, a restart or a crossing of two calls came between.

## 2. Modules

| module | models | composed with |
|---|---|---|
| `FileService` | `FilesService`, the routes of `FilesController` that write, the consumer of `coreservice.files.result`; MongoDB, publish buffer, data-service and object store around it | abstracts an upload task to `ExposeFile` |
| `TaskService` | `TasksService`, `TaskCreationService`, `TaskMessageMapperService`, the consumers of the status and mode queues | abstracts files to sets; keeps the marks the upload handler sets |
| `DataFetch` | creation of data-fetch tasks and the three steps of the handler of their results | shares the consumer of `TaskService` |
| `ObjectSync` | `ObjectSyncTaskMessageHandler`, with `SensorsService` and `GroupsService` under it and their HTTP calls beside it | shares the consumer of `TaskService` |
| `UserService` | registration, update, deletion, default user, messages to the data-service | |
| `LinkedObjects` | abstract: objects that move, and links that follow the notices of their moves | implemented by `FileService` |
| `ReportedTasks` | abstract: tasks that are run, reports on the changes of their runs, and a status and marks that follow the reports | implemented by `TaskService` |
| `SensorCatalog` | `SensorsController`, `SensorsService` and the paging of its search | its look-ups for tasks are in `ObjectSync` |
| `Access` | roles, login, tokens, guards, user administration, default user | the credentials and messages of users are in `UserService` |
| `FileServiceProofs`, `FileLinksProofs`, `TaskServiceProofs`, `DataFetchProofs`, `ObjectSyncProofs`, `UserServiceProofs`, `SensorCatalogProofs`, `AccessProofs` | theorems about the module of the name; `FileLinksProofs` about the refinement of `LinkedObjects` | |
| `MC...` | values of the constants for the runs | |

Common conventions. One action is what happens up to and including one awaited
database call (MongoDB updates of one document are atomic; an `updateMany` is one
step per document where another handler may observe the difference), together
with the synchronous code around it. A variable named for a collection (`stored`,
`doc`, `task`, `data`, `sensor`, `group`, `creds`) is that collection. `outbox` is
the publish buffer, `service` or `dataService` what the data-service holds.
`consumer`, `status`, `mode`, `handler` and `sync` say where the handler of the
first message of a queue is. History variables (`disturbed`, `lost`, `crossed`,
`raced`, `contested`, `retried`, `twins`, `removed`, `meant`, `wrote`, `stale`, `dismissed`) are read
by no guard. Most name the objects that
met a race or loss the code does not guard against, so that the properties can
say exactly what holds for all the others. Operators named `...Wrong` are plausible
slips in the definition before which they stand; no action uses them, and each
makes a property fail.

`FileService`. `FindFile`, `PublishChange` and `SaveFile` are
`handleFileVisibilityChangeRequest`; `RemoveFile` and `SendDeletion` are
`removeFile`; `FindFiles`, `DeleteFiles` and `SendDeletion` are `removeMany`, whose
query between the deletion and the message may fail, as the answer to a deletion may
be lost (`FailDeletion`): then nobody is told, and `disturbed` gets the files;
`HandleResult`, `AckResult` and `FailResult` are the consumer. A bucket and path
are one value, PUBLIC or PRIVATE. `saved` writes the visibility sub-document as a
whole from what was loaded and leaves storage alone, as mongoose does with the
assigned path. `getDeletedIds` is the identity on its input: the code compares
`ObjectId`s of two queries by reference. `Links` maps it to `LinkedObjects`: `live`
is `stored`, `place` is `object`, `link` is what `getFileLink` makes of a document, and
`notices` are the answers in `results`, those without a new place as notices of a
failed move. Requests, deletions, buffers and restarts have no counterpart there, so
that the refinement says that they never show in the links.

`TaskService`. `CheckName` ... `ScheduleTask` are `createAndScheduleTask` for
upload and object-sync tasks; `SendTaskMode` is `PUT /tasks/mode`; `UpdateStatus`
... `FailStatus` and `ChangeTasksModes` ... `FailMode` are the consumers. `job` is
the data-service's side, which may run a task several times, and reports with or
without a mode. `raced` collects the files given to a task while another had them
and was not finished, or its last report not applied: the check for exposed files
cannot see those. `contested` collects the names looked up while a call was on its way
with them: between its own look-up and the creation of its task, which `isTaken`
cannot see. `Reports` maps `TaskService` to `ReportedTasks`: `known` is `stored`, `files` and
`shown` are the files and the status of the documents, `ran` is what the data-service
has reported last, `reports` are the messages in `statusQueue` without their modes, and
`marked` is `exposed`. Calls, buffers, modes, the phases of the handler, failures and
restarts have no counterpart there: a redelivered report is shown twice and marks
nothing new.

`DataFetch`. `filesOf` and `CreateFiles` are `createFilesFromMessage`; `merged` and
`SaveResult` are `handleDataFetchTaskResult`, with one set for each branch of its loop
(`untouched`, `rewritten`, `added`). `dataId`s and the `_id`s of files are numbers drawn
from one counter; an item without a path has no stored object.

`ObjectSync`. Sensors and groups are sequences indexed by `_id`. `sensorsLike`
looks up with the case-insensitive collation of the schema; `TakeGroupSensor`
compares what was found with case, as the handler does. `withSensors` adds sensors
only: the `$addToSet` of `updateGroups` has the operator for the groups inside the
one for the sensors. `FailUpdate` is an update whose error `updateGroups` drops.

`UserService`. A call writes, gets the answer, and publishes. Answers come over
the sockets of a pool, so two calls may publish in another order than they wrote.
A user message carries the document the write returned. Three things keep a write
from the data-service for good, and each puts the users concerned into `lost`:
- A user may be registered with `c8yCredentials: null`, which `@IsOptional` lets pass
  and the collection takes; the check of the message then throws
  (`core/messages/messages-producer.service.ts:42`) and the caller gets an error
  (`FailCheck`). Such a user can be deleted; updates of single credentials are refused
  by MongoDB, and an update of something else fails in the same check.
- The query of `getDeletedIds` between a deletion and its messages may fail
  (`FailDeletions`).
- The exchange drops a message while no queue is bound for it: until the data-service
  has run once (`DeclareQueue`), as `../README.md:32-33` warns for the default user
  (`DropMessage`). Its queue then outlives it, as the queues of this service do. A
  restart loses what is not written out (`Crash`).

The next message about a user that is published in order takes the user out of `lost` and
`crossed` again: it says all there is to say. Only a configuration that names a default
user, with all credentials, is modelled.

`SensorCatalog`. `CreateSensors`, `InsertSensor` and `FailInsert` are `createSensors`:
mongoose gives all documents of a creation their `_id`s at once, and saves them side by
side, each with its own answer, so that they appear in any order, or not at all;
`UpdateSensors`, `UpdateSensor` and `MissSensor` are `updateSensors`, one update per
sensor, all started at once, outside the transaction that is opened around them;
`UpdateOne` and `RemoveSensor` are one operation each; `UpdateMany`, `SetAttributes` and
`UnsetAttributes` are the updates by common identifiers; `Answer` ends a call. The value
of an attribute is the call that wrote it. `StartSearch`, `CountSensors` and `FindPage`
are a client going through `findWithPagination`, which counts and reads in two queries.
`Followed` keeps account of what enters and leaves the search meanwhile: a sensor saved
late, before those that were read already, shifts them on just as an update does. The
search modelled is sorted by `_id`; one with a text query is sorted by score, and what
is said of shifts does not hold for it. That one call names a sensor twice is not
modelled. The message
about sensors that are missing (`core/sensors/sensors.controller.ts:153`) is never
given, since `core/sensors/sensors.service.ts:144` tests a promise for presence, so
the answer has no such part in the model either.

`Access`. `FindDefault` and `CreateDefault` are `handleDefaultUser`; `FindUser` and
`ComparePassword` are the login, between which the user may change; `PassGuards` is
`JwtAuthGuard` with `RolesGuard`, after which a call goes on whatever happens to its
user; `Register`, `Update`, `Delete`, `GetUser` and `EndOther` end it. `Expire` is the
passing of `expiresIn`. Passwords and signatures are not computed: a comparison
succeeds or fails, and a token is genuine.

## 3. Runs

| run | instance | shows |
|---|---|---|
| `file_races` | 1 file, 2 visibility requests, 2 deletions, 1 restart, symmetric | `StorageTracked`, `SettledFileIsCoherent`, `DeletedObjectIsReclaimed`, `ExposureSurvives` under every interleaving of two calls of each kind, uploads and answers; `LinksFollowObjects`, the refinement |
| `file_answers` | 2 files, 1 request, 1 deletion (of both files, too), 1 restart, fair | `ChangeEnds` |
| `task_uploads` | 2 calls, 2 files (one without description), 2 names, 1 run each, 1 restart, fair | `StoredTaskIsScheduled`, `SettledStatusAgrees`, `UploadIsRecorded`, `NamesDiffer`, `FileUploadedOnce`, `UploadGetsRecorded`; `ReportsAreFollowed`, the refinement |
| `task_modes` | 1 task, 2 runs, 2 mode calls, 1 restart | `SettledModeAgrees` with reports that carry modes |
| `fetch_results` | 1 task created here and 1 foreign, 2 sensors, 2 names, 2 items over 1 or 2 results, 1 restart, symmetric | `EntriesDistinct`, `LinkedFileIsOwn`, `AppliedResultIsRecorded`, `RecordedOnce`, `EntriesKept` |
| `object_sync` | 2 messages, 2 HTTP calls, 1 restart; triples that differ in case only, one without fragment type; two group ids | `SyncMakesNoSecond`, `AppliedMessageIsSynced`, `GroupsOnlyGrow` |
| `user_sync` | 2 users, 3 calls, 2 names, 2 credential fields, given in part, in full, not at all or as null, the data-service there from the start, later or never, 1 restart, fair | `SettledUserAgrees`, `CredentialsStayComplete`, `UserGetsSynced` |
| `sensor_catalog` | 2 calls with 9 requests, two or one of each kind, overlapping in sensors and keys; 2 sensors at first and up to 4; 2 fragment types; pages of 1 and 2; symmetric | `NoWriteLost`, `AnswerNamesTheUpdated`, `MissedOnlyByShift`, `RepeatedOnlyByShift`, `PageFitsTotal` |
| `user_access` | 2 accounts, 2 clients, 2 names, 1 restart, fair | `AdminCallIsByAdmin`, `DefaultUserIsThere`, `RevocationTakesEffect` |

All but `file_answers` and `task_modes`, which are other instances of modules of the
table, also check `TypeOK`. Three more runs are expected to find a violation: the
program does not do what one of its own lines says.

| run | statement | what TLC finds |
|---|---|---|
| `undescribed_exposed` | "Already present files won't be uploaded" (`core/tasks/task-creation.service.ts:102`) | a file the mapper leaves out of the message is marked as exposed with the others, and is refused ever after |
| `shared_names` | "Saves down the actual file storage bucket and path, updated filename and created file id" (`core/tasks/tasks.service.ts:206`) | created files are found by name: of two items of one name, one gets its own path and the other's file id |
| `user_get` | "Get one user" (`core/users/users.controller.ts:37`) | the filter is `{ id }`, no path of the schema; mongoose 6 drops it, and the answer is any user |

**Why the bounds are enough.** Each race here is between two handlers on one
object, or a handler and the answer to another; two calls of a kind on one object
give all orders of their steps, and a third adds no new pair. What concerns sets
(a deletion of several files, an upload of several, a group of several sensors)
needs two elements. One restart separates any two steps; the recovery starts from
the same documents again. `fetch_results` takes two items, over one or two
messages, so that an entry is made and later rewritten; names differ within a
result there, since `shared_names` shows what happens otherwise. It is assumed
that the `dataId`s of one message differ. `user_sync` has three calls, so that two
may cross and a third repair it. `sensor_catalog` starts with two sensors, the least
that can shift each other between pages of one, and a creation may bring two more, in
either order; a third call, or a second creation at the same time, would only add shifts
of the same kinds (the proofs have any number of both). `user_access` has an
administrator who may act on himself and on the other, from two clients. Every `MaxX` constant is a bound; the checks stop
when the calls are used up, hence `CHECK_DEADLOCK FALSE`.

**Fairness** (`file_answers`, `task_uploads`, `user_sync`, `user_access`). Weak fairness of the
steps the event loop owes: a handler whose database call was answered goes on, the
connection writes out its buffer, the broker delivers the first message and an
applied one is acknowledged. In `FileService` also that the data-service answers a
change, with success or failure; in `UserService` that a call whose write was answered
publishes or fails in its check (`SendUser` or `FailCheck`), and that a message written out
is taken or dropped (`Synchronise` or `DropMessage`), never that the data-service starts; in `Access` that a password is compared, a call
that passed the guards is answered, and a token expires (`expiresIn` is always
configured, `ignoreExpiration` is false). Nothing is assumed of callers, failures or
restarts; a consumer blocked by a failed handler is never assumed to recover, which
is why the liveness properties name that case.

## 4. Proofs

`FileServiceProofs` proves for any sets of files, requests and deletions and any
number of restarts, from `FileAssumption` (there is a file) and `CrashAssumption`:

- `Typing`: `Spec => []TypeOK`.
- `StorageIsTracked`: `Spec => []StorageTracked`. Not inductive by itself: nothing
  in it says that no message deletes the object of a stored file.
  `OnlyDeletedNamed` adds that every deletion in progress, buffered or sent names
  only files that are gone; with it a deletion of objects cannot touch a stored
  file, and a move either appends the answer that names the new place or changes
  nothing. `StorageInv` is the conjunction.
- `SettledCoherence`: `Spec => []SettledFileIsCoherent`. `CoherenceInv` adds that
  the last answer outstanding says what is published (`AnswersAgree`), that a
  request holding a file not overtaken has loaded what is stored (`LoadedIsCurrent`),
  that a published change of such a request is still to be answered
  (`AnswerAhead`), and that a file nobody works on is coherent (`DocCoherent`).
  The early answer is why it is needed: a change may be answered before the
  document is saved, and then the request is overtaken.
- `ExposureKept`: `Spec => [][...]_vars` of `ExposureSurvives`, from
  `LoadedIsCurrent`: only a save can take a mark, and only an overtaken one does.
- `DeletionReclaims`: `Spec => []DeletedObjectIsReclaimed`, outside the races, failures
  and restarts of `disturbed`. `DeletedIsQuiet` adds
  that no change of a deleted, undisturbed file is going on, so that its object
  stays where the deletion found it.

`FileLinksProofs` proves `LinksImplemented`: `Spec => LinksFollowObjects`. From
`StorageInv` every step of `FileService` is a step of `LinkedObjects` under the mapping
or leaves it unchanged: a result handled is `Follow`, an acknowledgement is `GiveUp`
(here `StorageTracked` is needed: the link must say what the answer said), an
answer of the data-service `Move` or `FailMove`, and a deletion of objects is
`Destroy`, of files that are gone by `OnlyDeletedNamed`.

`TaskServiceProofs` proves all the safety properties of `TaskService`, for any calls,
files, names, runs and restarts, from `FilesAssumption`, `NameAssumption` and
`BoundAssumption`:

- `Typing` and `Scheduled` (`StoredTaskIsScheduled`), with `StoredInv`: a stored task
  stems from a call past its creation, and no message, report or job is about a
  task that is not stored. Without it a late message could be about anything.
- `Status` (`SettledStatusAgrees`), with `StatusInv`: the last report of a task in the
  queue says what was reported last, the handler has written the first one, and a
  task without reports agrees.
- `Recorded`, `Exposed` and `UploadedOnce` (`UploadIsRecorded`, `ExposedByUpload`,
  `FileUploadedOnce`), with `UploadInv`: a report DONE is about an uploaded task; the
  handler marks the files of the task of the first report, those that are not left
  in `ids` are marked; an uploaded task is marked or reported; and a file outside
  `raced` is held by one call. The search for unexposed files keeps the last, just
  because a finished and applied upload is recorded.
- `Modes` (`SettledModeAgrees`), with `ModeInv`: the last notice of a task has the mode
  acted on; without one, the stored mode and all reports have it.
- `Names` (`NamesDiffer`), with `NamesInv`: while a call is on its way with a name that
  is not contested (`UncontestedIsNew`), no stored task has it and no other call is on
  its way with it. `NamesDiffer` alone says nothing of the calls that are about to store.
- `ReportsImplemented`: `Spec => ReportsAreFollowed`. From `ReportsInv` every step of
  `TaskService` is a step of `ReportedTasks` under the mapping or leaves it unchanged:
  `UpdateStatus` is `Show`, `ExposeFile` is `Mark`, `AckStatus` is `GiveUp`, `StoreTask` is
  `Create`, a run of the data-service is `Begin` and `End`. `ReportsInv` takes up `StatusInv`
  (what is acknowledged was written), `MarksInv` (and its files were marked) and
  `FilesInv` (a task that is no upload has none), and adds that a task is announced once,
  before anybody runs it (`AnnouncedOnce`), so that no second announcement breaks off a
  run; that the task is in a run exactly if that was reported last (`RunIsReported`);
  and that what is not stored has nothing to show (`UnstoredIsNew`).

`ExposedByUpload`, a part of `MarksInv`, is proved and not among the properties of a run
of its own: `ReportsAreFollowed` checks that nothing else marks a file.

`SensorCatalogProofs`, for any calls, requests, keys, types and numbers of sensors,
proves `Typing`; `Writes` (`NoWriteLost`), where `WritesInv` adds that an `_id` nobody can
name has no attributes to account for; `Answers` (`AnswerNamesTheUpdated`), where
`AnswersInv` accounts for every sensor of a call in progress and needs that what could
be named and is gone stays gone; and `Pages` (`RepeatedOnlyByShift`), where `PagesInv` says
that what was read comes before what is skipped, by counting, unless an earlier sensor
has come. The first two rest on `WayInv`: a stored sensor can be named, the documents a
creation has still to save were given their `_id`s, and no two creations save the same
one. `Pages` does without it: nothing is assumed of the order in which sensors appear.
`Misses` (`MissedOnlyByShift`) and `Totals`
(`PageFitsTotal`) rest on `ReadingInv`: what has been in the search all the while and was
not read comes after what is skipped (`UnreadAhead`), and a total differs from what there
is by no more than has come and gone since (`TotalDrifts`). That a page is as full as the
number of sensors allows needs that ranks have no gaps (`RanksFill`): ranks are different
numbers up to the number of sensors found, so by counting they are all of them, without
an induction over the sensors. The proofs use the assumptions on the
constants of `SensorCatalog`, in particular that created sensors have a type.

`AccessProofs` proves, for any accounts, clients, names and restarts, `Typing`,
`AdminCalls` (`AdminCallIsByAdmin`; `AccessInv` adds that the roles in a session that is
not stale are those stored, and that a call past the guards had the roles of its
route) and `DefaultUser` (`DefaultUserIsThere`), from `AccountAssumption`,
`NameAssumption` and `CrashAssumption`.

`UserServiceProofs`, for any finite set of accounts (`AccountAssumption`: a call lists
the ids it deletes) and any calls, names, fields, values and restarts, from `Null` being
none of the credentials (`NullAssumption`), proves `Typing`, for which `DefaultGiven` adds
that the default user has credentials to announce; `Settled` (`SettledUserAgrees`), with
`UserInv`: a call that was not overtaken says what is stored (`UnsentIsCurrent`), and what
is stored of a user outside `lost` and `crossed` is about to be said by such a call or was
said last (`SaidOrFresh`), so that a call that fails after its write, or a message that is
dropped, has to put the user there, and a message published in order may take it out;
and `StayComplete` (`CredentialsStayComplete`), for which an `_id` not given out yet must
have no credentials.

`DataFetchProofs`, for any tasks, sensors, names, numbers of entities and items, and any
number of restarts, proves the safety properties of `DataFetch`. `TypeInv` adds to
`TypeOK` that messages and records hold only ids and paths given out so far. On it rest
`Distinct` (`EntriesDistinct`), with `MessagesDistinct`: the items of a message have
different `dataId`s and every object is reported once, so that two items never rewrite
one entry; `Kept` (`EntriesKept`); `Applied` (`AppliedResultIsRecorded`), with
`CreatedIsReported`: the files of the delivery in progress are those of the items of the
first message; and `Once` (`RecordedOnce`), with `FilesAreNew` and `EntriesAreNew`: of an
object still in the queue there is no document and no entry yet, but of the first message
in progress or one delivered before. `Linked` (`LinkedFileIsOwn`) assumes that the names
within a result differ (`~SharedNames`); the run `shared_names` shows what happens
otherwise. Files are matched by name, and only then is the match the item's own.

`ObjectSyncProofs`, for any sensors, groups and messages, any number of HTTP calls and of
restarts, proves the safety properties of `ObjectSync`. `TypeInv` adds to `TypeOK` that
the handler is at an object, a sensor and a group that the message has (`Placed`). `Grow`
(`GroupsOnlyGrow`) rests on it. For `NoSecond` (`SyncMakesNoSecond`), `AwaitedAreNew`: what
the handler is about to create is not there, unless an HTTP call put it there since the
look-up, or the look-up found it, or the message lists it twice. For `AppliedSynced`
(`AppliedMessageIsSynced`), `SyncedInv` follows the handler through the message: the
objects behind it are synced, what its look-up found is there as it was, the sensors of
the group behind it are collected, the groups in it exist, and the group to update is the
one of the message. Every step takes away only what it enters in `removed` (`Keeps`), so
that all of this stays. The assumptions on the constants of `ObjectSync` are used.

Each invariant was checked by TLC on the small instance before it was proved. There
is one lemma per invariant, one step per action, and the theorems combine them.

Only model-checked: the liveness properties (`ChangeEnds`, `UploadGetsRecorded`,
`UserGetsSynced`, `RevocationTakesEffect`), which are out of the prover's reach. Every
safety property of a passing run is proved.

## 5. Not modelled

Searches other than the one of sensors, and the shaping of what they answer
(read-only, and the paging is the same service); the resolution of nested groups;
dates and periodic patterns of tasks; validation of inputs by pipes and DTOs, of
which the modules take the results; text indexes; wiring, container files and the
vendored CKAN images. The data-service, broker, database and object store are
environment: the broker keeps the order of a queue and redelivers what was not
acknowledged; the data-service handles file and task messages in any order, user
messages in theirs; MongoDB updates a document at once; `_id`s are given out in
increasing order, to documents that are saved in any. But for user messages, the queues
of the data-service are taken to be there.

One thing the code does not guard has no property, since there is none it keeps: a
failure among the updates of groups leaves the earlier ones
(`core/groups/groups.service.ts:135`).

## 6. Plan

Done, in this order: files and proofs about them; tasks, data-fetch results, object
sync, users; sensors with paging, access; the refinement of `LinkedObjects`; proofs
about tasks, data-fetch results, object sync, users, sensors, access and the refinement;
the pages of a search, the names of tasks, and `ReportedTasks` with its refinement by
`TaskService`, with their proofs.

Left: the resolution of nested groups, with groups that change between its queries.
