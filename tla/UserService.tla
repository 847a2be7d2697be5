---------------------------- MODULE UserService ----------------------------
(***************************************************************************)
(* The users: registration (AuthService.register, UsersService.create),    *)
(* update and deletion, the default user made at start-up, and the         *)
(* messages that keep the data-service informed of every user's Cumulocity *)
(* credentials.  Passwords, roles and tokens are left out.                 *)
(*                                                                         *)
(* A call writes to the database, waits for the answer, and then publishes *)
(* what it has written.  The answers come over the sockets of a pool, so   *)
(* that two calls may publish in another order than they have written; and *)
(* a call may fail after the write, when there is nothing to undo it.      *)
(***************************************************************************)
EXTENDS Naturals, Sequences, SequencesExt

CONSTANTS Account,    \* the _ids of users
          Call,       \* HTTP calls that register, update or delete
          Name,       \* user names
          Default,    \* the name of the default user
          Field,      \* the fields of c8yCredentials
          Value,      \* their values
          Null,       \* c8yCredentials given as null
          MaxCrashes  \* bound on restarts of the service

ASSUME AccountAssumption == IsFiniteSet(Account)
ASSUME NameAssumption  == Default \in Name
ASSUME ValueAssumption == Field # {} /\ Value # {}
ASSUME CrashAssumption == MaxCrashes \in Nat

VARIABLES
  used,    \* the _ids given to users so far
  stored,  \* the users in the collection
  name,    \* their names
  creds,   \* their c8yCredentials; nothing is the empty function
  call,    \* the calls in progress
  boot,    \* handleDefaultUser, which is done before calls are taken
  outbox,  \* published messages the connection has not written out
  bound,   \* the data-service has declared its queue
  service, \* the credentials the data-service has for a user, if any
  crashes, \* restarts so far
  lost,    \* history: users about whom the last message was not sent, or lost
  crossed  \* history: users whose messages were published in the wrong order

vars == <<used, stored, name, creds, call, boot, outbox, bound, service, crashes,
          lost, crossed>>

----------------------------------------------------------------------------
\* Credentials with some of the fields, or with all of them.
Partial  == UNION {[fields -> Value] : fields \in SUBSET Field}
Complete == [Field -> Value]

ASSUME NullAssumption == Null \notin Partial

\* What c8yCredentials of a document may be: @IsOptional lets null pass.
Stored == Partial \cup {Null}

\* A message has the credentials of one user; without any, it says deletedAt.
UserMsg == [account : Account, creds : SUBSET Partial]

\* items are the users a call has written, given the credentials it was called
\* with, written those of the document its write has returned; overtaken are the
\* users another call has written after it.
CallState == [pc : {"idle", "written", "deleted", "done"}, items : SUBSET Account,
              given : Stored, written : Stored, overtaken : SUBSET Account]

CallAt(pc) ==
  [pc |-> pc, items |-> {}, given |-> <<>>, written |-> <<>>, overtaken |-> {}]

Unsent(c, u) == call[c].pc \in {"written", "deleted"} /\ u \in call[c].items

\* A message about u is still to be published or handled.
Pending(u) ==
  \/ \E c \in Call : Unsent(c, u)
  \/ boot.pc = "created" /\ u \in boot.items
  \/ \E i \in DOMAIN outbox : outbox[i].account = u

\* The calls, when c has written the users items.
Wrote(c, pc, items, given, written) ==
  [d \in Call |->
     IF d = c
     THEN [pc |-> pc, items |-> items, given |-> given, written |-> written,
           overtaken |-> {}]
     ELSE [call[d] EXCEPT !.overtaken = @ \cup {u \in items \cap stored : Unsent(d, u)}]]

\* The users of call c that no other has written since: what it says of them is
\* what is stored, and makes up for what was lost or crossed before.
Latest(c) == call[c].items \ call[c].overtaken

\* Of the users of call c, those whose latest writer has published already.
Crossing(c) ==
  {u \in call[c].overtaken : \A d \in Call : Unsent(d, u) => u \in call[d].overtaken}

----------------------------------------------------------------------------
(* Documents and messages.  The definitions named ...Wrong are slips a     *)
(* change of the code could make; no action uses them, and a property      *)
(* notices each.                                                           *)

\* Fields that are not given written as well.
nilKeptWrong(old, given) ==
  [f \in Field |-> IF f \in DOMAIN given THEN given[f] ELSE "undefined"]

\* The sub-document replaced.
replacedWrong(old, given) == given

\* updateOne: $set of the paths of the fields that are given.
withCredentials(old, given) ==
  IF old = Null THEN Null
  ELSE [f \in DOMAIN old \cup DOMAIN given |->
          IF f \in DOMAIN given THEN given[f] ELSE old[f]]

\* What the call was given sent in place of what is stored.
givenSentWrong(u, given, written) == [account |-> u, creds |-> {given}]

\* The message about a user: the credentials as they are after the write.
userMessage(u, given, written) == [account |-> u, creds |-> {written}]

\* The users that are still there told apart, and the wrong ones kept.
stillStoredWrong(items) == items \cap stored

\* getDeletedIds: nothing is filtered out, for the ids it compares are objects
\* of different queries.
getDeletedIds(items) == items

----------------------------------------------------------------------------
Init ==
  /\ used = {} /\ stored = {}
  /\ name = [u \in Account |-> Default]
  /\ creds = [u \in Account |-> <<>>]
  /\ call = [c \in Call |-> CallAt("idle")]
  /\ boot = [pc |-> "start", items |-> {}]
  /\ outbox = <<>> /\ bound = FALSE
  /\ service = [u \in Account |-> {}]
  /\ crashes = 0 /\ lost = {} /\ crossed = {}

Taken(n) == \E u \in stored : name[u] = n

\* UsersService.create: the index on username refuses a second user of a name.
create(u, n, given) ==
  /\ u \notin used
  /\ used' = used \cup {u}
  /\ stored' = stored \cup {u}
  /\ name' = [name EXCEPT ![u] = n]
  /\ creds' = [creds EXCEPT ![u] = given]

----------------------------------------------------------------------------
(* handleDefaultUser, before the first call is taken.                      *)

FindDefault ==
  /\ boot.pc = "start"
  /\ boot' = [boot EXCEPT !.pc = IF Taken(Default) THEN "up" ELSE "absent"]
  /\ UNCHANGED <<used, stored, name, creds, call, outbox, bound, service, crashes,
                 lost, crossed>>

\* The configuration gives the default user all credentials.
CreateDefault(u, given) ==
  /\ boot.pc = "absent"
  /\ create(u, Default, given)
  /\ boot' = [pc |-> "created", items |-> {u}]
  /\ UNCHANGED <<call, outbox, bound, service, crashes, lost, crossed>>

SendDefault ==
  /\ boot.pc = "created"
  /\ \E u \in boot.items : outbox' = Append(outbox, userMessage(u, creds[u], creds[u]))
  /\ boot' = [pc |-> "up", items |-> {}]
  /\ UNCHANGED <<used, stored, name, creds, call, bound, service, crashes, lost, crossed>>

----------------------------------------------------------------------------
(* The calls: each writes, and publishes when the write is answered.       *)

\* register: all credentials are given, none, or null; a name that is taken is a 400.
Register(c, u, n, given) ==
  /\ boot.pc = "up" /\ call[c].pc = "idle"
  /\ \/ /\ ~Taken(n)
        /\ create(u, n, given)
        /\ call' = Wrote(c, "written", {u}, given, given)
     \/ /\ Taken(n)
        /\ call' = [call EXCEPT ![c] = CallAt("done")]
        /\ UNCHANGED <<used, stored, name, creds>>
  /\ UNCHANGED <<boot, outbox, bound, service, crashes, lost, crossed>>

\* MongoDB sets no path below null, and refuses the update.
Settable(u, given) == creds[u] # Null \/ given = <<>>

\* updateOne: findOneAndUpdate returns the document as it is afterwards.
Update(c, u, given) ==
  LET written == withCredentials(creds[u], given) IN
  /\ boot.pc = "up" /\ call[c].pc = "idle"
  /\ u \in used
  /\ \/ /\ u \in stored /\ Settable(u, given)
        /\ creds' = [creds EXCEPT ![u] = written]
        /\ call' = Wrote(c, "written", {u}, given, written)
     \/ /\ u \notin stored \/ ~Settable(u, given)
        /\ call' = [call EXCEPT ![c] = CallAt("done")]
        /\ UNCHANGED creds
  /\ UNCHANGED <<used, stored, name, boot, outbox, bound, service, crashes, lost, crossed>>

\* The message of register and of updateOne.
SendUser(c) ==
  /\ call[c].pc = "written" /\ call[c].written # Null
  /\ \E u \in call[c].items :
       outbox' = Append(outbox, userMessage(u, call[c].given, call[c].written))
  /\ lost' = lost \ Latest(c)
  /\ crossed' = (crossed \ Latest(c)) \cup Crossing(c)
  /\ call' = [call EXCEPT ![c] = CallAt("done")]
  /\ UNCHANGED <<used, stored, name, creds, boot, bound, service, crashes>>

\* The call ends in an error: what it has written stays, and nothing is sent.
Fail(c) ==
  /\ lost' = lost \cup Latest(c)
  /\ call' = [call EXCEPT ![c] = CallAt("done")]
  /\ UNCHANGED <<used, stored, name, creds, boot, outbox, bound, service, crashes, crossed>>

\* sendMessage checks the message, and null is no credentials.
FailCheck(c) ==
  /\ call[c].pc = "written" /\ call[c].written = Null
  /\ Fail(c)

\* delete: deleteMany, of users that may be gone already...
Delete(c, items) ==
  /\ boot.pc = "up" /\ call[c].pc = "idle"
  /\ items \subseteq used
  /\ stored' = stored \ items
  /\ call' = Wrote(c, "deleted", items, <<>>, <<>>)
  /\ UNCHANGED <<used, name, creds, boot, outbox, bound, service, crashes, lost, crossed>>

\* ...then a query, and a message for each of its ids, one after the other.
SendDeletions(c) ==
  /\ call[c].pc = "deleted"
  /\ LET ids == SetToSeq(getDeletedIds(call[c].items)) IN
     outbox' = outbox \o [i \in DOMAIN ids |-> [account |-> ids[i], creds |-> {}]]
  /\ lost' = lost \ Latest(c)
  /\ crossed' = (crossed \ Latest(c)) \cup Crossing(c)
  /\ call' = [call EXCEPT ![c] = CallAt("done")]
  /\ UNCHANGED <<used, stored, name, creds, boot, bound, service, crashes>>

\* The query of getDeletedIds fails.
FailDeletions(c) ==
  /\ call[c].pc = "deleted"
  /\ Fail(c)

----------------------------------------------------------------------------
\* The data-service starts for the first time; its queue outlives it.
DeclareQueue ==
  /\ ~bound
  /\ bound' = TRUE
  /\ UNCHANGED <<used, stored, name, creds, call, boot, outbox, service, crashes,
                 lost, crossed>>

\* The connection writes a message out, and the data-service takes what it says.
Synchronise ==
  LET m == Head(outbox) IN
  /\ outbox # <<>> /\ bound
  /\ service' = [service EXCEPT ![m.account] = m.creds]
  /\ outbox' = Tail(outbox)
  /\ UNCHANGED <<used, stored, name, creds, call, boot, bound, crashes, lost, crossed>>

\* An exchange drops a message that no queue is bound for; unless a later one is on
\* its way, nothing makes up for it.
DropMessage ==
  LET u == Head(outbox).account IN
  /\ outbox # <<>> /\ ~bound
  /\ outbox' = Tail(outbox)
  /\ lost' = IF \E i \in 2 .. Len(outbox) : outbox[i].account = u
             THEN lost ELSE lost \cup {u}
  /\ UNCHANGED <<used, stored, name, creds, call, boot, bound, service, crashes, crossed>>

\* A restart loses the calls in progress and the publish buffer.
Crash ==
  /\ crashes < MaxCrashes
  /\ crashes' = crashes + 1
  /\ call' = [c \in Call |-> IF call[c].pc = "idle" THEN call[c] ELSE CallAt("done")]
  /\ boot' = [pc |-> "start", items |-> {}]
  /\ outbox' = <<>>
  /\ lost' = lost \cup {u \in Account : Pending(u)}
  /\ UNCHANGED <<used, stored, name, creds, bound, service, crossed>>

----------------------------------------------------------------------------
Next ==
  \/ FindDefault
  \/ \E u \in Account, given \in Complete : CreateDefault(u, given)
  \/ SendDefault
  \/ \E c \in Call, u \in Account, n \in Name, given \in Complete \cup {<<>>, Null} :
       Register(c, u, n, given)
  \/ \E c \in Call, u \in Account, given \in Partial : Update(c, u, given)
  \/ \E c \in Call : SendUser(c)
  \/ \E c \in Call : FailCheck(c)
  \/ \E c \in Call, items \in (SUBSET Account) \ {{}} : Delete(c, items)
  \/ \E c \in Call : SendDeletions(c)
  \/ \E c \in Call : FailDeletions(c)
  \/ DeclareQueue
  \/ Synchronise
  \/ DropMessage
  \/ Crash

\* The event loop runs a call whose write was answered, and the connection
\* writes out what it buffers, whether or not the data-service ever starts.
Fairness ==
  /\ \A c \in Call : WF_vars(SendUser(c) \/ FailCheck(c)) /\ WF_vars(SendDeletions(c))
  /\ WF_vars(SendDefault)
  /\ WF_vars(Synchronise \/ DropMessage)

Spec == Init /\ [][Next]_vars
FairSpec == Spec /\ Fairness

----------------------------------------------------------------------------
(* Properties.                                                             *)

TypeOK ==
  /\ used \subseteq Account /\ stored \subseteq used
  /\ name \in [Account -> Name]
  /\ creds \in [Account -> Stored]
  /\ call \in [Call -> CallState]
  /\ boot \in [pc : {"start", "absent", "created", "up"}, items : SUBSET Account]
  /\ outbox \in Seq(UserMsg) /\ bound \in BOOLEAN
  /\ service \in [Account -> SUBSET Partial]
  /\ crashes \in 0 .. MaxCrashes
  /\ lost \subseteq Account /\ crossed \subseteq Account

Agrees(u) == service[u] = IF u \in stored THEN {creds[u]} ELSE {}

(* When nothing about a user is outstanding, the data-service has the       *)
(* credentials that are stored, and none of a user who was deleted.  Exempt *)
(* are, until the next message about them that is published in order:       *)
(* - users whose last message was not sent, for a check or query failed     *)
(*   after the write, or was lost in a restart, or came before the          *)
(*   data-service had ever run;                                             *)
(* - users whose calls published in another order than they had written.    *)
SettledUserAgrees ==
  \A u \in used \ (lost \cup crossed) : ~Pending(u) => Agrees(u)

(* Credentials that are complete stay so: an update of some fields keeps    *)
(* the others, although it is not validated against the schema.             *)
CredentialsStayComplete ==
  [][\A u \in Account : creds[u] \in Complete => creds'[u] \in Complete]_vars

(* Every user becomes known with the credentials stored, and every deleted  *)
(* one forgotten, but for the losses and crossings above.  A write that is  *)
(* followed by an error comes under them.                                   *)
UserGetsSynced ==
  \A u \in Account :
    (u \in used) ~> (Agrees(u) \/ u \in lost \cup crossed)
=============================================================================
