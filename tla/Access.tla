------------------------------- MODULE Access -------------------------------
(***************************************************************************)
(* Who may do what: roles of users (UsersService), login and tokens        *)
(* (AuthService, LocalStrategy, JwtStrategy), the guards before a handler  *)
(* (JwtAuthGuard, RolesGuard), and GET /users/:id.                         *)
(*                                                                         *)
(* A token carries the roles its user had when the login read them, and is *)
(* believed until it expires; a handler runs after the guards have let its *)
(* call pass.  Roles may change, and users go, at each of these points.    *)
(***************************************************************************)
EXTENDS Naturals

CONSTANTS Account,   \* the _ids of users
          Client,    \* clients, each with at most one token
          Name,      \* user names
          Default,   \* the name of the default user
          MaxCrashes \* bound on restarts of the service

ASSUME AccountAssumption == Account # {}
ASSUME NameAssumption    == Default \in Name
ASSUME CrashAssumption   == MaxCrashes \in Nat

VARIABLES
  used,     \* the _ids given to users so far
  stored,   \* the users in the collection
  name,     \* their names
  roles,    \* their roles
  session,  \* a client's login and token
  call,     \* its call that the guards let pass, or none
  reply,    \* what the last GET /users/:id has asked for and got
  boot,     \* handleDefaultUser, which is done before calls are taken
  crashes,  \* restarts so far
  stale,    \* history: clients whose user changed roles or went since read
  dismissed \* history: the default user was deleted since the last start

vars == <<used, stored, name, roles, session, call, reply, boot, crashes, stale,
          dismissed>>

----------------------------------------------------------------------------
Role  == {"User", "Admin"}
Route == {"open", "admin"}

\* What a call gives for role: nothing, or one list of roles, none of them twice.
RoleInput == {{}} \cup {{given} : given \in SUBSET Role}

\* loaded: validateUser has read the user and compares passwords.  expired: the
\* token is of no use any more, but a call it has let pass goes on.
Session == [pc : {"out", "loaded", "in", "expired"}, user : Account, roles : SUBSET Role]

\* Nobody knows the client.
Out == [pc |-> "out", user |-> CHOOSE u \in Account : TRUE, roles |-> {}]

NoReply == [asked |-> {}, got |-> {}]

Taken(n) == \E u \in stored : name[u] = n

----------------------------------------------------------------------------
(* The definitions named ...Wrong are slips a change of the code could      *)
(* make; no action uses them, and a property notices each.                  *)

\* Without the default of the schema.
noDefaultWrong(input) == IF input = {} THEN {"undefined"} ELSE UNION input

\* create: User is added to Admin alone; the default of the schema is User.
createdRoles(input) ==
  IF input = {} THEN {"User"} ELSE IF input = {{"Admin"}} THEN Role ELSE UNION input

\* updateOne: User is added to whatever has Admin.
updatedRoles(old, input) ==
  IF input = {} THEN old
  ELSE LET given == UNION input
       IN given \cup IF "Admin" \in given THEN {"User"} ELSE {}

\* The user as login signs it.
payloadRoles(u) == roles[u]

\* A token that is used goes on being valid.
renewedWrong(c) == session[c]

\* JwtStrategy checks exp: ignoreExpiration is false.
afterExpiry(c) == IF call[c] = "none" THEN Out ELSE [session[c] EXCEPT !.pc = "expired"]

\* AdminRoute; a route without a decorator requires no role.
requiredRoles(route) == IF route = "admin" THEN {"Admin"} ELSE {}

\* Any role enough where some are required.
someRoleWrong(route, held) == requiredRoles(route) = {} \/ held # {}

\* RolesGuard.canActivate
canActivate(route, held) == requiredRoles(route) = {} \/ requiredRoles(route) \cap held # {}

\* defaultUser read before: the getter returns it once in the life of a process.
foundWrong == "up"

\* What handleDefaultUser does next.
defaultUserStep == IF Taken(Default) THEN "up" ELSE "absent"

\* findOne({ id }): id is no path of the schema, and mongoose leaves it out of the
\* filter, which then any user matches.
findOne(u) == IF stored = {} THEN {{}} ELSE {{v} : v \in stored}

----------------------------------------------------------------------------
Init ==
  /\ used = {} /\ stored = {}
  /\ name = [u \in Account |-> Default]
  /\ roles = [u \in Account |-> {}]
  /\ session = [c \in Client |-> Out]
  /\ call = [c \in Client |-> "none"]
  /\ reply = NoReply
  /\ boot = "start" /\ crashes = 0
  /\ stale = {} /\ dismissed = FALSE

\* The clients whose session is about one of the users.
SessionsOf(users) == {c \in Client : session[c].pc # "out" /\ session[c].user \in users}

\* UsersService.create: the index on username refuses a second user of a name.
create(u, n, input) ==
  /\ u \notin used
  /\ used' = used \cup {u}
  /\ stored' = stored \cup {u}
  /\ name' = [name EXCEPT ![u] = n]
  /\ roles' = [roles EXCEPT ![u] = createdRoles(input)]

----------------------------------------------------------------------------
(* handleDefaultUser, before the first call is taken.                      *)

FindDefault ==
  /\ boot = "start"
  /\ boot' = defaultUserStep
  /\ UNCHANGED <<used, stored, name, roles, session, call, reply, crashes, stale, dismissed>>

CreateDefault(u) ==
  /\ boot = "absent"
  /\ create(u, Default, {Role})
  /\ boot' = "up"
  /\ UNCHANGED <<session, call, reply, crashes, stale, dismissed>>

----------------------------------------------------------------------------
(* POST /auth/login.                                                       *)

\* validateUser: the user is read by name; none is a 401.
FindUser(c, u) ==
  /\ boot = "up" /\ session[c].pc = "out"
  /\ u \in stored
  /\ session' = [session EXCEPT ![c] = [pc |-> "loaded", user |-> u, roles |-> payloadRoles(u)]]
  /\ stale' = stale \ {c}
  /\ UNCHANGED <<used, stored, name, roles, call, reply, boot, crashes, dismissed>>

\* isPasswordMatch, then login signs the user as it was read; or a 401.
ComparePassword(c, matches) ==
  /\ session[c].pc = "loaded"
  /\ session' = [session EXCEPT ![c] = IF matches THEN [@ EXCEPT !.pc = "in"] ELSE Out]
  /\ UNCHANGED <<used, stored, name, roles, call, reply, boot, crashes, stale, dismissed>>

Expire(c) ==
  /\ session[c].pc = "in"
  /\ session' = [session EXCEPT ![c] = afterExpiry(c)]
  /\ UNCHANGED <<used, stored, name, roles, call, reply, boot, crashes, stale, dismissed>>

----------------------------------------------------------------------------
(* Calls.                                                                  *)

\* JwtAuthGuard and RolesGuard let a call pass; it awaits something then.
PassGuards(c, route) ==
  /\ boot = "up" /\ session[c].pc = "in" /\ call[c] = "none"
  /\ canActivate(route, session[c].roles)
  /\ call' = [call EXCEPT ![c] = route]
  /\ reply' = NoReply
  /\ UNCHANGED <<used, stored, name, roles, session, boot, crashes, stale, dismissed>>

\* The call of c is answered.
EndCall(c) ==
  /\ call' = [call EXCEPT ![c] = "none"]
  /\ session' = [session EXCEPT ![c] = IF @.pc = "expired" THEN Out ELSE @]

\* POST /auth/register
Register(c, u, n, input) ==
  /\ call[c] = "admin" /\ ~Taken(n)
  /\ create(u, n, input)
  /\ EndCall(c)
  /\ UNCHANGED <<reply, boot, crashes, stale, dismissed>>

\* PATCH /users/:id
Update(c, u, input) ==
  /\ call[c] = "admin" /\ u \in stored
  /\ roles' = [roles EXCEPT ![u] = updatedRoles(@, input)]
  /\ stale' = IF input = {} THEN stale ELSE stale \cup SessionsOf({u})
  /\ EndCall(c)
  /\ UNCHANGED <<used, stored, name, reply, boot, crashes, dismissed>>

\* POST /users/delete
Delete(c, items) ==
  /\ call[c] = "admin" /\ items \subseteq used
  /\ stored' = stored \ items
  /\ name' = [u \in Account |-> IF u \in items THEN Default ELSE name[u]]
  /\ roles' = [u \in Account |-> IF u \in items THEN {} ELSE roles[u]]
  /\ stale' = stale \cup SessionsOf(items)
  /\ dismissed' = (dismissed \/ \E u \in items \cap stored : name[u] = Default)
  /\ EndCall(c)
  /\ UNCHANGED <<used, reply, boot, crashes>>

\* GET /users/:id
GetUser(c, u) ==
  /\ call[c] = "open" /\ u \in used
  /\ \E got \in findOne(u) : reply' = [asked |-> {u}, got |-> got]
  /\ EndCall(c)
  /\ UNCHANGED <<used, stored, name, roles, boot, crashes, stale, dismissed>>

\* Any other call, and one that ends with an error: the name taken, the user gone.
EndOther(c) ==
  /\ call[c] # "none"
  /\ EndCall(c)
  /\ UNCHANGED <<used, stored, name, roles, reply, boot, crashes, stale, dismissed>>

----------------------------------------------------------------------------
\* A restart ends logins and calls; tokens stay valid, the secret is configured.
Crash ==
  /\ crashes < MaxCrashes
  /\ crashes' = crashes + 1
  /\ session' = [c \in Client |-> IF session[c].pc = "in" THEN session[c] ELSE Out]
  /\ call' = [c \in Client |-> "none"]
  /\ boot' = "start" /\ dismissed' = FALSE
  /\ UNCHANGED <<used, stored, name, roles, reply, stale>>

AnswerCall(c) ==
  \/ \E u \in Account, n \in Name, input \in RoleInput : Register(c, u, n, input)
  \/ \E u \in Account, input \in RoleInput : Update(c, u, input)
  \/ \E items \in (SUBSET Account) \ {{}} : Delete(c, items)
  \/ \E u \in Account : GetUser(c, u)
  \/ EndOther(c)

Next ==
  \/ FindDefault
  \/ \E u \in Account : CreateDefault(u)
  \/ \E c \in Client, u \in Account : FindUser(c, u)
  \/ \E c \in Client, matches \in BOOLEAN : ComparePassword(c, matches)
  \/ \E c \in Client : Expire(c)
  \/ \E c \in Client, route \in Route : PassGuards(c, route)
  \/ \E c \in Client : AnswerCall(c)
  \/ Crash

\* Passwords get compared and calls answered; time passes, and a token expires.
Fairness ==
  \A c \in Client :
    /\ WF_vars(\E matches \in BOOLEAN : ComparePassword(c, matches))
    /\ WF_vars(AnswerCall(c))
    /\ WF_vars(Expire(c))

Spec == Init /\ [][Next]_vars
FairSpec == Spec /\ Fairness

----------------------------------------------------------------------------
(* Properties.                                                             *)

TypeOK ==
  /\ used \subseteq Account /\ stored \subseteq used
  /\ name \in [Account -> Name]
  /\ roles \in [Account -> SUBSET Role]
  /\ session \in [Client -> Session]
  /\ call \in [Client -> Route \cup {"none"}]
  /\ reply \in [asked : SUBSET Account, got : SUBSET Account]
  /\ boot \in {"start", "absent", "up"}
  /\ crashes \in 0 .. MaxCrashes
  /\ stale \subseteq Client /\ dismissed \in BOOLEAN

(* A call on a route of administrators is in progress only for a user who   *)
(* is stored and an administrator, at every point between the guards and    *)
(* its answer; exempt are only clients whose user was deleted or given      *)
(* other roles after the login had read them.                               *)
AdminCallIsByAdmin ==
  \A c \in Client \ stale :
    call[c] = "admin" => session[c].user \in stored /\ "Admin" \in roles[session[c].user]

(* As long as calls are taken there is a user of the default name, unless   *)
(* one was deleted since the start: also after a restart between the        *)
(* look-up and the creation, or after all users were deleted before.        *)
DefaultUserIsThere == boot = "up" => Taken(Default) \/ dismissed

\* A client may still do what its user may not.
Outdated(c) ==
  /\ session[c].pc # "out"
  /\ session[c].user \notin stored \/ ~(session[c].roles \subseteq roles[session[c].user])

(* A role that is taken from a user, or the user deleted, takes effect in   *)
(* the end: his tokens expire, and calls let pass before are answered.      *)
RevocationTakesEffect == \A c \in Client : Outdated(c) ~> ~Outdated(c)

(* "Get one user": what is answered is the user that was asked for.         *)
UserGetIsOwn == reply.got \subseteq reply.asked
=============================================================================
