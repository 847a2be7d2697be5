---------------------------- MODULE AccessProofs ----------------------------
(***************************************************************************)
(* Theorems about Access, for any users, clients, names and number of      *)
(* restarts.                                                               *)
(***************************************************************************)
EXTENDS Access, TLAPS

----------------------------------------------------------------------------
\* Out names a user, whoever it is.
LEMMA OutTyped == Out \in Session
PROOF BY AccountAssumption DEF Out, Session

LEMMA CreatedRolesTyped ==
  ASSUME NEW input \in RoleInput
  PROVE  createdRoles(input) \subseteq Role
PROOF BY DEF createdRoles, RoleInput, Role

LEMMA UpdatedRolesTyped ==
  ASSUME NEW old \in SUBSET Role, NEW input \in RoleInput
  PROVE  updatedRoles(old, input) \subseteq Role
PROOF BY DEF updatedRoles, RoleInput, Role

(* The variables have their types: users are those whose _id was given out, *)
(* roles are roles, and a session is about a user.                          *)
THEOREM Typing == Spec => []TypeOK
<1>1. Init => TypeOK
  <2> SUFFICES ASSUME Init PROVE TypeOK
    OBVIOUS
  <2>1. dismissed \in BOOLEAN
    BY Zenon DEF Init
  <2>2. session \in [Client -> Session] /\ reply \in [asked : SUBSET Account, got : SUBSET Account]
    BY OutTyped DEF Init, NoReply
  <2>3. crashes \in 0 .. MaxCrashes
    BY CrashAssumption DEF Init
  <2>4. QED
    BY <2>1, <2>2, <2>3, NameAssumption DEF Init, TypeOK
<1>2. TypeOK /\ [Next]_vars => TypeOK'
  <2> SUFFICES ASSUME TypeOK, [Next]_vars PROVE TypeOK'
    OBVIOUS
  <2> USE DEF TypeOK
  <2>1. ASSUME NEW c \in Client PROVE afterExpiry(c) \in Session
    BY OutTyped DEF afterExpiry, Session
  <2>2. CASE FindDefault
    BY <2>2 DEF FindDefault, defaultUserStep
  <2>3. ASSUME NEW u \in Account, CreateDefault(u) PROVE TypeOK'
    <3>1. {Role} \in RoleInput
      BY DEF RoleInput
    <3>2. QED
      BY <2>3, <3>1, CreatedRolesTyped, NameAssumption DEF CreateDefault, create
  <2>4. ASSUME NEW c \in Client, NEW u \in Account, FindUser(c, u) PROVE TypeOK'
    BY <2>4 DEF FindUser, payloadRoles, Session
  <2>5. ASSUME NEW c \in Client, NEW matches \in BOOLEAN, ComparePassword(c, matches)
        PROVE TypeOK'
    BY <2>5, OutTyped DEF ComparePassword, Session
  <2>6. ASSUME NEW c \in Client, Expire(c) PROVE TypeOK'
    BY <2>6, <2>1 DEF Expire
  <2>7. ASSUME NEW c \in Client, NEW route \in Route, PassGuards(c, route) PROVE TypeOK'
    BY <2>7 DEF PassGuards, NoReply
  <2>8. ASSUME NEW c \in Client, EndCall(c)
        PROVE  /\ session' \in [Client -> Session]
               /\ call' \in [Client -> Route \cup {"none"}]
    BY <2>8, OutTyped DEF EndCall
  <2>9. ASSUME NEW c \in Client, AnswerCall(c) PROVE TypeOK'
    <3>1. ASSUME NEW u \in Account, NEW n \in Name, NEW input \in RoleInput,
                 Register(c, u, n, input)
          PROVE  TypeOK'
      BY <3>1, <2>8, CreatedRolesTyped DEF Register, create
    <3>2. ASSUME NEW u \in Account, NEW input \in RoleInput, Update(c, u, input)
          PROVE  TypeOK'
      BY <3>2, <2>8, UpdatedRolesTyped DEF Update, SessionsOf
    <3>3. ASSUME NEW items \in SUBSET Account, Delete(c, items) PROVE TypeOK'
      BY <3>3, <2>8, NameAssumption DEF Delete, SessionsOf
    <3>4. ASSUME NEW u \in Account, GetUser(c, u) PROVE TypeOK'
      BY <3>4, <2>8 DEF GetUser, findOne
    <3>5. CASE EndOther(c)
      BY <3>5, <2>8 DEF EndOther
    <3>6. QED
      BY <2>9, <3>1, <3>2, <3>3, <3>4, <3>5 DEF AnswerCall
  <2>10. CASE Crash
    <3>1. dismissed' \in BOOLEAN
      BY <2>10, Zenon DEF Crash
    <3>2. session' \in [Client -> Session]
      BY <2>10, OutTyped DEF Crash
    <3>3. crashes' \in 0 .. MaxCrashes
      BY <2>10, CrashAssumption DEF Crash
    <3>4. QED
      BY <2>10, <3>1, <3>2, <3>3 DEF Crash
  <2>11. CASE UNCHANGED vars
    BY <2>11 DEF vars
  <2>12. QED
    BY <2>2, <2>3, <2>4, <2>5, <2>6, <2>7, <2>9, <2>10, <2>11 DEF Next
<1>3. QED
  BY <1>1, <1>2, PTL DEF Spec

----------------------------------------------------------------------------
(* What a client that is not stale holds: the roles of a stored user.       *)
SessionIsCurrent ==
  \A c \in Client \ stale :
    session[c].pc # "out" =>
      /\ session[c].user \in stored
      /\ session[c].roles = roles[session[c].user]

(* A call is let pass for a client with a token, on the strength of it.     *)
CallIsPassed ==
  \A c \in Client :
    /\ call[c] # "none" => session[c].pc \in {"in", "expired"}
    /\ call[c] = "admin" => "Admin" \in session[c].roles

AccessInv == SessionIsCurrent /\ CallIsPassed

(* Calls of administrators are by administrators, or by clients whose user  *)
(* has changed or gone since.                                               *)
THEOREM AdminCalls == Spec => []AdminCallIsByAdmin
<1>1. Init => AccessInv
  <2> SUFFICES ASSUME Init PROVE AccessInv
    OBVIOUS
  <2>1. session = [c \in Client |-> Out] /\ call = [c \in Client |-> "none"]
    BY DEF Init
  <2>2. QED
    BY <2>1 DEF AccessInv, SessionIsCurrent, CallIsPassed, Out
<1>2. TypeOK /\ AccessInv /\ [Next]_vars => AccessInv'
  <2> SUFFICES ASSUME TypeOK, AccessInv, [Next]_vars
               PROVE  SessionIsCurrent' /\ CallIsPassed'
    BY DEF AccessInv
  <2> USE DEF AccessInv, TypeOK, SessionIsCurrent, CallIsPassed
  <2>1. CASE FindDefault
    BY <2>1 DEF FindDefault
  <2>2. ASSUME NEW u \in Account, NEW n, NEW input, create(u, n, input),
               UNCHANGED <<session, stale>>
        PROVE  SessionIsCurrent'
    \* The new user is not one a session is about: those are stored.
    <3>1. u \notin stored
      BY <2>2 DEF create
    <3>2. QED
      BY <2>2, <3>1 DEF create
  <2>3. ASSUME NEW u \in Account, CreateDefault(u)
        PROVE  SessionIsCurrent' /\ CallIsPassed'
    BY <2>2, <2>3 DEF CreateDefault
  <2>4. ASSUME NEW c \in Client, NEW u \in Account, FindUser(c, u)
        PROVE  SessionIsCurrent' /\ CallIsPassed'
    BY <2>4 DEF FindUser, payloadRoles
  <2>5. ASSUME NEW c \in Client, NEW matches \in BOOLEAN, ComparePassword(c, matches)
        PROVE  SessionIsCurrent' /\ CallIsPassed'
    BY <2>5 DEF ComparePassword, Session, Out
  <2>6. ASSUME NEW c \in Client, Expire(c) PROVE SessionIsCurrent' /\ CallIsPassed'
    BY <2>6 DEF Expire, afterExpiry, Session, Out
  <2>7. ASSUME NEW c \in Client, NEW route \in Route, PassGuards(c, route)
        PROVE  SessionIsCurrent' /\ CallIsPassed'
    BY <2>7 DEF PassGuards, canActivate, requiredRoles
  <2>8. ASSUME NEW c \in Client, AnswerCall(c) PROVE SessionIsCurrent' /\ CallIsPassed'
    <3>1. ASSUME EndCall(c)
          PROVE  /\ CallIsPassed'
                 /\ \A d \in Client :
                      session'[d].pc # "out" =>
                        session'[d].user = session[d].user /\ session'[d].roles = session[d].roles
                 /\ \A d \in Client : session'[d].pc # "out" => session[d].pc # "out"
      BY <3>1 DEF EndCall, Session, Out
    <3>2. ASSUME EndCall(c), UNCHANGED <<stored, roles, stale>> PROVE SessionIsCurrent'
      BY <3>1, <3>2
    <3>3. ASSUME NEW u \in Account, NEW n \in Name, NEW input \in RoleInput,
                 Register(c, u, n, input)
          PROVE  SessionIsCurrent' /\ CallIsPassed'
      <4>1. u \notin stored
        BY <3>3 DEF Register, create
      <4>2. QED
        BY <3>1, <3>3, <4>1 DEF Register, create
    <3>4. ASSUME NEW u \in Account, NEW input \in RoleInput, Update(c, u, input)
          PROVE  SessionIsCurrent' /\ CallIsPassed'
      <4>1. CASE input = {}
        BY <3>1, <3>4, <4>1 DEF Update, updatedRoles
      <4>2. CASE input # {}
        BY <3>1, <3>4, <4>2 DEF Update, SessionsOf
      <4>3. QED
        BY <4>1, <4>2
    <3>5. ASSUME NEW items \in SUBSET Account, Delete(c, items)
          PROVE  SessionIsCurrent' /\ CallIsPassed'
      BY <3>1, <3>5 DEF Delete, SessionsOf, Session
    <3>6. ASSUME NEW u \in Account, GetUser(c, u) PROVE SessionIsCurrent' /\ CallIsPassed'
      BY <3>1, <3>2, <3>6 DEF GetUser
    <3>7. CASE EndOther(c)
      BY <3>1, <3>2, <3>7 DEF EndOther
    <3>8. QED
      BY <2>8, <3>3, <3>4, <3>5, <3>6, <3>7 DEF AnswerCall
  <2>9. CASE Crash
    BY <2>9 DEF Crash, Out
  <2>10. CASE UNCHANGED vars
    BY <2>10 DEF vars
  <2>11. QED
    BY <2>1, <2>3, <2>4, <2>5, <2>6, <2>7, <2>8, <2>9, <2>10 DEF Next
<1>3. AccessInv => AdminCallIsByAdmin
  BY DEF AccessInv, SessionIsCurrent, CallIsPassed, AdminCallIsByAdmin
<1>4. QED
  BY <1>1, <1>2, <1>3, Typing, PTL DEF Spec

----------------------------------------------------------------------------
(* There is a default user, or it was deleted since the start.              *)
THEOREM DefaultUser == Spec => []DefaultUserIsThere
<1>1. Init => DefaultUserIsThere
  BY DEF Init, DefaultUserIsThere
<1>2. TypeOK /\ DefaultUserIsThere /\ [Next]_vars => DefaultUserIsThere'
  <2> SUFFICES ASSUME TypeOK, DefaultUserIsThere, [Next]_vars PROVE DefaultUserIsThere'
    OBVIOUS
  <2> USE DEF TypeOK, DefaultUserIsThere, Taken
  <2>1. CASE FindDefault
    BY <2>1 DEF FindDefault, defaultUserStep
  <2>2. ASSUME NEW u \in Account, CreateDefault(u) PROVE DefaultUserIsThere'
    BY <2>2 DEF CreateDefault, create
  <2>3. ASSUME UNCHANGED <<stored, name, boot, dismissed>> PROVE DefaultUserIsThere'
    BY <2>3
  <2>4. ASSUME NEW c \in Client, NEW u \in Account, FindUser(c, u) PROVE DefaultUserIsThere'
    BY <2>3, <2>4 DEF FindUser
  <2>5. ASSUME NEW c \in Client, NEW matches \in BOOLEAN, ComparePassword(c, matches)
        PROVE DefaultUserIsThere'
    BY <2>3, <2>5 DEF ComparePassword
  <2>6. ASSUME NEW c \in Client, Expire(c) PROVE DefaultUserIsThere'
    BY <2>3, <2>6 DEF Expire
  <2>7. ASSUME NEW c \in Client, NEW route \in Route, PassGuards(c, route)
        PROVE DefaultUserIsThere'
    BY <2>3, <2>7 DEF PassGuards
  <2>8. ASSUME NEW c \in Client, AnswerCall(c) PROVE DefaultUserIsThere'
    <3>1. ASSUME NEW u \in Account, NEW n \in Name, NEW input \in RoleInput,
                 Register(c, u, n, input)
          PROVE  DefaultUserIsThere'
      BY <3>1 DEF Register, create
    <3>2. ASSUME NEW u \in Account, NEW input \in RoleInput, Update(c, u, input)
          PROVE  DefaultUserIsThere'
      BY <2>3, <3>2 DEF Update
    <3>3. ASSUME NEW items \in SUBSET Account, Delete(c, items) PROVE DefaultUserIsThere'
      BY <3>3 DEF Delete
    <3>4. ASSUME NEW u \in Account, GetUser(c, u) PROVE DefaultUserIsThere'
      BY <2>3, <3>4 DEF GetUser
    <3>5. CASE EndOther(c)
      BY <2>3, <3>5 DEF EndOther
    <3>6. QED
      BY <2>8, <3>1, <3>2, <3>3, <3>4, <3>5 DEF AnswerCall
  <2>9. CASE Crash
    BY <2>9 DEF Crash
  <2>10. CASE UNCHANGED vars
    BY <2>3, <2>10 DEF vars
  <2>11. QED
    BY <2>1, <2>2, <2>4, <2>5, <2>6, <2>7, <2>8, <2>9, <2>10 DEF Next
<1>3. QED
  BY <1>1, <1>2, Typing, PTL DEF Spec
=============================================================================
