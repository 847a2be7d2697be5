------------------------- MODULE UserServiceProofs -------------------------
(***************************************************************************)
(* Theorems about UserService, for any finite set of accounts and any      *)
(* calls, names, credentials and restarts.                                 *)
(***************************************************************************)
EXTENDS UserService, SequenceTheorems, FunctionTheorems, FiniteSetTheorems, TLAPS

----------------------------------------------------------------------------
(* Types of what the operators return.                                     *)

\* A list of the elements of a set has each of them.
LEMMA SetListed ==
  ASSUME NEW S, IsFiniteSet(S)
  PROVE  /\ SetToSeq(S) \in Seq(S)
         /\ \A x \in S : \E i \in DOMAIN SetToSeq(S) : SetToSeq(S)[i] = x
<1> DEFINE n == Cardinality(S)
           list == SetToSeq(S)
<1>1. n \in Nat /\ ExistsBijection(1 .. n, S)
  BY FS_CardinalityType
<1>2. \E f \in [1 .. n -> S] : IsInjective(f)
  BY <1>1 DEF ExistsBijection, Bijection, Injection, IsInjective
<1>3. list \in [1 .. n -> S] /\ IsInjective(list)
  BY <1>2 DEF SetToSeq
<1> HIDE DEF list
<1>4. list \in Injection(1 .. n, S)
  BY <1>3 DEF Injection
<1>5. Cardinality(1 .. n) = n
  BY <1>1, FS_Interval
<1>6. list \in Surjection(1 .. n, S)
  BY <1>4, <1>5, FS_Injection
<1>7. \A x \in S : \E i \in 1 .. n : list[i] = x
  BY <1>6 DEF Surjection
<1>8. list \in Seq(S) /\ DOMAIN list = 1 .. n
  BY <1>1, <1>3
<1> QED  BY <1>7, <1>8 DEF list

\* Credentials of no, of some and of all fields.
LEMMA PartialTypes ==
  /\ <<>> \in Partial /\ Complete \subseteq Partial
  /\ Partial \subseteq Stored /\ Null \in Stored /\ Null \notin Partial
  /\ \A old \in Stored, given \in Partial : withCredentials(old, given) \in Stored
<1>1. <<>> \in [{} -> Value]
  OBVIOUS
<1>2. \A d \in Partial : DOMAIN d \in SUBSET Field /\ \A f \in DOMAIN d : d[f] \in Value
  BY DEF Partial
<1>3. ASSUME NEW old \in Stored, NEW given \in Partial
      PROVE  withCredentials(old, given) \in Stored
  <2>1. CASE old = Null
    BY <2>1 DEF withCredentials, Stored
  <2>2. CASE old # Null
    <3> DEFINE both == [f \in DOMAIN old \cup DOMAIN given |->
                          IF f \in DOMAIN given THEN given[f] ELSE old[f]]
    <3>1. old \in Partial /\ DOMAIN old \cup DOMAIN given \in SUBSET Field
      BY <1>2, <2>2 DEF Stored
    <3>2. both \in [DOMAIN old \cup DOMAIN given -> Value]
      BY <1>2, <3>1
    <3>3. both \in Partial
      BY <3>1, <3>2 DEF Partial
    <3> QED  BY <2>2, <3>3 DEF withCredentials, Stored
  <2> QED  BY <2>1, <2>2
<1>4. Complete \subseteq Partial
  BY DEF Complete, Partial
<1>5. <<>> \in Partial
  BY <1>1 DEF Partial
<1> QED  BY <1>3, <1>4, <1>5, NullAssumption DEF Stored

\* A call that is not under way.
LEMMA CallTypes == \A pc \in {"idle", "done"} : CallAt(pc) \in CallState
BY PartialTypes DEF CallAt, CallState

\* The calls after one has written.
LEMMA WroteTypes ==
  ASSUME TypeOK, NEW c \in Call, NEW pc \in {"written", "deleted"},
         NEW items \in SUBSET Account, NEW given \in Stored, NEW written \in Stored
  PROVE  Wrote(c, pc, items, given, written) \in [Call -> CallState]
<1>1. call \in [Call -> CallState]
  BY DEF TypeOK
<1>2. [pc |-> pc, items |-> items, given |-> given, written |-> written,
       overtaken |-> {}] \in CallState
  BY DEF CallState
<1>3. ASSUME NEW d \in Call, NEW S \in SUBSET Account
      PROVE  [call[d] EXCEPT !.overtaken = call[d].overtaken \cup S] \in CallState
  BY <1>1 DEF CallState
<1>4. \A d \in Call : {u \in items \cap stored : Unsent(d, u)} \in SUBSET Account
  OBVIOUS
<1> QED  BY <1>1, <1>2, <1>3, <1>4 DEF Wrote

\* The messages of a call about each of its users.
LEMMA DeletionTypes ==
  ASSUME NEW items \in SUBSET Account
  PROVE  LET ids == SetToSeq(getDeletedIds(items))
             messages == [i \in DOMAIN ids |-> [account |-> ids[i], creds |-> {}]]
         IN  /\ messages \in Seq(UserMsg)
             /\ \A i \in DOMAIN messages :
                  messages[i].account \in items /\ messages[i].creds = {}
             /\ \A u \in items : \E i \in DOMAIN messages : messages[i].account = u
<1> DEFINE ids == SetToSeq(getDeletedIds(items))
           messages == [i \in DOMAIN ids |-> [account |-> ids[i], creds |-> {}]]
<1>1. IsFiniteSet(items)
  BY AccountAssumption, FS_Subset
<1>2. ids \in Seq(items) /\ \A u \in items : \E i \in DOMAIN ids : ids[i] = u
  BY <1>1, SetListed DEF getDeletedIds
<1> HIDE DEF ids
<1>3. Len(ids) \in Nat /\ DOMAIN ids = 1 .. Len(ids) /\ \A i \in DOMAIN ids : ids[i] \in items
  BY <1>2
<1>4. \A i \in DOMAIN ids : [account |-> ids[i], creds |-> {}] \in UserMsg
  BY <1>3 DEF UserMsg
<1>5. messages \in Seq(UserMsg) /\ DOMAIN messages = DOMAIN ids
  BY <1>3, <1>4
<1>6. \A i \in DOMAIN ids : messages[i].account = ids[i] /\ messages[i].creds = {}
  OBVIOUS
<1> QED  BY <1>2, <1>3, <1>5, <1>6 DEF ids

\* The initial states are typed.
LEMMA TypeInit == Init => TypeOK
<1> SUFFICES ASSUME Init PROVE TypeOK  OBVIOUS
<1>1. name \in [Account -> Name] /\ creds \in [Account -> Stored]
  BY NameAssumption, PartialTypes DEF Init
<1>2. call \in [Call -> CallState]
  BY CallTypes DEF Init
<1>3. boot \in [pc : {"start", "absent", "created", "up"}, items : SUBSET Account]
  BY DEF Init
<1>4. outbox \in Seq(UserMsg) /\ service \in [Account -> SUBSET Partial]
  BY DEF Init
<1>5. crashes \in 0 .. MaxCrashes
  BY CrashAssumption DEF Init
<1>6. used = {} /\ stored = {} /\ bound = FALSE /\ lost = {} /\ crossed = {}
  BY DEF Init
<1> QED  BY <1>1, <1>2, <1>3, <1>4, <1>5, <1>6 DEF TypeOK

\* The configuration gives the default user credentials.
DefaultGiven == boot.pc = "created" => \A u \in boot.items : creds[u] # Null

LEMMA GivenStep == TypeOK /\ DefaultGiven /\ [Next]_vars => DefaultGiven'
<1> SUFFICES ASSUME TypeOK, DefaultGiven, [Next]_vars PROVE DefaultGiven'  OBVIOUS
<1>1. ASSUME NEW u \in Account, NEW given \in Complete, CreateDefault(u, given)
      PROVE  DefaultGiven'
  <2>1. boot'.items = {u} /\ creds' = [creds EXCEPT ![u] = given] /\ given # Null
    BY <1>1, PartialTypes DEF CreateDefault, create
  <2> QED  BY <2>1 DEF TypeOK, DefaultGiven
<1>2. CASE boot'.pc # "created"
  BY <1>2 DEF DefaultGiven
<1>3. CASE UNCHANGED <<boot, creds>>
  BY <1>3 DEF DefaultGiven
<1>4. FindDefault \/ SendDefault \/ Crash => boot'.pc # "created"
  BY DEF FindDefault, SendDefault, Crash, TypeOK
<1>5. \A c \in Call, u \in Account, n \in Name, given \in Complete \cup {<<>>, Null} :
        Register(c, u, n, given) => boot'.pc # "created"
  BY DEF Register
<1>6. \A c \in Call, u \in Account, given \in Partial :
        Update(c, u, given) => boot'.pc # "created"
  BY DEF Update
<1> QED
  BY <1>1, <1>2, <1>3, <1>4, <1>5, <1>6
  DEF Next, vars, SendUser, FailCheck, Fail, Delete, SendDeletions, FailDeletions,
      DeclareQueue, Synchronise, DropMessage

\* Every action, and stuttering, keeps the types.
LEMMA TypeStep == TypeOK /\ DefaultGiven /\ [Next]_vars => TypeOK'
<1> SUFFICES ASSUME TypeOK, DefaultGiven, [Next]_vars PROVE TypeOK'  OBVIOUS
<1>1. /\ used \subseteq Account /\ stored \subseteq used
      /\ name \in [Account -> Name] /\ creds \in [Account -> Stored]
      /\ call \in [Call -> CallState] /\ outbox \in Seq(UserMsg) /\ bound \in BOOLEAN
      /\ boot \in [pc : {"start", "absent", "created", "up"}, items : SUBSET Account]
      /\ service \in [Account -> SUBSET Partial] /\ crashes \in 0 .. MaxCrashes
      /\ lost \subseteq Account /\ crossed \subseteq Account
  BY DEF TypeOK
<1>2. ASSUME NEW u \in Account, NEW n \in Name, NEW given \in Stored, create(u, n, given)
      PROVE  /\ used' \subseteq Account /\ stored' \subseteq used'
             /\ name' \in [Account -> Name] /\ creds' \in [Account -> Stored]
  BY <1>1, <1>2 DEF create
<1>3. CASE FindDefault
  <2>1. boot' \in [pc : {"start", "absent", "created", "up"}, items : SUBSET Account]
    BY <1>1, <1>3 DEF FindDefault
  <2> QED  BY <1>1, <1>3, <2>1 DEF FindDefault, TypeOK
<1>4. ASSUME NEW u \in Account, NEW given \in Complete, CreateDefault(u, given)
      PROVE  TypeOK'
  <2>1. create(u, Default, given) /\ given \in Stored /\ Default \in Name
    BY <1>4, PartialTypes, NameAssumption DEF CreateDefault
  <2>2. boot' \in [pc : {"start", "absent", "created", "up"}, items : SUBSET Account]
    BY <1>4 DEF CreateDefault
  <2> QED  BY <1>1, <1>2, <1>4, <2>1, <2>2 DEF CreateDefault, TypeOK
<1>5. ASSUME NEW u \in Account, NEW given \in Partial, NEW written \in Partial
      PROVE  userMessage(u, given, written) \in UserMsg
  BY DEF userMessage, UserMsg
<1>6. CASE SendDefault
  <2>1. outbox' \in Seq(UserMsg)
    <3>1. PICK u \in boot.items : outbox' = Append(outbox, userMessage(u, creds[u], creds[u]))
      BY <1>6 DEF SendDefault
    <3>2. u \in Account /\ creds[u] \in Partial
      BY <1>1, <1>6 DEF SendDefault, DefaultGiven, Stored
    <3>3. userMessage(u, creds[u], creds[u]) \in UserMsg
      BY <1>5, <3>2
    <3> QED  BY <1>1, <3>1, <3>3, AppendProperties
  <2>2. boot' \in [pc : {"start", "absent", "created", "up"}, items : SUBSET Account]
    BY <1>6 DEF SendDefault
  <2> QED  BY <1>1, <1>6, <2>1, <2>2 DEF SendDefault, TypeOK
<1>7. ASSUME NEW c \in Call, NEW u \in Account, NEW n \in Name,
             NEW given \in Complete \cup {<<>>, Null}, Register(c, u, n, given)
      PROVE  TypeOK'
  <2>1. given \in Stored
    BY PartialTypes
  <2>2. CASE create(u, n, given) /\ call' = Wrote(c, "written", {u}, given, given)
    <3>1. call' \in [Call -> CallState]
      BY <2>1, <2>2, WroteTypes
    <3> QED  BY <1>1, <1>2, <1>7, <2>1, <2>2, <3>1 DEF Register, TypeOK
  <2>3. CASE /\ call' = [call EXCEPT ![c] = CallAt("done")]
             /\ UNCHANGED <<used, stored, name, creds>>
    <3>1. call' \in [Call -> CallState]
      BY <1>1, <2>3, CallTypes
    <3> QED  BY <1>1, <1>7, <2>3, <3>1 DEF Register, TypeOK
  <2> QED  BY <1>7, <2>2, <2>3 DEF Register
<1>8. ASSUME NEW c \in Call, NEW u \in Account, NEW given \in Partial, Update(c, u, given)
      PROVE  TypeOK'
  <2> DEFINE written == withCredentials(creds[u], given)
  <2>1. written \in Stored /\ given \in Stored
    BY <1>1, PartialTypes
  <2>2. \/ /\ creds' = [creds EXCEPT ![u] = written]
           /\ call' = Wrote(c, "written", {u}, given, written)
        \/ /\ call' = [call EXCEPT ![c] = CallAt("done")]
           /\ UNCHANGED creds
    BY <1>8 DEF Update
  <2> HIDE DEF written
  <2>3. creds' \in [Account -> Stored] /\ call' \in [Call -> CallState]
    <3>1. Wrote(c, "written", {u}, given, written) \in [Call -> CallState]
      BY <2>1, WroteTypes
    <3>2. [call EXCEPT ![c] = CallAt("done")] \in [Call -> CallState]
      BY <1>1, CallTypes
    <3> QED  BY <1>1, <2>1, <2>2, <3>1, <3>2
  <2> QED  BY <1>1, <1>8, <2>3 DEF Update, TypeOK
<1>9. ASSUME NEW c \in Call, SendUser(c) PROVE TypeOK'
  <2>1. outbox' \in Seq(UserMsg)
    <3>1. call[c] \in CallState
      BY <1>1
    <3>2. PICK u \in call[c].items :
            outbox' = Append(outbox, userMessage(u, call[c].given, call[c].written))
      BY <1>9 DEF SendUser
    <3>3. call[c].written \in Partial /\ u \in Account
      BY <1>9, <3>1 DEF SendUser, CallState, Stored
    <3>4. userMessage(u, call[c].given, call[c].written) \in UserMsg
      BY <3>3 DEF userMessage, UserMsg
    <3> QED  BY <1>1, <3>2, <3>4, AppendProperties
  <2>2. call' \in [Call -> CallState]
    BY <1>1, <1>9, CallTypes DEF SendUser
  <2>3. crossed' \subseteq Account /\ lost' \subseteq Account
    BY <1>1, <1>9 DEF SendUser, Crossing, CallState
  <2> QED  BY <1>1, <1>9, <2>1, <2>2, <2>3 DEF SendUser, TypeOK
<1>10. ASSUME NEW c \in Call, NEW items \in (SUBSET Account) \ {{}}, Delete(c, items)
       PROVE  TypeOK'
  <2>1. call' \in [Call -> CallState]
    BY <1>10, WroteTypes, PartialTypes DEF Delete
  <2> QED  BY <1>1, <1>10, <2>1 DEF Delete, TypeOK
<1>11. ASSUME NEW c \in Call, SendDeletions(c) PROVE TypeOK'
  <2>1. outbox' \in Seq(UserMsg)
    <3>1. call[c].items \in SUBSET Account
      BY <1>1 DEF CallState
    <3> QED  BY <1>1, <1>11, <3>1, DeletionTypes, ConcatProperties DEF SendDeletions
  <2>2. call' \in [Call -> CallState]
    BY <1>1, <1>11, CallTypes DEF SendDeletions
  <2>3. crossed' \subseteq Account /\ lost' \subseteq Account
    BY <1>1, <1>11 DEF SendDeletions, Crossing, CallState
  <2> QED  BY <1>1, <1>11, <2>1, <2>2, <2>3 DEF SendDeletions, TypeOK
<1>12. CASE Synchronise
  <2>1. Head(outbox) \in UserMsg /\ Tail(outbox) \in Seq(UserMsg)
    BY <1>1, <1>12, HeadTailProperties DEF Synchronise
  <2>2. service' \in [Account -> SUBSET Partial]
    BY <1>1, <1>12, <2>1 DEF Synchronise, UserMsg
  <2> QED  BY <1>1, <1>12, <2>1, <2>2 DEF Synchronise, TypeOK
<1>13. CASE Crash
  <2>1. call' \in [Call -> CallState]
    BY <1>1, <1>13, CallTypes DEF Crash
  <2>2. boot' \in [pc : {"start", "absent", "created", "up"}, items : SUBSET Account]
    BY <1>13 DEF Crash
  <2>3. crashes' \in 0 .. MaxCrashes /\ outbox' \in Seq(UserMsg) /\ lost' \subseteq Account
    BY <1>1, <1>13, CrashAssumption DEF Crash
  <2> QED  BY <1>1, <1>13, <2>1, <2>2, <2>3 DEF Crash, TypeOK
<1>14. ASSUME NEW c \in Call, Fail(c) PROVE TypeOK'
  <2>1. call' \in [Call -> CallState]
    BY <1>1, <1>14, CallTypes DEF Fail
  <2>2. lost' \subseteq Account
    BY <1>1, <1>14 DEF Fail, Latest, CallState
  <2> QED  BY <1>1, <1>14, <2>1, <2>2 DEF Fail, TypeOK
<1>15. CASE DeclareQueue
  BY <1>1, <1>15 DEF DeclareQueue, TypeOK
<1>16. CASE DropMessage
  <2>1. Head(outbox) \in UserMsg /\ Tail(outbox) \in Seq(UserMsg)
    BY <1>1, <1>16, HeadTailProperties DEF DropMessage
  <2>2. lost' \subseteq Account
    BY <1>1, <1>16, <2>1 DEF DropMessage, UserMsg
  <2> QED  BY <1>1, <1>16, <2>1, <2>2 DEF DropMessage, TypeOK
<1>17. CASE UNCHANGED vars
  BY <1>1, <1>17 DEF vars, TypeOK
<1> QED
  BY <1>3, <1>4, <1>6, <1>7, <1>8, <1>9, <1>10, <1>11, <1>12, <1>13, <1>14, <1>15, <1>16,
     <1>17
  DEF Next, FailCheck, FailDeletions

(* Every variable has the type written down for it.                         *)
THEOREM Typing == Spec => []TypeOK
<1>1. Init => DefaultGiven
  BY DEF Init, DefaultGiven
<1> QED  BY <1>1, TypeInit, TypeStep, GivenStep, PTL DEF Spec

\* The default user always has credentials while it is to be announced.
LEMMA Given == Spec => []DefaultGiven
<1>1. Init => DefaultGiven
  BY DEF Init, DefaultGiven
<1> QED  BY <1>1, Typing, GivenStep, PTL DEF Spec

----------------------------------------------------------------------------
(* What holds of calls and messages in between.                            *)

\* What the data-service should have for a user.
Current(u) == IF u \in stored THEN {creds[u]} ELSE {}

\* What call c is about to say of its users.
Content(c) == IF call[c].pc = "written" THEN {call[c].written} ELSE {}

\* A call that no other has overtaken is about to speak of u.
Fresh(u) ==
  \/ \E c \in Call : Unsent(c, u) /\ u \notin call[c].overtaken
  \/ boot.pc = "created" /\ u \in boot.items

\* Of the messages queue, and the credentials known before them, the last about u
\* says latest.
SaysLast(queue, known, u, latest) ==
  \/ known = latest /\ \A i \in DOMAIN queue : queue[i].account # u
  \/ \E i \in DOMAIN queue :
       /\ queue[i].account = u
       /\ \A j \in DOMAIN queue : j >= i /\ queue[j].account = u => queue[j].creds = latest

\* Calls are about users there have been, and one that has saved about one user.
CallsOfUsers ==
  \A c \in Call :
    /\ call[c].pc \in {"written", "deleted"} => call[c].items \subseteq used
    /\ call[c].pc = "written" => \E u \in Account : call[c].items = {u}

\* The default user is stored until handleDefaultUser has published it.
BootOfDefault ==
  boot.pc = "created" => \E u \in stored : boot.items = {u}

\* A call that was not overtaken says what is stored.
UnsentIsCurrent ==
  \A c \in Call, u \in Account :
    Unsent(c, u) /\ u \notin call[c].overtaken => Content(c) = Current(u)

\* What is stored of a user is about to be said, or it was said last.
SaidOrFresh ==
  \A u \in used \ (lost \cup crossed) :
    Fresh(u) \/ SaysLast(outbox, service[u], u, Current(u))

UserInv == CallsOfUsers /\ BootOfDefault /\ UnsentIsCurrent /\ SaidOrFresh

\* What is said at the end of a queue, and what is said when its head is handled.
LEMMA SaidAtTheEnd ==
  ASSUME NEW queue \in Seq(UserMsg), NEW more \in Seq(UserMsg),
         NEW known, NEW u, NEW latest
  PROVE  /\ /\ \E k \in DOMAIN more : more[k].account = u
            /\ \A k \in DOMAIN more : more[k].account = u => more[k].creds = latest
            => SaysLast(queue \o more, known, u, latest)
         /\ /\ \A k \in DOMAIN more : more[k].account # u
            /\ SaysLast(queue, known, u, latest)
            => SaysLast(queue \o more, known, u, latest)
<1> DEFINE both == queue \o more
<1>1. /\ Len(queue) \in Nat /\ Len(more) \in Nat /\ Len(both) = Len(queue) + Len(more)
      /\ DOMAIN queue = 1 .. Len(queue) /\ DOMAIN more = 1 .. Len(more)
      /\ DOMAIN both = 1 .. Len(both)
  OBVIOUS
<1>2. \A i \in DOMAIN queue : i \in DOMAIN both /\ both[i] = queue[i]
  BY <1>1
<1>3. \A k \in DOMAIN more :
        Len(queue) + k \in DOMAIN both /\ both[Len(queue) + k] = more[k]
  BY <1>1
<1>4. \A j \in DOMAIN both : j \in DOMAIN queue
                             \/ \E k \in DOMAIN more : j = Len(queue) + k
  <2> SUFFICES ASSUME NEW j \in DOMAIN both, j \notin DOMAIN queue
               PROVE  j - Len(queue) \in DOMAIN more /\ j = Len(queue) + (j - Len(queue))
    OBVIOUS
  <2> QED  BY <1>1
<1> HIDE DEF both
<1>5. ASSUME NEW k \in DOMAIN more, more[k].account = u,
             \A l \in DOMAIN more : more[l].account = u => more[l].creds = latest
      PROVE  SaysLast(both, known, u, latest)
  <2>1. \A j \in DOMAIN both : j >= Len(queue) + k /\ both[j].account = u
                               => both[j].creds = latest
    BY <1>1, <1>3, <1>4, <1>5
  <2> QED  BY <1>3, <1>5, <2>1 DEF SaysLast
<1>6. ASSUME \A k \in DOMAIN more : more[k].account # u, SaysLast(queue, known, u, latest)
      PROVE  SaysLast(both, known, u, latest)
  <2>1. CASE known = latest /\ \A i \in DOMAIN queue : queue[i].account # u
    <3>1. \A j \in DOMAIN both : both[j].account # u
      BY <1>2, <1>3, <1>4, <1>6, <2>1
    <3> QED  BY <2>1, <3>1 DEF SaysLast
  <2>2. ASSUME NEW i \in DOMAIN queue, queue[i].account = u,
               \A j \in DOMAIN queue : j >= i /\ queue[j].account = u
                                       => queue[j].creds = latest
        PROVE  SaysLast(both, known, u, latest)
    <3>1. \A j \in DOMAIN both : j >= i /\ both[j].account = u => both[j].creds = latest
      BY <1>2, <1>3, <1>4, <1>6, <2>2
    <3> QED  BY <1>2, <2>2, <3>1 DEF SaysLast
  <2> QED  BY <1>6, <2>1, <2>2 DEF SaysLast
<1> QED  BY <1>5, <1>6 DEF both

LEMMA SaidWhenHandled ==
  ASSUME NEW queue \in Seq(UserMsg), queue # <<>>, NEW known, NEW u, NEW latest,
         SaysLast(queue, known, u, latest)
  PROVE  SaysLast(Tail(queue),
                  IF Head(queue).account = u THEN Head(queue).creds ELSE known, u, latest)
<1> DEFINE rest == Tail(queue)
           now == IF Head(queue).account = u THEN Head(queue).creds ELSE known
<1>1. /\ Len(queue) \in Nat \ {0} /\ DOMAIN queue = 1 .. Len(queue)
      /\ Head(queue) = queue[1] /\ DOMAIN rest = 1 .. (Len(queue) - 1)
      /\ \A j \in DOMAIN rest : rest[j] = queue[j + 1]
  OBVIOUS
<1> HIDE DEF rest
<1>2. \A j \in DOMAIN rest : j + 1 \in DOMAIN queue
  BY <1>1
<1>3. CASE known = latest /\ \A i \in DOMAIN queue : queue[i].account # u
  <2>1. Head(queue).account # u /\ \A j \in DOMAIN rest : rest[j].account # u
    BY <1>1, <1>2, <1>3
  <2> QED  BY <1>3, <2>1 DEF SaysLast, rest
<1>4. ASSUME NEW i \in DOMAIN queue, queue[i].account = u,
             \A j \in DOMAIN queue : j >= i /\ queue[j].account = u
                                     => queue[j].creds = latest
      PROVE  SaysLast(rest, now, u, latest)
  <2>1. CASE i # 1
    <3>1. i - 1 \in DOMAIN rest /\ rest[i - 1].account = u
      BY <1>1, <1>4, <2>1
    <3>2. \A j \in DOMAIN rest : j >= i - 1 /\ rest[j].account = u
                                 => rest[j].creds = latest
      BY <1>1, <1>2, <1>4
    <3> QED  BY <3>1, <3>2 DEF SaysLast
  <2>2. CASE i = 1
    <3>1. \A j \in DOMAIN rest : rest[j].account = u => rest[j].creds = latest
      BY <1>1, <1>2, <1>4, <2>2
    <3>2. now = latest
      BY <1>1, <1>4, <2>2
    <3> QED  BY <3>1, <3>2 DEF SaysLast
  <2> QED  BY <2>1, <2>2
<1> QED  BY <1>3, <1>4 DEF SaysLast, rest

\* A message that is dropped was not the last about its user.
LEMMA SaidWhenDropped ==
  ASSUME NEW queue \in Seq(UserMsg), queue # <<>>, NEW known, NEW u, NEW latest,
         SaysLast(queue, known, u, latest),
         Head(queue).account = u => \E k \in 2 .. Len(queue) : queue[k].account = u
  PROVE  SaysLast(Tail(queue), known, u, latest)
<1> DEFINE rest == Tail(queue)
<1>1. /\ Len(queue) \in Nat \ {0} /\ DOMAIN queue = 1 .. Len(queue)
      /\ Head(queue) = queue[1] /\ DOMAIN rest = 1 .. (Len(queue) - 1)
      /\ \A j \in DOMAIN rest : rest[j] = queue[j + 1] /\ j + 1 \in DOMAIN queue
  OBVIOUS
<1> HIDE DEF rest
<1>2. CASE known = latest /\ \A i \in DOMAIN queue : queue[i].account # u
  BY <1>1, <1>2 DEF SaysLast, rest
<1>3. ASSUME NEW i \in DOMAIN queue, queue[i].account = u,
             \A j \in DOMAIN queue : j >= i /\ queue[j].account = u
                                     => queue[j].creds = latest
      PROVE  SaysLast(rest, known, u, latest)
  <2>1. PICK k \in DOMAIN queue : k >= 2 /\ k >= i /\ queue[k].account = u
    <3>1. CASE i = 1
      BY <1>1, <1>3, <3>1
    <3>2. CASE i # 1
      BY <1>1, <1>3, <3>2
    <3> QED  BY <3>1, <3>2
  <2>2. k - 1 \in DOMAIN rest /\ rest[k - 1].account = u
    BY <1>1, <2>1
  <2>3. \A j \in DOMAIN rest : j >= k - 1 /\ rest[j].account = u => rest[j].creds = latest
    BY <1>1, <1>3, <2>1
  <2> QED  BY <2>2, <2>3 DEF SaysLast
<1> QED  BY <1>2, <1>3 DEF SaysLast, rest

\* A call writes: what it has written of its users is what is stored.
LEMMA WriteStep ==
  ASSUME TypeOK, UserInv, NEW c \in Call, NEW pc \in {"written", "deleted"},
         NEW items \in SUBSET Account, NEW given, NEW written,
         call[c].pc = "idle", call' = Wrote(c, pc, items, given, written),
         boot.pc = "up", UNCHANGED <<boot, outbox, service, lost, crossed>>,
         used' = used \cup items, pc = "written" => \E u \in Account : items = {u},
         \A u \in items : Current(u)' = IF pc = "written" THEN {written} ELSE {},
         \A u \in Account \ items : Current(u)' = Current(u),
         \A u \in items \ stored : u \in used => Current(u)' = Current(u)
  PROVE  UserInv'
<1>1. call \in [Call -> CallState] /\ used \subseteq Account
  BY DEF TypeOK
<1>2. /\ call'[c].pc = pc /\ call'[c].items = items /\ call'[c].overtaken = {}
      /\ call'[c].written = written
  BY DEF Wrote
<1>3. ASSUME NEW d \in Call \ {c}
      PROVE  /\ call'[d].pc = call[d].pc /\ call'[d].items = call[d].items
             /\ call'[d].written = call[d].written
             /\ call'[d].overtaken =
                  call[d].overtaken \cup {u \in items \cap stored : Unsent(d, u)}
  <2>1. call'[d] = [call[d] EXCEPT !.overtaken =
                      call[d].overtaken \cup {u \in items \cap stored : Unsent(d, u)}]
    BY DEF Wrote
  <2> QED  BY <1>1, <2>1 DEF CallState
<1>4. CallsOfUsers'
  BY <1>2, <1>3 DEF UserInv, CallsOfUsers
<1>5. BootOfDefault'
  BY DEF BootOfDefault
<1>6. ASSUME NEW d \in Call, NEW u \in Account, Unsent(d, u)', u \notin call'[d].overtaken
      PROVE  Content(d)' = Current(u)'
  <2>1. CASE d = c
    <3>1. u \in items
      BY <1>2, <1>6, <2>1 DEF Unsent
    <3> QED  BY <1>2, <2>1, <3>1 DEF Content
  <2>2. CASE d # c
    <3>1. Unsent(d, u) /\ u \notin call[d].overtaken
      BY <1>3, <1>6, <2>2 DEF Unsent
    <3>2. u \notin items \cap stored /\ u \in used
      BY <1>3, <1>6, <2>2, <3>1 DEF UserInv, CallsOfUsers, Unsent
    <3>3. Content(d)' = Content(d)
      BY <1>3, <2>2 DEF Content
    <3>4. Current(u)' = Current(u)
      BY <3>2
    <3> QED  BY <3>1, <3>3, <3>4 DEF UserInv, UnsentIsCurrent
  <2> QED  BY <2>1, <2>2
<1>7. ASSUME NEW u \in used' \ (lost' \cup crossed'), ~Fresh(u)'
      PROVE  SaysLast(outbox, service[u], u, Current(u))'
  <2>1. u \notin items
    BY <1>2, <1>7 DEF Fresh, Unsent
  <2>2. u \in used \ (lost \cup crossed) /\ u \in Account /\ Current(u)' = Current(u)
    BY <1>1, <1>7, <2>1
  <2>3. ~Fresh(u)
    <3> SUFFICES ASSUME NEW d \in Call, Unsent(d, u), u \notin call[d].overtaken
                 PROVE  FALSE
      BY <1>7 DEF Fresh
    <3>1. d # c
      BY DEF Unsent
    <3>2. Unsent(d, u)' /\ u \notin call'[d].overtaken
      BY <1>3, <2>1, <3>1 DEF Unsent
    <3> QED  BY <1>7, <3>2 DEF Fresh
  <2>4. SaysLast(outbox, service[u], u, Current(u))
    BY <2>2, <2>3 DEF UserInv, SaidOrFresh
  <2> QED  BY <2>2, <2>4 DEF SaysLast
<1> QED  BY <1>4, <1>5, <1>6, <1>7 DEF UserInv, UnsentIsCurrent, SaidOrFresh

\* A call publishes: what it says of its users is what is stored, or they cross.
LEMMA SendStep ==
  ASSUME TypeOK, UserInv, NEW c \in Call, NEW more \in Seq(UserMsg),
         call[c].pc \in {"written", "deleted"}, outbox' = outbox \o more,
         \A k \in DOMAIN more :
           more[k].account \in call[c].items /\ more[k].creds = Content(c),
         \A u \in call[c].items : \E k \in DOMAIN more : more[k].account = u,
         lost' = lost \ Latest(c),
         crossed' = (crossed \ Latest(c)) \cup Crossing(c),
         call' = [call EXCEPT ![c] = CallAt("done")],
         UNCHANGED <<used, stored, creds, boot, service>>
  PROVE  UserInv'
<1>1. call \in [Call -> CallState] /\ outbox \in Seq(UserMsg) /\ used \subseteq Account
  BY DEF TypeOK
<1>2. call'[c].pc = "done" /\ \A d \in Call \ {c} : call'[d] = call[d]
  BY <1>1 DEF CallAt
<1>3. CallsOfUsers'
  BY <1>2 DEF UserInv, CallsOfUsers
<1>4. BootOfDefault'
  BY DEF UserInv, BootOfDefault
<1>5. \A u : Current(u)' = Current(u)
  BY DEF Current
<1>6. UnsentIsCurrent'
  BY <1>2, <1>5 DEF UserInv, UnsentIsCurrent, Unsent, Content
<1>7. ASSUME NEW u \in used' \ (lost' \cup crossed'), ~Fresh(u)'
      PROVE  SaysLast(outbox, service[u], u, Current(u))'
  <2>1. u \in used /\ u \in Account
    BY <1>1, <1>7
  <2>2. \A d \in Call \ {c} : Unsent(d, u) => u \in call[d].overtaken
    BY <1>2, <1>7 DEF Fresh, Unsent
  <2>3. CASE u \in call[c].items
    <3>1. u \notin call[c].overtaken
      BY <1>7, <2>1, <2>2 DEF Crossing
    <3>2. Content(c) = Current(u)
      BY <2>1, <2>3, <3>1 DEF UserInv, UnsentIsCurrent, Unsent
    <3>3. SaysLast(outbox \o more, service[u], u, Current(u))
      BY <1>1, <2>3, <3>2, SaidAtTheEnd
    <3> QED  BY <1>5, <3>3 DEF SaysLast
  <2>4. CASE u \notin call[c].items
    <3>1. ~Fresh(u) /\ u \notin lost \cup crossed
      BY <1>7, <2>2, <2>4 DEF Fresh, Unsent, Latest
    <3>2. SaysLast(outbox, service[u], u, Current(u))
      BY <2>1, <3>1 DEF UserInv, SaidOrFresh
    <3>3. \A k \in DOMAIN more : more[k].account # u
      BY <2>4
    <3>4. SaysLast(outbox \o more, service[u], u, Current(u))
      BY <1>1, <3>2, <3>3, SaidAtTheEnd
    <3> QED  BY <1>5, <3>4 DEF SaysLast
  <2> QED  BY <2>3, <2>4
<1> QED  BY <1>3, <1>4, <1>6, <1>7 DEF UserInv, SaidOrFresh

\* A call fails after it has written: what it had to say last is not said.
LEMMA FailStep ==
  ASSUME TypeOK, UserInv, NEW c \in Call, Fail(c), call[c].pc \in {"written", "deleted"}
  PROVE  UserInv'
<1>1. call \in [Call -> CallState] /\ used \subseteq Account
  BY DEF TypeOK
<1>2. /\ call'[c].pc = "done" /\ \A d \in Call \ {c} : call'[d] = call[d]
      /\ lost' = lost \cup Latest(c)
      /\ UNCHANGED <<used, stored, creds, boot, outbox, service, crossed>>
  BY <1>1 DEF Fail, CallAt
<1>3. CallsOfUsers' /\ BootOfDefault'
  BY <1>2 DEF UserInv, CallsOfUsers, BootOfDefault
<1>4. \A u : Current(u)' = Current(u)
  BY <1>2 DEF Current
<1>5. UnsentIsCurrent'
  BY <1>2, <1>4 DEF UserInv, UnsentIsCurrent, Unsent, Content
<1>6. ASSUME NEW u \in used' \ (lost' \cup crossed'), ~Fresh(u)'
      PROVE  SaysLast(outbox, service[u], u, Current(u))'
  <2>1. u \in used \ (lost \cup crossed) /\ u \notin Latest(c)
    BY <1>2, <1>6
  <2>2. ~Fresh(u)
    BY <1>2, <1>6, <2>1 DEF Fresh, Unsent, Latest
  <2> QED  BY <1>2, <1>4, <2>1, <2>2 DEF UserInv, SaidOrFresh, SaysLast
<1> QED  BY <1>3, <1>5, <1>6 DEF UserInv, SaidOrFresh

\* Every action, and stuttering, keeps them.
LEMMA UserStep == TypeOK /\ DefaultGiven /\ UserInv /\ [Next]_vars => UserInv'
<1> SUFFICES ASSUME TypeOK, DefaultGiven, UserInv, [Next]_vars PROVE UserInv'  OBVIOUS
<1>1. /\ used \subseteq Account /\ stored \subseteq used
      /\ creds \in [Account -> Stored] /\ call \in [Call -> CallState]
      /\ outbox \in Seq(UserMsg) /\ service \in [Account -> SUBSET Partial]
      /\ boot \in [pc : {"start", "absent", "created", "up"}, items : SUBSET Account]
  BY DEF TypeOK
<1>2. CallsOfUsers /\ BootOfDefault /\ UnsentIsCurrent /\ SaidOrFresh
  BY DEF UserInv
<1>3. ASSUME UNCHANGED <<used, stored, creds, outbox, service, lost, crossed>>,
             \A d \in Call : \/ call'[d] = call[d]
                             \/ call[d].pc = "idle" /\ call'[d].pc = "done",
             (boot.pc # "created" /\ boot'.pc # "created") \/ boot' = boot
      PROVE  UserInv'
  <2>1. CallsOfUsers'
    BY <1>2, <1>3 DEF CallsOfUsers
  <2>2. BootOfDefault'
    BY <1>2, <1>3 DEF BootOfDefault
  <2>3. \A d \in Call : \A u : Unsent(d, u)' => Unsent(d, u) /\ call'[d] = call[d]
    BY <1>3 DEF Unsent
  <2>4. \A d \in Call : \A u : Unsent(d, u) => Unsent(d, u)' /\ call'[d] = call[d]
    BY <1>3 DEF Unsent
  <2>5. \A u : Current(u)' = Current(u)
    BY <1>3 DEF Current
  <2>6. UnsentIsCurrent'
    BY <1>2, <2>3, <2>5 DEF UnsentIsCurrent, Content
  <2>7. \A u : Fresh(u) => Fresh(u)'
    BY <1>3, <2>4 DEF Fresh
  <2>8. SaidOrFresh'
    BY <1>2, <1>3, <2>5, <2>7 DEF SaidOrFresh, SaysLast
  <2> QED  BY <2>1, <2>2, <2>6, <2>8 DEF UserInv
<1>4. CASE FindDefault
  BY <1>3, <1>4 DEF FindDefault
<1>5. ASSUME NEW u \in Account, NEW given \in Complete, CreateDefault(u, given)
      PROVE  UserInv'
  <2>1. /\ u \notin used /\ used' = used \cup {u} /\ stored' = stored \cup {u}
        /\ creds' = [creds EXCEPT ![u] = given] /\ boot.pc = "absent"
        /\ boot'.pc = "created" /\ boot'.items = {u}
        /\ UNCHANGED <<call, outbox, service, lost, crossed>>
    BY <1>5 DEF CreateDefault, create
  <2>2. CallsOfUsers' /\ BootOfDefault'
    BY <1>2, <2>1 DEF CallsOfUsers, BootOfDefault
  <2>3. \A v \in Account \ {u} : Current(v)' = Current(v)
    BY <1>1, <2>1 DEF Current
  <2>4. \A d \in Call : ~Unsent(d, u)
    BY <1>2, <2>1 DEF CallsOfUsers, Unsent
  <2>5. UnsentIsCurrent'
    BY <1>2, <2>1, <2>3, <2>4 DEF UnsentIsCurrent, Unsent, Content
  <2>6. ASSUME NEW v \in used' \ (lost' \cup crossed'), ~Fresh(v)'
        PROVE  SaysLast(outbox, service[v], v, Current(v))'
    <3>1. v # u /\ ~Fresh(v) /\ v \in used \ (lost \cup crossed)
      BY <1>1, <1>5, <2>1, <2>6 DEF Fresh, Unsent
    <3>2. Current(v)' = Current(v)
      BY <1>1, <2>3, <3>1
    <3> QED  BY <1>2, <2>1, <3>1, <3>2 DEF SaidOrFresh, SaysLast
  <2> QED  BY <2>2, <2>5, <2>6 DEF UserInv, SaidOrFresh
<1>6. CASE SendDefault
  <2>1. PICK u \in boot.items :
          outbox' = Append(outbox, userMessage(u, creds[u], creds[u]))
    BY <1>6 DEF SendDefault
  <2>2. /\ boot.pc = "created" /\ boot'.pc = "up" /\ boot.items = {u} /\ u \in stored
        /\ UNCHANGED <<used, stored, creds, call, service, lost, crossed>>
    BY <1>2, <1>6, <2>1 DEF SendDefault, BootOfDefault
  <2> DEFINE message == userMessage(u, creds[u], creds[u])
             more == <<message>>
  <2>3. creds[u] \in Partial /\ u \in Account
    BY <1>1, <2>2 DEF DefaultGiven, Stored
  <2>4. /\ more \in Seq(UserMsg) /\ DOMAIN more = {1} /\ outbox' = outbox \o more
        /\ more[1].account = u /\ more[1].creds = Current(u)
    <3>1. message \in UserMsg /\ message.account = u /\ message.creds = Current(u)
      BY <2>2, <2>3 DEF userMessage, UserMsg, Current
    <3>2. outbox' = Append(outbox, message)
      BY <2>1
    <3> HIDE DEF message
    <3> QED  BY <1>1, <3>1, <3>2
  <2> HIDE DEF more
  <2>5. \A v : Current(v)' = Current(v)
    BY <2>2 DEF Current
  <2>6. CallsOfUsers' /\ BootOfDefault' /\ UnsentIsCurrent'
    BY <1>2, <2>2, <2>5 DEF CallsOfUsers, BootOfDefault, UnsentIsCurrent, Unsent, Content
  <2>7. ASSUME NEW v \in used' \ (lost' \cup crossed'), ~Fresh(v)'
        PROVE  SaysLast(outbox, service[v], v, Current(v))'
    <3>1. SaysLast(outbox \o more, service[v], v, Current(v))
      <4>1. CASE v = u
        BY <1>1, <2>4, <4>1, SaidAtTheEnd
      <4>2. CASE v # u
        <5>1. ~Fresh(v) /\ v \in used \ (lost \cup crossed)
          BY <2>2, <2>7, <4>2 DEF Fresh, Unsent
        <5>2. SaysLast(outbox, service[v], v, Current(v))
          BY <1>2, <5>1 DEF SaidOrFresh
        <5> QED  BY <1>1, <2>4, <4>2, <5>2, SaidAtTheEnd
      <4> QED  BY <4>1, <4>2
    <3> QED  BY <2>2, <2>4, <2>5, <3>1 DEF SaysLast
  <2> QED  BY <2>6, <2>7 DEF UserInv, SaidOrFresh
<1>7. ASSUME NEW c \in Call, NEW u \in Account, NEW n \in Name,
             NEW given \in Complete \cup {<<>>, Null}, Register(c, u, n, given)
      PROVE  UserInv'
  <2>1. CASE create(u, n, given) /\ call' = Wrote(c, "written", {u}, given, given)
    <3>1. /\ call[c].pc = "idle" /\ boot.pc = "up"
          /\ UNCHANGED <<boot, outbox, service, lost, crossed>>
      BY <1>7 DEF Register
    <3>2. /\ u \notin used /\ used' = used \cup {u} /\ stored' = stored \cup {u}
          /\ creds' = [creds EXCEPT ![u] = given]
      BY <2>1 DEF create
    <3>3. Current(u)' = {given} /\ \A v \in Account \ {u} : Current(v)' = Current(v)
      BY <1>1, <3>2 DEF Current
    <3>4. \A v \in {u} \ stored : v \in used => Current(v)' = Current(v)
      BY <3>2
    <3> QED  BY <2>1, <3>1, <3>2, <3>3, <3>4, WriteStep
  <2>2. CASE /\ call' = [call EXCEPT ![c] = CallAt("done")]
             /\ UNCHANGED <<used, stored, name, creds>>
    BY <1>1, <1>3, <1>7, <2>2 DEF Register, CallAt
  <2> QED  BY <1>7, <2>1, <2>2 DEF Register
<1>8. ASSUME NEW c \in Call, NEW u \in Account, NEW given \in Partial, Update(c, u, given)
      PROVE  UserInv'
  <2> DEFINE written == withCredentials(creds[u], given)
  <2>1. /\ call[c].pc = "idle" /\ boot.pc = "up" /\ u \in used
        /\ UNCHANGED <<used, stored, boot, outbox, service, lost, crossed>>
    BY <1>8 DEF Update
  <2>2. \/ /\ u \in stored
           /\ creds' = [creds EXCEPT ![u] = written]
           /\ call' = Wrote(c, "written", {u}, given, written)
        \/ /\ call' = [call EXCEPT ![c] = CallAt("done")]
           /\ UNCHANGED creds
    BY <1>8 DEF Update
  <2> HIDE DEF written
  <2>3. CASE /\ u \in stored
             /\ creds' = [creds EXCEPT ![u] = written]
             /\ call' = Wrote(c, "written", {u}, given, written)
    <3>1. Current(u)' = {written} /\ \A v \in Account \ {u} : Current(v)' = Current(v)
      BY <1>1, <2>1, <2>3 DEF Current
    <3>2. used' = used \cup {u} /\ {u} \ stored = {}
      BY <2>1, <2>3
    <3> QED  BY <2>1, <2>3, <3>1, <3>2, WriteStep
  <2>4. CASE call' = [call EXCEPT ![c] = CallAt("done")] /\ UNCHANGED creds
    BY <1>1, <1>3, <2>1, <2>4 DEF CallAt
  <2> QED  BY <2>2, <2>3, <2>4
<1>9. ASSUME NEW c \in Call, SendUser(c) PROVE UserInv'
  <2>1. PICK u \in call[c].items :
          outbox' = Append(outbox, userMessage(u, call[c].given, call[c].written))
    BY <1>9 DEF SendUser
  <2>2. call[c].pc = "written" /\ call[c].items = {u}
    BY <1>2, <1>9, <2>1 DEF SendUser, CallsOfUsers
  <2> DEFINE message == userMessage(u, call[c].given, call[c].written)
             more == <<message>>
  <2>3. u \in Account /\ call[c].written \in Partial
    BY <1>1, <1>9, <2>1 DEF SendUser, CallState, Stored
  <2>4. /\ more \in Seq(UserMsg) /\ DOMAIN more = {1} /\ outbox' = outbox \o more
        /\ more[1].account = u /\ more[1].creds = Content(c)
    <3>1. message \in UserMsg /\ message.account = u /\ message.creds = Content(c)
      BY <2>2, <2>3 DEF userMessage, UserMsg, Content
    <3>2. outbox' = Append(outbox, message)
      BY <2>1
    <3> HIDE DEF message
    <3> QED  BY <1>1, <3>1, <3>2
  <2> HIDE DEF more
  <2>5. /\ lost' = lost \ Latest(c) /\ crossed' = (crossed \ Latest(c)) \cup Crossing(c)
        /\ call' = [call EXCEPT ![c] = CallAt("done")]
        /\ UNCHANGED <<used, stored, creds, boot, service>>
    BY <1>9 DEF SendUser
  <2> QED  BY <2>2, <2>4, <2>5, SendStep
<1>10. ASSUME NEW c \in Call, NEW items \in (SUBSET Account) \ {{}}, Delete(c, items)
       PROVE  UserInv'
  <2>1. /\ call[c].pc = "idle" /\ boot.pc = "up" /\ items \subseteq used
        /\ stored' = stored \ items /\ call' = Wrote(c, "deleted", items, <<>>, <<>>)
        /\ UNCHANGED <<used, creds, boot, outbox, service, lost, crossed>>
    BY <1>10 DEF Delete
  <2>2. \A u \in items : Current(u)' = {}
    BY <2>1 DEF Current
  <2>3. /\ \A u \in Account \ items : Current(u)' = Current(u)
        /\ \A u \in items \ stored : Current(u)' = Current(u)
    BY <2>1 DEF Current
  <2>4. used' = used \cup items
    BY <2>1
  <2> QED  BY <2>1, <2>2, <2>3, <2>4, WriteStep
<1>11. ASSUME NEW c \in Call, SendDeletions(c) PROVE UserInv'
  <2> DEFINE ids == SetToSeq(getDeletedIds(call[c].items))
             more == [i \in DOMAIN ids |-> [account |-> ids[i], creds |-> {}]]
  <2>1. /\ call[c].pc = "deleted" /\ outbox' = outbox \o more
        /\ lost' = lost \ Latest(c) /\ crossed' = (crossed \ Latest(c)) \cup Crossing(c)
        /\ call' = [call EXCEPT ![c] = CallAt("done")]
        /\ UNCHANGED <<used, stored, creds, boot, service>>
    BY <1>11 DEF SendDeletions
  <2>2. call[c].items \in SUBSET Account /\ Content(c) = {}
    BY <1>1, <2>1 DEF CallState, Content
  <2>3. /\ more \in Seq(UserMsg)
        /\ \A k \in DOMAIN more :
             more[k].account \in call[c].items /\ more[k].creds = {}
        /\ \A u \in call[c].items : \E k \in DOMAIN more : more[k].account = u
    BY <2>2, DeletionTypes
  <2> HIDE DEF more
  <2>4. \A k \in DOMAIN more : more[k].account \in call[c].items /\ more[k].creds = Content(c)
    BY <2>2, <2>3
  <2> QED  BY <2>1, <2>3, <2>4, SendStep
<1>12. CASE Synchronise
  <2> DEFINE m == Head(outbox)
  <2>1. /\ outbox # <<>> /\ service' = [service EXCEPT ![m.account] = m.creds]
        /\ outbox' = Tail(outbox)
        /\ UNCHANGED <<used, stored, creds, call, boot, lost, crossed>>
    BY <1>12 DEF Synchronise
  <2>2. m \in UserMsg
    BY <1>1, <2>1
  <2>3. \A u \in Account : service'[u] = IF m.account = u THEN m.creds ELSE service[u]
    BY <1>1, <2>1
  <2> HIDE DEF m
  <2>4. \A u : Current(u)' = Current(u) /\ Fresh(u)' = Fresh(u)
    BY <2>1 DEF Current, Fresh, Unsent
  <2>5. CallsOfUsers' /\ BootOfDefault' /\ UnsentIsCurrent'
    BY <1>2, <2>1, <2>4 DEF CallsOfUsers, BootOfDefault, UnsentIsCurrent, Unsent, Content
  <2>6. ASSUME NEW u \in used' \ (lost' \cup crossed'), ~Fresh(u)'
        PROVE  SaysLast(outbox, service[u], u, Current(u))'
    <3>1. u \in Account /\ SaysLast(outbox, service[u], u, Current(u))
      BY <1>1, <1>2, <2>1, <2>4, <2>6 DEF SaidOrFresh
    <3>2. SaysLast(Tail(outbox), service'[u], u, Current(u))
      BY <1>1, <2>1, <2>3, <3>1, SaidWhenHandled DEF m
    <3> QED  BY <2>1, <2>4, <3>2 DEF SaysLast
  <2> QED  BY <2>5, <2>6 DEF UserInv, SaidOrFresh
<1>13. CASE Crash
  <2>1. /\ \A c \in Call : call'[c].pc \in {"idle", "done"}
        /\ boot'.pc = "start" /\ outbox' = <<>>
        /\ lost' = lost \cup {u \in Account : Pending(u)}
        /\ UNCHANGED <<used, stored, creds, service, crossed>>
    BY <1>13 DEF Crash, CallAt
  <2>2. CallsOfUsers' /\ BootOfDefault' /\ UnsentIsCurrent'
    BY <2>1 DEF CallsOfUsers, BootOfDefault, UnsentIsCurrent, Unsent
  <2>3. ASSUME NEW u \in used' \ (lost' \cup crossed')
        PROVE  SaysLast(outbox, service[u], u, Current(u))'
    <3>1. u \in used \ (lost \cup crossed) /\ ~Pending(u)
      BY <1>1, <2>1, <2>3
    <3>2. service[u] = Current(u)
      BY <1>2, <3>1 DEF SaidOrFresh, SaysLast, Fresh, Pending
    <3>3. Current(u)' = Current(u)
      BY <2>1 DEF Current
    <3> QED  BY <2>1, <3>2, <3>3 DEF SaysLast
  <2> QED  BY <2>2, <2>3 DEF UserInv, SaidOrFresh
<1>14. ASSUME NEW c \in Call, FailCheck(c) PROVE UserInv'
  BY <1>14, FailStep DEF FailCheck
<1>15. ASSUME NEW c \in Call, FailDeletions(c) PROVE UserInv'
  BY <1>15, FailStep DEF FailDeletions
<1>16. CASE DeclareQueue
  BY <1>3, <1>16 DEF DeclareQueue
<1>17. CASE DropMessage
  <2> DEFINE u == Head(outbox).account
  <2>1. /\ outbox # <<>> /\ outbox' = Tail(outbox)
        /\ UNCHANGED <<used, stored, creds, call, boot, service, crossed>>
    BY <1>17 DEF DropMessage
  <2>2. lost' = lost \/ lost' = lost \cup {u}
    BY <1>17 DEF DropMessage
  <2>3. \A v : Current(v)' = Current(v) /\ Fresh(v)' = Fresh(v)
    BY <2>1 DEF Current, Fresh, Unsent
  <2>4. CallsOfUsers' /\ BootOfDefault' /\ UnsentIsCurrent'
    BY <1>2, <2>1, <2>3 DEF CallsOfUsers, BootOfDefault, UnsentIsCurrent, Unsent, Content
  <2>5. ASSUME NEW v \in used' \ (lost' \cup crossed'), ~Fresh(v)'
        PROVE  SaysLast(outbox, service[v], v, Current(v))'
    <3>1. SaysLast(outbox, service[v], v, Current(v))
      BY <1>2, <2>1, <2>2, <2>3, <2>5 DEF SaidOrFresh
    <3>2. u = v => \E i \in 2 .. Len(outbox) : outbox[i].account = v
      BY <1>17, <2>5 DEF DropMessage
    <3>3. SaysLast(Tail(outbox), service[v], v, Current(v))
      BY <1>1, <2>1, <3>1, <3>2, SaidWhenDropped DEF u
    <3> QED  BY <2>1, <2>3, <3>3 DEF SaysLast
  <2> QED  BY <2>4, <2>5 DEF UserInv, SaidOrFresh
<1>18. CASE UNCHANGED vars
  BY <1>3, <1>18 DEF vars
<1> QED
  BY <1>4, <1>5, <1>6, <1>7, <1>8, <1>9, <1>10, <1>11, <1>12, <1>13, <1>14, <1>15, <1>16,
     <1>17, <1>18
  DEF Next

(* When nothing about a user is outstanding, the data-service has the       *)
(* credentials that are stored, and none of a user who was deleted, unless  *)
(* the last message about the user was not sent or was lost, or messages    *)
(* about the user were published out of order, and none has followed since. *)
THEOREM Settled == Spec => []SettledUserAgrees
<1>1. Init => UserInv
  <2> SUFFICES ASSUME Init PROVE UserInv  OBVIOUS
  <2>1. used = {} /\ boot.pc = "start" /\ \A c \in Call : call[c].pc = "idle"
    BY DEF Init, CallAt
  <2> QED
    BY <2>1
    DEF UserInv, CallsOfUsers, BootOfDefault, UnsentIsCurrent, SaidOrFresh, Unsent
<1>2. UserInv => SettledUserAgrees
  <2> SUFFICES ASSUME UserInv, NEW u \in used \ (lost \cup crossed), ~Pending(u)
               PROVE  Agrees(u)
    BY DEF SettledUserAgrees
  <2> QED  BY DEF UserInv, SaidOrFresh, SaysLast, Fresh, Pending, Agrees, Current
<1>3. Spec => []TypeOK /\ []DefaultGiven
  BY Typing, Given, PTL
<1> QED  BY <1>1, <1>2, <1>3, UserStep, PTL DEF Spec

\* An _id that was not given to a user has no credentials.
UnusedBlank == \A u \in Account \ used : creds[u] = <<>>

LEMMA BlankStep == TypeOK /\ UnusedBlank /\ [Next]_vars => UnusedBlank'
<1> SUFFICES ASSUME TypeOK, UnusedBlank, [Next]_vars PROVE UnusedBlank'  OBVIOUS
<1>1. creds \in [Account -> Stored] /\ used \subseteq Account
  BY DEF TypeOK
<1>2. ASSUME NEW u \in Account, NEW n, NEW given, create(u, n, given) PROVE UnusedBlank'
  BY <1>1, <1>2 DEF create, UnusedBlank
<1>3. CASE UNCHANGED <<used, creds>>
  BY <1>3 DEF UnusedBlank
<1>4. ASSUME NEW u \in Account, NEW given \in Complete, CreateDefault(u, given)
      PROVE  UnusedBlank'
  BY <1>2, <1>4 DEF CreateDefault
<1>5. ASSUME NEW c \in Call, NEW u \in Account, NEW n \in Name,
             NEW given \in Complete \cup {<<>>, Null}, Register(c, u, n, given)
      PROVE  UnusedBlank'
  BY <1>2, <1>3, <1>5 DEF Register
<1>6. ASSUME NEW c \in Call, NEW u \in Account, NEW given \in Partial, Update(c, u, given)
      PROVE  UnusedBlank'
  <2>1. /\ used' = used /\ u \in used
        /\ \A v \in Account \ {u} : creds'[v] = creds[v]
    BY <1>1, <1>6 DEF Update
  <2> QED  BY <2>1 DEF UnusedBlank
<1> QED
  BY <1>3, <1>4, <1>5, <1>6
  DEF Next, vars, FindDefault, SendDefault, SendUser, FailCheck, Fail, Delete, SendDeletions,
      FailDeletions, DeclareQueue, Synchronise, DropMessage, Crash

(* Credentials that are complete stay so: what an update does not give is   *)
(* kept.                                                                    *)
THEOREM StayComplete == Spec => CredentialsStayComplete
<1>1. Init => UnusedBlank
  BY DEF Init, UnusedBlank
<1>2. <<>> \notin Complete
  BY ValueAssumption DEF Complete
<1>3. ASSUME TypeOK, UnusedBlank, [Next]_vars, NEW v \in Account, creds[v] \in Complete
      PROVE  creds'[v] \in Complete
  <2>1. v \in used /\ creds \in [Account -> Stored]
    BY <1>2, <1>3 DEF UnusedBlank, TypeOK
  <2>2. CASE UNCHANGED creds
    BY <1>3, <2>2
  <2>3. ASSUME NEW u \in Account, NEW n, NEW given, create(u, n, given)
        PROVE  creds'[v] \in Complete
    BY <1>3, <2>1, <2>3 DEF create
  <2>4. ASSUME NEW u \in Account, NEW given \in Complete, CreateDefault(u, given)
        PROVE  creds'[v] \in Complete
    BY <2>3, <2>4 DEF CreateDefault
  <2>5. ASSUME NEW c \in Call, NEW u \in Account, NEW n \in Name,
               NEW given \in Complete \cup {<<>>, Null}, Register(c, u, n, given)
        PROVE  creds'[v] \in Complete
    BY <2>2, <2>3, <2>5 DEF Register
  <2>6. ASSUME NEW c \in Call, NEW u \in Account, NEW given \in Partial, Update(c, u, given)
        PROVE  creds'[v] \in Complete
    <3>1. withCredentials(creds[v], given) \in Complete
      <4> creds[v] # Null
        BY <1>3, PartialTypes
      <4>1. DOMAIN given \subseteq Field /\ \A f \in DOMAIN given : given[f] \in Value
        BY DEF Partial
      <4>2. DOMAIN creds[v] = Field /\ \A f \in Field : creds[v][f] \in Value
        BY <1>3 DEF Complete
      <4>3. DOMAIN creds[v] \cup DOMAIN given = Field
        BY <4>1, <4>2
      <4> QED  BY <4>1, <4>2, <4>3 DEF Complete, withCredentials
    <3>2. creds' = creds \/ creds' = [creds EXCEPT ![u] = withCredentials(creds[u], given)]
      BY <2>6 DEF Update
    <3> QED  BY <1>3, <2>1, <3>1, <3>2
  <2> QED
    BY <1>3, <2>2, <2>4, <2>5, <2>6
    DEF Next, vars, FindDefault, SendDefault, SendUser, FailCheck, Fail, Delete,
        SendDeletions, FailDeletions, DeclareQueue, Synchronise, DropMessage, Crash
<1>4. TypeOK /\ UnusedBlank /\ [Next]_vars
      => [\A u \in Account : creds[u] \in Complete => creds'[u] \in Complete]_vars
  BY <1>3
<1>5. Spec => []TypeOK
  BY Typing
<1> QED  BY <1>1, <1>4, <1>5, BlankStep, PTL DEF Spec, CredentialsStayComplete
=============================================================================
