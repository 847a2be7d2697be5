------------------------- MODULE FileServiceProofs -------------------------
(***************************************************************************)
(* Theorems about FileService, for any number of files, requests,          *)
(* deletions and restarts.                                                 *)
(***************************************************************************)
EXTENDS FileService, TLAPS

Msg == VisibilityMsg \cup DeletionMsg
Places == SUBSET (File \X VisibilityState)

----------------------------------------------------------------------------
(* The types of what the operators return.                                 *)

\* A handler that has loaded nothing is a handler.
LEMMA RequestAtType ==
  ASSUME NEW pc \in {"idle", "read", "published", "done"}
  PROVE  RequestAt(pc) \in RequestState
BY FileAssumption DEF RequestAt, RequestState, NewDoc, Doc, VisibilityState

\* A deletion that has found nothing is a deletion.
LEMMA DeletionAtType ==
  ASSUME NEW pc \in {"idle", "found", "deleted", "done"}
  PROVE  DeletionAt(pc) \in DeletionState
BY DEF DeletionAt, DeletionState

\* save() and the update by a result leave documents documents.
LEMMA DocTypes ==
  /\ \A seen, current \in Doc : saved(seen, current) \in Doc
  /\ \A d \in Doc, m \in ResultMsg : setFileVisibilityState(d, m) \in Doc
BY DEF saved, setFileVisibilityState, Doc, ResultMsg, VisibilityState

\* What a new document, save() and the two kinds of result write.
LEMMA NewDocFields ==
  ASSUME NEW place \in VisibilityState
  PROVE  /\ NewDoc(place).storage = place
         /\ NewDoc(place).published <=> place = "PUBLIC"
         /\ ~NewDoc(place).stateChanging
BY DEF NewDoc

\* What save() leaves as it was loaded, and the storage it does not touch.
LEMMA SavedFields ==
  ASSUME NEW seen \in Doc, NEW current \in Doc
  PROVE  /\ saved(seen, current).storage = current.storage
         /\ saved(seen, current).published = seen.published
         /\ saved(seen, current).exposed = seen.exposed
BY DEF saved, Doc

\* What the result of a successful move writes.
LEMMA MovedFields ==
  ASSUME NEW d \in Doc, NEW m \in ResultMsg, m.ok
  PROVE  /\ setFileVisibilityState(d, m).storage = m.storage
         /\ setFileVisibilityState(d, m).published <=> m.newVisibilityState = "PUBLIC"
         /\ setFileVisibilityState(d, m).exposed = d.exposed
         /\ ~setFileVisibilityState(d, m).stateChanging
BY DEF setFileVisibilityState, Doc

\* What the result of a failed move writes, and what it leaves alone.
LEMMA NotMovedFields ==
  ASSUME NEW d \in Doc, NEW m \in ResultMsg, ~m.ok
  PROVE  /\ setFileVisibilityState(d, m).storage = d.storage
         /\ setFileVisibilityState(d, m).published = d.published
         /\ setFileVisibilityState(d, m).exposed = d.exposed
         /\ ~setFileVisibilityState(d, m).stateChanging
BY DEF setFileVisibilityState, Doc

\* What the reply to a change message says.
LEMMA ReplyFields ==
  ASSUME NEW m, NEW ok \in BOOLEAN
  PROVE  /\ Reply(m, ok).ok <=> ok
         /\ Reply(m, ok).file = m.file
         /\ Reply(m, ok).newVisibilityState = m.newVisibilityState
         /\ ok => Reply(m, ok).storage = m.newVisibilityState
BY DEF Reply

\* Marking the loaded documents as overtaken keeps the handlers typed.
LEMMA OvertakeType ==
  ASSUME TypeOK, NEW f \in File
  PROVE  Overtake(f) \in [Request -> RequestState]
BY DEF Overtake, TypeOK, RequestState

\* What is paired with the storage of some files names places of files.
LEMMA PlacesType ==
  ASSUME NEW S \in SUBSET File, NEW g \in [File -> Doc]
  PROVE  {<<f, g[f].storage>> : f \in S} \in Places
BY DEF Places, Doc

----------------------------------------------------------------------------
(* Types.                                                                  *)

\* The initial states are typed.
LEMMA TypeInit == Init => TypeOK
<1> SUFFICES ASSUME Init PROVE TypeOK  OBVIOUS
<1> USE DEF Init
<1>1. doc \in [File -> Doc]
  BY DEF NewDoc, Doc, VisibilityState
<1>2. /\ request \in [Request -> RequestState]
      /\ deletion \in [Deletion -> DeletionState]
  BY RequestAtType, DeletionAtType
<1>3. object \in [File -> VisibilityState \cup {"GONE"}]
  OBVIOUS
<1>4. crashes \in 0 .. MaxCrashes
  BY CrashAssumption
<1> QED  BY <1>1, <1>2, <1>3, <1>4 DEF TypeOK

\* Every action, and stuttering, keeps the types.
LEMMA TypeStep == TypeOK /\ [Next]_vars => TypeOK'
<1> SUFFICES ASSUME TypeOK, [Next]_vars PROVE TypeOK'  OBVIOUS
<1> USE DEF TypeOK
<1>1. ASSUME NEW r \in Request, NEW f \in File, NEW to \in VisibilityState,
             FindFile(r, f, to)
      PROVE  TypeOK'
  <2>1. [pc |-> "read", file |-> f, to |-> to, seen |-> doc[f],
         overtaken |-> FALSE] \in RequestState
    BY DEF RequestState
  <2>2. request' \in [Request -> RequestState]
    BY <1>1, <2>1, RequestAtType DEF FindFile
  <2> QED  BY <1>1, <2>2 DEF FindFile
<1>2. ASSUME NEW r \in Request, PublishChange(r) PROVE TypeOK'
  <2>1. request' \in [Request -> RequestState]
    BY <1>2 DEF PublishChange, RequestState
  <2>2. outbox' \in Seq(Msg)
    BY <1>2 DEF PublishChange, RequestState, VisibilityMsg, Msg, Doc
  <2> QED  BY <1>2, <2>1, <2>2 DEF PublishChange, Msg
<1>3. ASSUME NEW r \in Request, SaveFile(r) PROVE TypeOK'
  <2>1. /\ request[r].file \in File
        /\ request[r].seen \in Doc
    BY DEF RequestState
  <2>2. doc' \in [File -> Doc]
    BY <1>3, <2>1, DocTypes DEF SaveFile
  <2>3. request' \in [Request -> RequestState]
    BY <1>3, RequestAtType DEF SaveFile
  <2> QED  BY <1>3, <2>1, <2>2, <2>3 DEF SaveFile
<1>4. ASSUME NEW f \in File, ExposeFile(f) PROVE TypeOK'
  <2>1. doc' \in [File -> Doc]
    BY <1>4 DEF ExposeFile, Doc
  <2> QED  BY <1>4, <2>1, OvertakeType DEF ExposeFile
<1>5. ASSUME NEW d \in Deletion, NEW f \in File, RemoveFile(d, f) PROVE TypeOK'
  <2>1. [pc |-> "deleted", seen |-> {<<f, doc[f].storage>>}] \in DeletionState
    BY DEF DeletionState, Doc
  <2>2. deletion' \in [Deletion -> DeletionState]
    BY <1>5, <2>1, DeletionAtType DEF RemoveFile
  <2> QED  BY <1>5, <2>2 DEF RemoveFile
<1>6. ASSUME NEW d \in Deletion, NEW items \in (SUBSET File) \ {{}},
             FindFiles(d, items)
      PROVE  TypeOK'
  <2>1. [pc |-> "found", seen |-> {<<f, doc[f].storage>> : f \in items \cap stored}]
          \in DeletionState
    BY PlacesType DEF DeletionState, Places
  <2>2. deletion' \in [Deletion -> DeletionState]
    BY <1>6, <2>1, DeletionAtType DEF FindFiles
  <2> QED  BY <1>6, <2>2 DEF FindFiles
<1>7. ASSUME NEW d \in Deletion, DeleteFiles(d) PROVE TypeOK'
  <2>1. deletion' \in [Deletion -> DeletionState]
    BY <1>7 DEF DeleteFiles, DeletionState
  <2> QED  BY <1>7, <2>1 DEF DeleteFiles
<1>8. ASSUME NEW d \in Deletion, SendDeletion(d) PROVE TypeOK'
  <2>1. deletion' \in [Deletion -> DeletionState]
    BY <1>8, DeletionAtType DEF SendDeletion
  <2>2. [type |-> "deletion", by |-> d, files |-> deletion[d].seen] \in DeletionMsg
    BY DEF DeletionMsg, DeletionState
  <2>3. outbox' \in Seq(VisibilityMsg \cup DeletionMsg)
    BY <1>8, <2>2 DEF SendDeletion, getDeletedIds
  <2> QED  BY <1>8, <2>1, <2>3 DEF SendDeletion
<1>9. ASSUME Deliver PROVE TypeOK'
  BY <1>9 DEF Deliver
<1>10. ASSUME NEW m \in dataService, NEW ok \in BOOLEAN, AnswerChange(m, ok)
       PROVE  TypeOK'
  <2>1. m \in VisibilityMsg
    BY <1>10 DEF AnswerChange, DeletionMsg
  <2>2. Reply(m, ok) \in ResultMsg
    BY <2>1 DEF Reply, ResultMsg, VisibilityMsg
  <2>3. results' \in Seq(ResultMsg)
    BY <1>10, <2>2 DEF AnswerChange
  <2>4. object' \in [File -> VisibilityState \cup {"GONE"}]
    BY <1>10, <2>1 DEF AnswerChange, VisibilityMsg
  <2>5. consumer' = "applied" => results' # <<>>
    BY <1>10, <2>2 DEF AnswerChange
  <2> QED  BY <1>10, <2>3, <2>4, <2>5 DEF AnswerChange
<1>11. ASSUME NEW m \in dataService, DeleteObjects(m) PROVE TypeOK'
  BY <1>11 DEF DeleteObjects
<1>12. ASSUME HandleResult PROVE TypeOK'
  <2>1. Head(results) \in ResultMsg
    BY <1>12 DEF HandleResult
  <2>2. Head(results).file \in File
    BY <2>1 DEF ResultMsg
  <2>3. setFileVisibilityState(doc[Head(results).file], Head(results)) \in Doc
    BY <2>1, <2>2, DocTypes
  <2>4. doc' \in [File -> Doc]
    BY <1>12, <2>2, <2>3 DEF HandleResult
  <2>5. request' \in [Request -> RequestState]
    BY <1>12, <2>2, OvertakeType DEF HandleResult
  <2> QED  BY <1>12, <2>4, <2>5 DEF HandleResult
<1>13. ASSUME AckResult PROVE TypeOK'
  BY <1>13 DEF AckResult
<1>14. ASSUME FailResult PROVE TypeOK'
  BY <1>14 DEF FailResult
<1>15. ASSUME Crash PROVE TypeOK'
  <2>1. /\ request' \in [Request -> RequestState]
        /\ deletion' \in [Deletion -> DeletionState]
    BY <1>15, RequestAtType, DeletionAtType DEF Crash
  <2>2. crashes' \in 0 .. MaxCrashes
    BY <1>15, CrashAssumption DEF Crash
  <2> QED  BY <1>15, <2>1, <2>2 DEF Crash
<1>16. ASSUME UNCHANGED vars PROVE TypeOK'
  BY <1>16 DEF vars
<1>17. ASSUME NEW d \in Deletion, FailDeletion(d) PROVE TypeOK'
  <2>1. deletion' \in [Deletion -> DeletionState]
    BY <1>17, DeletionAtType DEF FailDeletion
  <2>2. FilesOf(deletion[d].seen) \subseteq File
    BY DEF DeletionState, FilesOf
  <2> QED  BY <1>17, <2>1, <2>2 DEF FailDeletion
<1> QED
  BY <1>1, <1>2, <1>3, <1>4, <1>5, <1>6, <1>7, <1>8, <1>9, <1>10, <1>11,
     <1>12, <1>13, <1>14, <1>15, <1>16, <1>17 DEF Next

\* Every state the files part can reach is well typed: in particular nothing
\* is ever acknowledged that is not in the queue.
THEOREM Typing == Spec => []TypeOK
BY TypeInit, TypeStep, PTL DEF Spec

----------------------------------------------------------------------------
(* The publish buffer and the result queue as sequences.                   *)

\* Publishing adds one message to those that are on their way.
LEMMA SentAppend ==
  ASSUME TypeOK, NEW e, outbox' = Append(outbox, e)
  PROVE  Sent' = Sent \cup {e}
<1>1. outbox \in Seq(Msg)
  BY DEF TypeOK, Msg
<1>2. /\ DOMAIN outbox' = DOMAIN outbox \cup {Len(outbox) + 1}
      /\ \A i \in DOMAIN outbox : outbox'[i] = outbox[i]
      /\ outbox'[Len(outbox) + 1] = e
  BY <1>1
<1> QED  BY <1>2 DEF Sent

\* Writing out the buffer hands a message over and loses none.
LEMMA TransitDeliver ==
  ASSUME TypeOK, Deliver
  PROVE  (Sent \cup dataService)' = Sent \cup dataService
<1>1. outbox \in Seq(Msg) /\ outbox # <<>>
  BY DEF TypeOK, Msg, Deliver
<1>2. /\ outbox' = Tail(outbox)
      /\ dataService' = dataService \cup {Head(outbox)}
  BY DEF Deliver
<1>3. /\ Len(outbox) \in Nat \ {0}
      /\ DOMAIN outbox = 1 .. Len(outbox)
      /\ DOMAIN outbox' = 1 .. Len(outbox) - 1
      /\ Head(outbox) = outbox[1]
      /\ \A i \in 1 .. Len(outbox) - 1 : outbox'[i] = outbox[i + 1]
  BY <1>1, <1>2
<1>4. Sent' \cup {Head(outbox)} \subseteq Sent
  BY <1>3 DEF Sent
<1>5. ASSUME NEW i \in DOMAIN outbox
      PROVE  outbox[i] \in Sent' \cup {Head(outbox)}
  <2>1. CASE i = 1
    BY <2>1, <1>3
  <2>2. CASE i # 1
    <3>1. i - 1 \in 1 .. Len(outbox) - 1 /\ outbox'[i - 1] = outbox[i]
      BY <2>2, <1>3, <1>5
    <3> QED  BY <3>1, <1>3 DEF Sent
  <2> QED  BY <2>1, <2>2
<1>6. Sent = Sent' \cup {Head(outbox)}
  BY <1>4, <1>5 DEF Sent
<1> QED  BY <1>2, <1>6

\* An answer goes to the end of the queue and moves no other.
LEMMA ResultsAppend ==
  ASSUME TypeOK, NEW m, NEW ok, AnswerChange(m, ok)
  PROVE  /\ DOMAIN results = 1 .. Len(results) /\ Len(results) \in Nat
         /\ DOMAIN results' = 1 .. Len(results) + 1
         /\ \A i \in 1 .. Len(results) : results'[i] = results[i]
         /\ results'[Len(results) + 1] = Reply(m, ok)
BY DEF AnswerChange, TypeOK

\* An acknowledgement moves each answer but the first one place forward.
LEMMA ResultsTail ==
  ASSUME TypeOK, AckResult
  PROVE  /\ results' = Tail(results) /\ Len(results) \in Nat \ {0}
         /\ DOMAIN results = 1 .. Len(results)
         /\ DOMAIN results' = 1 .. Len(results) - 1
         /\ \A i \in 1 .. Len(results) - 1 : results'[i] = results[i + 1]
BY DEF AckResult, TypeOK

----------------------------------------------------------------------------
(* Storage.  What makes StorageTracked inductive: the data-service is told  *)
(* to delete objects of files only that are no longer stored.               *)

OnlyDeletedNamed ==
  /\ \A m \in Sent \cup dataService :
       m.type = "deletion" => FilesOf(m.files) \cap stored = {}
  /\ \A d \in Deletion :
       deletion[d].pc = "deleted" => FilesOf(deletion[d].seen) \cap stored = {}

StorageInv == StorageTracked /\ OnlyDeletedNamed

\* StorageTracked survives every step that moves no object, queues and
\* acknowledges no answer, and writes no document's storage.
LEMMA StorageFrame ==
  ASSUME StorageTracked, stored' \subseteq stored, object' = object,
         results' = results, consumer' = "applied" => consumer = "applied",
         \A f \in stored' : doc'[f].storage = doc[f].storage
  PROVE  StorageTracked'
BY DEF StorageTracked, LastMove, Moves, NoMoveUnapplied, Unapplied, getFileLink

\* OnlyDeletedNamed survives every step that sends and deletes nothing new.
LEMMA DeletedFrame ==
  ASSUME OnlyDeletedNamed, stored' \subseteq stored,
         (Sent \cup dataService)' \subseteq Sent \cup dataService,
         \A d \in Deletion : deletion'[d].pc = "deleted" => deletion'[d] = deletion[d]
  PROVE  OnlyDeletedNamed'
BY DEF OnlyDeletedNamed

\* At the start every document names the place of its object.
LEMMA StorageInit == Init => StorageInv
<1> SUFFICES ASSUME Init PROVE StorageInv  OBVIOUS
<1>1. StorageTracked
  <2>1. \A f \in stored : object[f] # "GONE" /\ doc[f].storage = object[f]
    BY NewDocFields DEF Init, VisibilityState
  <2>2. DOMAIN results = {}
    BY DEF Init
  <2> QED  BY <2>1, <2>2 DEF StorageTracked, getFileLink
<1>2. OnlyDeletedNamed
  BY DEF Init, OnlyDeletedNamed, Sent, DeletionAt
<1> QED  BY <1>1, <1>2 DEF StorageInv

\* The first half: the recorded storage follows the object.
LEMMA StorageTrackedStep ==
  ASSUME TypeOK, StorageInv, [Next]_vars
  PROVE  StorageTracked'
<1> USE DEF StorageInv
<1>1. CASE \E r \in Request, f \in File, to \in VisibilityState : FindFile(r, f, to)
  BY <1>1, StorageFrame DEF FindFile
<1>2. CASE \E r \in Request : PublishChange(r)
  BY <1>2, StorageFrame DEF PublishChange
<1>3. ASSUME NEW r \in Request, SaveFile(r) PROVE StorageTracked'
  <2>1. \A f \in stored : doc'[f].storage = doc[f].storage
    <3>1. request[r].seen \in Doc /\ \A f \in File : doc[f] \in Doc
      BY DEF TypeOK, RequestState
    <3> QED  BY <1>3, <3>1, SavedFields DEF SaveFile, TypeOK
  <2> QED  BY <1>3, <2>1, StorageFrame DEF SaveFile
<1>4. ASSUME NEW f \in File, ExposeFile(f) PROVE StorageTracked'
  <2>1. \A g \in stored : doc'[g].storage = doc[g].storage
    BY <1>4 DEF ExposeFile, TypeOK, Doc
  <2> QED  BY <1>4, <2>1, StorageFrame DEF ExposeFile
<1>5. CASE \E d \in Deletion, f \in File : RemoveFile(d, f)
  BY <1>5, StorageFrame DEF RemoveFile
<1>6. CASE \E d \in Deletion, items \in (SUBSET File) \ {{}} : FindFiles(d, items)
  BY <1>6, StorageFrame DEF FindFiles
<1>7. CASE \E d \in Deletion : DeleteFiles(d)
  BY <1>7, StorageFrame DEF DeleteFiles
<1>8. CASE \E d \in Deletion : SendDeletion(d)
  BY <1>8, StorageFrame DEF SendDeletion
<1>9. CASE Deliver
  BY <1>9, StorageFrame DEF Deliver
<1>10. ASSUME NEW m \in dataService, NEW ok \in BOOLEAN, AnswerChange(m, ok)
       PROVE  StorageTracked'
  <2> DEFINE n == Len(results) + 1
  <2>1. m \in VisibilityMsg
    BY <1>10 DEF AnswerChange, TypeOK, DeletionMsg
  <2>2. SUFFICES ASSUME NEW f \in stored
                 PROVE  /\ object'[f] # "GONE"
                        /\ \A i \in DOMAIN results' :
                             LastMove(f, i)' => results'[i].storage = object'[f]
                        /\ NoMoveUnapplied(f)' => doc[f].storage = object'[f]
    BY <1>10 DEF StorageTracked, AnswerChange, getFileLink, LastMove
  <2>3. CASE ok /\ m.file = f
    <3>1. /\ object'[f] = m.newVisibilityState
          /\ m.newVisibilityState \in VisibilityState
      BY <1>10, <2>1, <2>3 DEF AnswerChange, VisibilityMsg, TypeOK
    <3>2. /\ results'[n].ok /\ results'[n].file = f
          /\ results'[n].storage = m.newVisibilityState
      <4>1. results'[n] = Reply(m, ok)
        BY <1>10, ResultsAppend
      <4>2. m.file = f /\ ok
        BY <2>3
      <4> QED  BY <4>1, <4>2, ReplyFields, Zenon
    <3>3. \A i \in DOMAIN results' : LastMove(f, i)' => i = n
      BY <1>10, <3>2, ResultsAppend DEF LastMove, Moves
    <3>4. ~NoMoveUnapplied(f)'
      <4>1. consumer' = "applied" => n # 1
        BY <1>10, ResultsAppend DEF AnswerChange, TypeOK
      <4> QED  BY <1>10, <3>2, <4>1, ResultsAppend DEF NoMoveUnapplied, Unapplied, Moves
    <3> QED  BY <3>1, <3>2, <3>3, <3>4 DEF VisibilityState
  <2>4. CASE ~(ok /\ m.file = f)
    <3>1. object'[f] = object[f]
      BY <1>10, <2>1, <2>2, <2>4 DEF AnswerChange, VisibilityMsg, TypeOK
    <3>2. ~(results'[n].ok /\ results'[n].file = f)
      <4>1. results'[n] = Reply(m, ok)
        BY <1>10, ResultsAppend
      <4> QED  BY <2>4, <4>1, ReplyFields, Zenon
    <3>3. \A i \in DOMAIN results' :
            LastMove(f, i)' => i \in DOMAIN results /\ LastMove(f, i)
                                /\ results'[i] = results[i]
      BY <1>10, <3>2, ResultsAppend DEF LastMove, Moves
    <3>4. NoMoveUnapplied(f)' => NoMoveUnapplied(f)
      BY <1>10, ResultsAppend DEF NoMoveUnapplied, Unapplied, Moves, AnswerChange
    <3> QED  BY <2>2, <3>1, <3>3, <3>4 DEF StorageTracked, getFileLink
  <2> QED  BY <2>3, <2>4
<1>11. ASSUME NEW m \in dataService, DeleteObjects(m) PROVE StorageTracked'
  <2>1. \A f \in stored : object'[f] = object[f]
    BY <1>11 DEF DeleteObjects, OnlyDeletedNamed, FilesOf, TypeOK
  <2> QED
    BY <1>11, <2>1 DEF DeleteObjects, StorageTracked, LastMove, Moves,
                       NoMoveUnapplied, Unapplied, getFileLink
<1>12. ASSUME HandleResult PROVE StorageTracked'
  <2> DEFINE m == Head(results)
  <2>1. /\ m = results[1] /\ m \in ResultMsg
        /\ 1 \in DOMAIN results /\ results' = results
        /\ consumer = "idle" /\ consumer' = "applied"
        /\ stored' = stored /\ object' = object
    BY <1>12 DEF HandleResult, TypeOK
  <2>2. SUFFICES ASSUME NEW f \in stored, NoMoveUnapplied(f)'
                 PROVE  doc'[f].storage = object[f]
    BY <2>1 DEF StorageTracked, LastMove, Moves, getFileLink
  <2>3. doc'[f] = IF m.file = f THEN setFileVisibilityState(doc[f], m) ELSE doc[f]
    BY <1>12, <2>2 DEF HandleResult, TypeOK
  <2>4. CASE m.ok /\ m.file = f
    <3>1. LastMove(f, 1)
      BY <2>1, <2>2, <2>4 DEF LastMove, Moves, NoMoveUnapplied, Unapplied
    <3>2. m.storage = object[f]
      BY <2>1, <2>2, <3>1 DEF StorageTracked
    <3>3. doc'[f].storage = m.storage
      BY <2>1, <2>2, <2>4, <2>3, MovedFields DEF TypeOK
    <3> QED  BY <3>2, <3>3
  <2>5. CASE ~(m.ok /\ m.file = f)
    <3>1. NoMoveUnapplied(f)
      BY <2>1, <2>2, <2>5 DEF NoMoveUnapplied, Unapplied, Moves
    <3>2. doc'[f].storage = doc[f].storage
      BY <2>1, <2>2, <2>5, <2>3, NotMovedFields DEF TypeOK
    <3> QED  BY <2>2, <3>1, <3>2 DEF StorageTracked, getFileLink
  <2> QED  BY <2>4, <2>5
<1>13. ASSUME AckResult PROVE StorageTracked'
  <2>1. \A f \in File : NoMoveUnapplied(f)' => NoMoveUnapplied(f)
    <3> SUFFICES ASSUME NEW f \in File, NoMoveUnapplied(f)',
                        NEW i \in DOMAIN results, Moves(f, i), i # 1
                 PROVE  FALSE
      BY <1>13 DEF NoMoveUnapplied, Unapplied, AckResult
    <3>1. /\ i - 1 \in DOMAIN results'
          /\ results'[i - 1] = results[i]
      BY <1>13, ResultsTail
    <3> QED  BY <1>13, <3>1 DEF NoMoveUnapplied, Unapplied, Moves, AckResult
  <2>2. \A f \in File, i \in DOMAIN results' :
          LastMove(f, i)' => LastMove(f, i + 1) /\ results'[i] = results[i + 1]
    <3> SUFFICES ASSUME NEW f \in File, NEW i \in DOMAIN results', LastMove(f, i)'
                 PROVE  LastMove(f, i + 1) /\ results'[i] = results[i + 1]
      OBVIOUS
    <3>1. /\ i \in Nat \ {0} /\ i + 1 \in DOMAIN results
          /\ results'[i] = results[i + 1]
          /\ Moves(f, i + 1)
      BY <1>13, ResultsTail DEF LastMove, Moves
    <3>2. ASSUME NEW j \in DOMAIN results, j > i + 1
          PROVE  ~Moves(f, j)
      <4>1. /\ j - 1 \in DOMAIN results' /\ j - 1 > i
            /\ results'[j - 1] = results[j]
        BY <1>13, <3>1, <3>2, ResultsTail
      <4> QED  BY <4>1 DEF LastMove, Moves
    <3> QED  BY <3>1, <3>2 DEF LastMove
  <2>3. stored' = stored /\ object' = object /\ doc' = doc /\ stored \subseteq File
    BY <1>13 DEF AckResult, TypeOK
  <2>4. \A f \in File, i \in DOMAIN results' : i + 1 \in DOMAIN results
    BY <1>13, ResultsTail
  <2>5. SUFFICES ASSUME NEW f \in stored
                 PROVE  /\ object[f] # "GONE"
                        /\ \A i \in DOMAIN results' :
                             LastMove(f, i)' => results'[i].storage = object[f]
                        /\ NoMoveUnapplied(f)' => doc[f].storage = object[f]
    BY <2>3 DEF StorageTracked, getFileLink
  <2> QED  BY <2>1, <2>2, <2>3, <2>4, <2>5 DEF StorageTracked, getFileLink
<1>14. CASE FailResult
  BY <1>14, StorageFrame DEF FailResult
<1>15. CASE Crash
  BY <1>15, StorageFrame DEF Crash
<1>16. CASE UNCHANGED vars
  BY <1>16, StorageFrame DEF vars
<1>17. CASE \E d \in Deletion : FailDeletion(d)
  BY <1>17, StorageFrame DEF FailDeletion
<1> QED
  BY <1>1, <1>2, <1>3, <1>4, <1>5, <1>6, <1>7, <1>8, <1>9, <1>10, <1>11,
     <1>12, <1>13, <1>14, <1>15, <1>16, <1>17 DEF Next

\* The second half: what is deleted is not stored.
LEMMA OnlyDeletedNamedStep ==
  ASSUME TypeOK, OnlyDeletedNamed, [Next]_vars
  PROVE  OnlyDeletedNamed'
<1>1. CASE \E r \in Request, f \in File, to \in VisibilityState : FindFile(r, f, to)
  BY <1>1, DeletedFrame DEF FindFile, Sent
<1>2. ASSUME NEW r \in Request, PublishChange(r) PROVE OnlyDeletedNamed'
  BY <1>2, SentAppend DEF PublishChange, OnlyDeletedNamed
<1>3. CASE \E r \in Request : SaveFile(r)
  BY <1>3, DeletedFrame DEF SaveFile, Sent
<1>4. CASE \E f \in File : ExposeFile(f)
  BY <1>4, DeletedFrame DEF ExposeFile, Sent
<1>5. ASSUME NEW d \in Deletion, NEW f \in File, RemoveFile(d, f)
      PROVE  OnlyDeletedNamed'
  <2>1. \A e \in Deletion \ {d} : deletion'[e] = deletion[e]
    BY <1>5 DEF RemoveFile, TypeOK
  <2>2. deletion'[d].pc = "deleted" =>
          FilesOf(deletion'[d].seen) \cap stored' = {}
    BY <1>5 DEF RemoveFile, TypeOK, DeletionAt, FilesOf
  <2>3. /\ stored' \subseteq stored
        /\ (Sent \cup dataService)' = Sent \cup dataService
    BY <1>5 DEF RemoveFile, Sent
  <2>4. \A m \in (Sent \cup dataService)' :
          m.type = "deletion" => FilesOf(m.files) \cap stored' = {}
    BY <2>3 DEF OnlyDeletedNamed
  <2>5. \A e \in Deletion :
          deletion'[e].pc = "deleted" => FilesOf(deletion'[e].seen) \cap stored' = {}
    BY <2>1, <2>2, <2>3 DEF OnlyDeletedNamed
  <2> QED  BY <2>4, <2>5 DEF OnlyDeletedNamed
<1>6. CASE \E d \in Deletion, items \in (SUBSET File) \ {{}} : FindFiles(d, items)
  BY <1>6, DeletedFrame DEF FindFiles, Sent, DeletionAt, TypeOK
<1>7. ASSUME NEW d \in Deletion, DeleteFiles(d) PROVE OnlyDeletedNamed'
  <2>1. \A e \in Deletion \ {d} : deletion'[e] = deletion[e]
    BY <1>7 DEF DeleteFiles, TypeOK
  <2>2. FilesOf(deletion'[d].seen) \cap stored' = {}
    BY <1>7 DEF DeleteFiles, TypeOK, DeletionState
  <2> QED  BY <1>7, <2>1, <2>2 DEF DeleteFiles, OnlyDeletedNamed, Sent
<1>8. ASSUME NEW d \in Deletion, SendDeletion(d) PROVE OnlyDeletedNamed'
  <2>1. \A e \in Deletion : deletion'[e].pc = "deleted" => deletion'[e] = deletion[e]
    BY <1>8 DEF SendDeletion, TypeOK, DeletionAt
  <2>2. \A m \in Sent' \ Sent : m.files = deletion[d].seen
    BY <1>8, SentAppend DEF SendDeletion, getDeletedIds
  <2> QED  BY <1>8, <2>1, <2>2 DEF SendDeletion, OnlyDeletedNamed
<1>9. CASE Deliver
  BY <1>9, DeletedFrame, TransitDeliver DEF Deliver
<1>10. CASE \E m \in dataService, ok \in BOOLEAN : AnswerChange(m, ok)
  BY <1>10, DeletedFrame DEF AnswerChange, Sent
<1>11. CASE \E m \in dataService : DeleteObjects(m)
  BY <1>11, DeletedFrame DEF DeleteObjects, Sent
<1>12. CASE HandleResult
  BY <1>12, DeletedFrame DEF HandleResult, Sent
<1>13. CASE AckResult
  BY <1>13, DeletedFrame DEF AckResult, Sent
<1>14. CASE FailResult
  BY <1>14, DeletedFrame DEF FailResult, Sent
<1>15. CASE Crash
  <2>1. Sent' = {}
    BY <1>15 DEF Crash, Sent
  <2>2. \A d \in Deletion : deletion'[d].pc = "deleted" => deletion'[d] = deletion[d]
    BY <1>15 DEF Crash, DeletionAt
  <2> QED  BY <1>15, <2>1, <2>2, DeletedFrame DEF Crash
<1>16. CASE UNCHANGED vars
  BY <1>16, DeletedFrame DEF vars, Sent
<1>17. CASE \E d \in Deletion : FailDeletion(d)
  <2>1. \A d \in Deletion : deletion'[d].pc = "deleted" => deletion'[d] = deletion[d]
    BY <1>17 DEF FailDeletion, DeletionAt, TypeOK
  <2> QED  BY <1>17, <2>1, DeletedFrame DEF FailDeletion, Sent
<1> QED
  BY <1>1, <1>2, <1>3, <1>4, <1>5, <1>6, <1>7, <1>8, <1>9, <1>10, <1>11,
     <1>12, <1>13, <1>14, <1>15, <1>16, <1>17 DEF Next

\* The link of a stored file leads to its object, or the last unapplied answer
\* says where the object is: for any number of concurrent requests, stale
\* saves, deletions, failed moves and restarts.
THEOREM StorageIsTracked == Spec => []StorageTracked
<1>1. TypeOK /\ StorageInv /\ [Next]_vars => StorageInv'
  BY StorageTrackedStep, OnlyDeletedNamedStep DEF StorageInv
<1>2. StorageInv => StorageTracked
  BY DEF StorageInv
<1> QED  BY <1>1, <1>2, StorageInit, Typing, PTL DEF Spec

----------------------------------------------------------------------------
(* Coherence.  A document is wrong only if somebody was there to spoil it.  *)

\* The state of a successful answer is the place of the object.
AnswersAgree ==
  \A i \in DOMAIN results :
    results[i].ok => results[i].storage = results[i].newVisibilityState

\* A document that was not overtaken agrees with the stored one.
LoadedIsCurrent ==
  \A r \in Request, f \in stored \ disturbed :
    Loaded(r, f) /\ ~request[r].overtaken =>
      /\ request[r].seen.published = doc[f].published
      /\ request[r].seen.exposed = doc[f].exposed

\* A request that has sent its message and was not overtaken still has its
\* answer before it.
AnswerAhead ==
  \A r \in Request, f \in stored :
    request[r].pc = "published" /\ request[r].file = f
      /\ ~request[r].overtaken => ChangePending(f)

DocCoherent ==
  \A f \in stored \ disturbed :
    /\ doc[f].published <=> doc[f].storage = "PUBLIC"
    /\ doc[f].stateChanging => ChangePending(f)

CoherenceInv == AnswersAgree /\ LoadedIsCurrent /\ AnswerAhead /\ DocCoherent

\* Files are never created again, and disturbed is a history.
LEMMA Monotone ==
  ASSUME [Next]_vars
  PROVE  stored' \subseteq stored /\ disturbed \subseteq disturbed'
BY DEF Next, vars, FindFile, PublishChange, SaveFile, ExposeFile, RemoveFile,
       FindFiles, DeleteFiles, SendDeletion, FailDeletion, Deliver, AnswerChange,
       DeleteObjects, HandleResult, AckResult, FailResult, Crash

\* A change stays pending until its answer is applied, or its message is lost
\* in a restart.
LEMMA PendingKept ==
  ASSUME TypeOK, TypeOK', [Next]_vars, NEW f \in File, ChangePending(f),
         ~(HandleResult /\ Head(results).file = f),
         ~(Crash /\ f \in disturbed')
  PROVE  ChangePending(f)'
<1> DEFINE
      PendingMsg == \E m \in Sent \cup dataService : m.type = "visibility" /\ m.file = f
      PendingResult == \E i \in Unapplied : results[i].file = f
<1>0. PendingMsg \/ PendingResult
  BY DEF ChangePending
<1>00. SUFFICES PendingMsg' \/ PendingResult'
  BY DEF ChangePending
<1>1. CASE UNCHANGED <<outbox, dataService, results, consumer>>
  BY <1>0, <1>1 DEF Sent, Unapplied
<1>2. CASE \E r \in Request : PublishChange(r)
  BY <1>0, <1>2, SentAppend DEF PublishChange, Unapplied
<1>3. CASE \E d \in Deletion : SendDeletion(d)
  BY <1>0, <1>3, SentAppend DEF SendDeletion, Unapplied
<1>4. CASE Deliver
  BY <1>0, <1>4, TransitDeliver DEF Deliver, Unapplied
<1>5. ASSUME NEW m \in dataService, NEW ok \in BOOLEAN, AnswerChange(m, ok)
      PROVE  PendingMsg' \/ PendingResult'
  <2>1. CASE PendingResult
    BY <1>5, <2>1, ResultsAppend DEF AnswerChange, Unapplied
  <2>2. CASE m.file = f
    <3>1. /\ Len(results) + 1 \in DOMAIN results'
          /\ results'[Len(results) + 1].file = f
      BY <1>5, <2>2, ResultsAppend, ReplyFields
    <3>2. consumer' = "applied" => Len(results) + 1 # 1
      BY <1>5, ResultsAppend DEF AnswerChange, TypeOK
    <3> QED  BY <3>1, <3>2 DEF Unapplied
  <2>3. CASE m.file # f /\ PendingMsg
    BY <1>5, <2>3 DEF AnswerChange, Sent
  <2> QED  BY <1>0, <2>1, <2>2, <2>3
<1>6. CASE \E m \in dataService : DeleteObjects(m)
  BY <1>0, <1>6 DEF DeleteObjects, Sent, Unapplied
<1>7. CASE HandleResult
  <2>1. /\ 1 \in DOMAIN results /\ results[1].file # f
        /\ UNCHANGED <<outbox, dataService, results>>
    BY <1>7 DEF HandleResult, TypeOK
  <2> QED  BY <1>0, <2>1 DEF Sent, Unapplied
<1>8. CASE AckResult
  <2>1. CASE PendingMsg
    BY <1>8, <2>1 DEF AckResult, Sent
  <2>2. CASE PendingResult
    <3>1. PICK i \in DOMAIN results : i # 1 /\ results[i].file = f
      BY <1>8, <2>2 DEF AckResult, Unapplied
    <3>2. i - 1 \in DOMAIN results' /\ results'[i - 1] = results[i]
      BY <1>8, <3>1, ResultsTail
    <3> QED  BY <1>8, <3>1, <3>2 DEF AckResult, Unapplied
  <2> QED  BY <1>0, <2>1, <2>2
<1>9. CASE FailResult
  BY <1>0, <1>9 DEF FailResult, Sent, Unapplied
<1>10. CASE Crash
  BY <1>0, <1>10 DEF Crash, Sent, Unapplied
<1> QED
  BY <1>1, <1>2, <1>3, <1>4, <1>5, <1>6, <1>7, <1>8, <1>9, <1>10
     DEF Next, vars, FindFile, SaveFile, ExposeFile, RemoveFile, FindFiles,
         DeleteFiles, FailDeletion

\* AnswersAgree survives every step: answers carry what their request asked for.
LEMMA AnswersAgreeStep ==
  ASSUME TypeOK, AnswersAgree, [Next]_vars
  PROVE  AnswersAgree'
<1>1. CASE results' = results
  BY <1>1 DEF AnswersAgree
<1>2. ASSUME NEW m \in dataService, NEW ok \in BOOLEAN, AnswerChange(m, ok)
      PROVE  AnswersAgree'
  <2>1. Reply(m, ok).ok => Reply(m, ok).storage = Reply(m, ok).newVisibilityState
    BY ReplyFields
  <2> QED  BY <1>2, <2>1, ResultsAppend DEF AnswersAgree
<1>3. CASE AckResult
  <2>1. \A i \in DOMAIN results' : i + 1 \in DOMAIN results /\ results'[i] = results[i + 1]
    BY <1>3, ResultsTail
  <2> QED  BY <2>1 DEF AnswersAgree
<1> QED
  BY <1>1, <1>2, <1>3
     DEF Next, vars, FindFile, PublishChange, SaveFile, ExposeFile, RemoveFile,
         FindFiles, DeleteFiles, SendDeletion, FailDeletion, Deliver,
         DeleteObjects, HandleResult, FailResult, Crash

\* LoadedIsCurrent survives every step: who writes a document overtakes its readers.
LEMMA LoadedIsCurrentStep ==
  ASSUME TypeOK, LoadedIsCurrent, [Next]_vars
  PROVE  LoadedIsCurrent'
<1>1. SUFFICES ASSUME NEW q \in Request, NEW g \in stored' \ disturbed',
                      Loaded(q, g)', ~request'[q].overtaken
               PROVE  /\ request'[q].seen.published = doc'[g].published
                      /\ request'[q].seen.exposed = doc'[g].exposed
  BY DEF LoadedIsCurrent
<1>2. g \in stored \ disturbed /\ g \in File
  BY <1>1, Monotone DEF TypeOK
<1>3. CASE request'[q] = request[q] /\ doc'[g] = doc[g]
  BY <1>1, <1>2, <1>3 DEF LoadedIsCurrent, Loaded
<1>4. ASSUME NEW r \in Request, NEW f \in File, NEW to \in VisibilityState,
             FindFile(r, f, to), q = r
      PROVE  request'[q].seen = doc'[g]
  BY <1>1, <1>4 DEF FindFile, TypeOK, Loaded, RequestAt
<1>5. ASSUME NEW r \in Request, PublishChange(r), q = r
      PROVE  /\ request'[q].seen = request[q].seen /\ doc'[g] = doc[g]
             /\ Loaded(q, g) /\ ~request[q].overtaken
  BY <1>1, <1>5 DEF PublishChange, TypeOK, RequestState, Loaded
<1>6. ASSUME NEW r \in Request, SaveFile(r), request[r].file = g, q # r
      PROVE  /\ request'[q].seen.published = doc'[g].published
             /\ request'[q].seen.exposed = doc'[g].exposed
  <2>1. /\ request'[q] = request[q] /\ ~request[r].overtaken
        /\ doc'[g] = saved(request[r].seen, doc[g])
    BY <1>1, <1>2, <1>6 DEF SaveFile, TypeOK
  <2>2. /\ doc'[g].published = request[r].seen.published
        /\ doc'[g].exposed = request[r].seen.exposed
    BY <1>2, <2>1, SavedFields DEF TypeOK, RequestState
  <2>3. Loaded(r, g) /\ Loaded(q, g)
    BY <1>1, <1>6, <2>1 DEF Loaded, SaveFile
  <2> QED  BY <1>1, <1>2, <2>1, <2>2, <2>3 DEF LoadedIsCurrent
<1>7. ASSUME request' = Overtake(g) PROVE FALSE
  BY <1>1, <1>7 DEF Overtake, Loaded, TypeOK, RequestState
<1>8. ASSUME NEW f \in File, request' = Overtake(f), f # g
      PROVE  request'[q] = request[q]
  BY <1>1, <1>8 DEF Overtake, Loaded, TypeOK, RequestState
<1>9. ASSUME NEW r \in Request, SaveFile(r) PROVE q # r
  BY <1>1, <1>9 DEF SaveFile, TypeOK, Loaded, RequestAt
<1>10. ASSUME Crash PROVE request'[q] = request[q] /\ doc'[g] = doc[g]
  BY <1>1, <1>10 DEF Crash, TypeOK, Loaded, RequestAt
<1>11. CASE \E r \in Request, f \in File, to \in VisibilityState : FindFile(r, f, to)
  BY <1>3, <1>4, <1>11 DEF FindFile, TypeOK
<1>12. CASE \E r \in Request : PublishChange(r)
  <2>1. PICK r \in Request : PublishChange(r)  BY <1>12
  <2>2. CASE q = r
    BY <1>2, <1>5, <2>1, <2>2 DEF LoadedIsCurrent
  <2>3. CASE q # r
    BY <1>3, <2>1, <2>3 DEF PublishChange, TypeOK
  <2> QED  BY <2>2, <2>3
<1>13. CASE \E r \in Request : SaveFile(r)
  <2>1. PICK r \in Request : SaveFile(r)  BY <1>13
  <2>2. CASE request[r].file # g
    BY <1>2, <1>3, <1>9, <2>1, <2>2 DEF SaveFile, TypeOK
  <2> QED  BY <1>6, <1>9, <2>1, <2>2
<1>14. CASE \E f \in File : ExposeFile(f)
  BY <1>2, <1>3, <1>7, <1>8, <1>14 DEF ExposeFile, TypeOK
<1>15. CASE HandleResult
  <2>1. Head(results) \in ResultMsg
    BY <1>15 DEF HandleResult, TypeOK
  <2>2. Head(results).file \in File
    BY <2>1 DEF ResultMsg
  <2> QED  BY <1>2, <1>3, <1>7, <1>8, <1>15, <2>2 DEF HandleResult, TypeOK
<1>16. CASE UNCHANGED <<request, doc>>
  BY <1>3, <1>16
<1> QED
  BY <1>3, <1>10, <1>11, <1>12, <1>13, <1>14, <1>15, <1>16
     DEF Next, vars, RemoveFile, FindFiles, DeleteFiles, SendDeletion,
         FailDeletion, Deliver, AnswerChange, DeleteObjects, AckResult, FailResult

\* AnswerAhead survives every step: a published change is answered or lost.
LEMMA AnswerAheadStep ==
  ASSUME TypeOK, TypeOK', AnswerAhead, [Next]_vars
  PROVE  AnswerAhead'
<1>1. SUFFICES ASSUME NEW q \in Request, NEW g \in stored',
                      request'[q].pc = "published", request'[q].file = g,
                      ~request'[q].overtaken
               PROVE  ChangePending(g)'
  BY DEF AnswerAhead
<1>2. g \in stored /\ g \in File
  BY <1>1, Monotone DEF TypeOK
<1>3. ASSUME request'[q] = request[q], ~(HandleResult /\ Head(results).file = g),
             ~Crash
      PROVE  ChangePending(g)'
  BY <1>1, <1>2, <1>3, PendingKept DEF AnswerAhead
<1>4. ASSUME NEW f \in File, request' = Overtake(f)
      PROVE  f # g /\ request'[q] = request[q]
  BY <1>1, <1>4 DEF Overtake, Loaded, TypeOK, RequestState
<1>5. CASE \E r \in Request, f \in File, to \in VisibilityState : FindFile(r, f, to)
  <2>1. request'[q] = request[q]
    BY <1>1, <1>5 DEF FindFile, TypeOK, RequestAt
  <2>2. ~HandleResult /\ ~Crash
    BY <1>5, <2>1 DEF FindFile, HandleResult, Crash, TypeOK
  <2> QED  BY <1>3, <2>1, <2>2
<1>6. ASSUME NEW r \in Request, PublishChange(r) PROVE ChangePending(g)'
  <2>1. CASE q = r
    <3> DEFINE m == [type |-> "visibility", req |-> r, file |-> request[r].file,
                     newVisibilityState |-> request[r].to,
                     storage |-> request[r].seen.storage]
    <3>1. request[r].file = g
      BY <1>1, <1>6, <2>1 DEF PublishChange, TypeOK, RequestState
    <3>2. outbox' = Append(outbox, m)
      BY <1>6 DEF PublishChange
    <3>3. m \in Sent'
      BY <3>2, SentAppend
    <3> QED  BY <3>1, <3>3 DEF ChangePending
  <2>2. CASE q # r
    <3>1. request'[q] = request[q]
      BY <1>6, <2>2 DEF PublishChange, TypeOK
    <3>2. ~HandleResult /\ ~Crash
      BY <1>6 DEF PublishChange, HandleResult, Crash, TypeOK
    <3> QED  BY <1>3, <3>1, <3>2
  <2> QED  BY <2>1, <2>2
<1>7. ASSUME NEW r \in Request, SaveFile(r) PROVE ChangePending(g)'
  <2>1. request'[q] = request[q]
    BY <1>1, <1>7 DEF SaveFile, TypeOK, RequestAt
  <2>2. ~HandleResult /\ ~Crash
    BY <1>7 DEF SaveFile, HandleResult, Crash, TypeOK
  <2> QED  BY <1>3, <2>1, <2>2
<1>8. CASE \E f \in File : ExposeFile(f)
  <2>1. ~HandleResult /\ ~Crash
    BY <1>8 DEF ExposeFile, HandleResult, Crash, TypeOK
  <2>2. PICK f \in File : request' = Overtake(f)
    BY <1>8, Zenon DEF ExposeFile
  <2>3. request'[q] = request[q]
    BY <1>4, <2>2
  <2> QED  BY <1>3, <2>1, <2>3
<1>9. CASE HandleResult
  <2>1. Head(results).file \in File
    <3>1. Head(results) \in ResultMsg
      BY <1>9 DEF HandleResult, TypeOK
    <3> QED  BY <3>1 DEF ResultMsg
  <2>2. ~Crash
    BY <1>9 DEF HandleResult, Crash
  <2>3. Head(results).file # g /\ request'[q] = request[q]
    BY <1>2, <1>4, <1>9, <2>1 DEF HandleResult
  <2> QED  BY <1>3, <2>2, <2>3
<1>10. CASE Crash
  BY <1>1, <1>10 DEF Crash, RequestAt, TypeOK
<1>11. CASE UNCHANGED request /\ ~HandleResult /\ ~Crash
  BY <1>3, <1>11
<1> QED
  BY <1>5, <1>6, <1>7, <1>8, <1>9, <1>10, <1>11
     DEF Next, vars, RemoveFile, FindFiles, DeleteFiles, SendDeletion,
         FailDeletion, Deliver, AnswerChange, DeleteObjects, AckResult, FailResult

\* No step but a result, a save and the mark of an exposure writes a document.
LEMMA DocWriters ==
  ASSUME [Next]_vars, doc' # doc
  PROVE  \/ HandleResult
         \/ \E r \in Request : SaveFile(r)
         \/ \E f \in File : ExposeFile(f)
BY DEF Next, vars, FindFile, PublishChange, RemoveFile, FindFiles, DeleteFiles,
       SendDeletion, FailDeletion, Deliver, AnswerChange, DeleteObjects,
       AckResult, FailResult, Crash

\* DocCoherent survives every step: a document is written by a result, by a save
\* and by the mark of an exposure.
LEMMA DocCoherentStep ==
  ASSUME TypeOK, TypeOK', CoherenceInv, [Next]_vars
  PROVE  DocCoherent'
<1> USE DEF CoherenceInv
<1>1. SUFFICES ASSUME NEW g \in stored' \ disturbed'
               PROVE  /\ doc'[g].published <=> doc'[g].storage = "PUBLIC"
                      /\ doc'[g].stateChanging => ChangePending(g)'
  BY DEF DocCoherent
<1>2. g \in stored \ disturbed /\ g \in File /\ doc[g] \in Doc
  BY <1>1, Monotone DEF TypeOK
<1>3. ASSUME doc'[g].published = doc[g].published, doc'[g].storage = doc[g].storage,
             doc'[g].stateChanging => doc[g].stateChanging,
             ~(HandleResult /\ Head(results).file = g)
      PROVE  /\ doc'[g].published <=> doc'[g].storage = "PUBLIC"
             /\ doc'[g].stateChanging => ChangePending(g)'
  BY <1>1, <1>2, <1>3, PendingKept DEF DocCoherent
<1>4. ASSUME NEW r \in Request, SaveFile(r)
      PROVE  /\ doc'[g].published <=> doc'[g].storage = "PUBLIC"
             /\ doc'[g].stateChanging => ChangePending(g)'
  <2>1. ~HandleResult /\ ~Crash
    BY <1>4 DEF SaveFile, HandleResult, Crash, TypeOK
  <2>2. CASE request[r].file = g
    <3>1. /\ ~request[r].overtaken /\ Loaded(r, g) /\ request[r].pc = "published"
          /\ doc'[g] = saved(request[r].seen, doc[g])
      BY <1>1, <1>2, <1>4, <2>2 DEF SaveFile, TypeOK, Loaded
    <3>2. /\ doc'[g].storage = doc[g].storage
          /\ doc'[g].published = request[r].seen.published
      BY <1>2, <3>1, SavedFields DEF TypeOK, RequestState
    <3>3. request[r].seen.published = doc[g].published
      BY <1>2, <3>1 DEF LoadedIsCurrent
    <3>4. ChangePending(g)
      BY <1>2, <2>2, <3>1 DEF AnswerAhead
    <3> QED  BY <1>2, <2>1, <3>2, <3>3, <3>4, PendingKept DEF DocCoherent
  <2>3. CASE request[r].file # g
    <3>1. doc'[g] = doc[g]
      BY <1>2, <1>4, <2>3 DEF SaveFile, TypeOK
    <3> QED  BY <1>3, <2>1, <3>1
  <2> QED  BY <2>2, <2>3
<1>5. ASSUME NEW f \in File, ExposeFile(f)
      PROVE  /\ doc'[g].published <=> doc'[g].storage = "PUBLIC"
             /\ doc'[g].stateChanging => ChangePending(g)'
  <2>1. ~HandleResult
    BY <1>5 DEF ExposeFile, HandleResult, TypeOK
  <2>2. /\ doc'[g].published = doc[g].published /\ doc'[g].storage = doc[g].storage
        /\ doc'[g].stateChanging = doc[g].stateChanging
    BY <1>2, <1>5 DEF ExposeFile, TypeOK, Doc
  <2> QED  BY <1>3, <2>1, <2>2
<1>6. CASE HandleResult
  <2> DEFINE m == Head(results)
  <2>1. m \in ResultMsg /\ 1 \in DOMAIN results /\ m = results[1]
    BY <1>6 DEF HandleResult, TypeOK
  <2>2. CASE m.file = g
    <3>1. doc'[g] = setFileVisibilityState(doc[g], m)
      BY <1>2, <1>6, <2>2 DEF HandleResult, TypeOK
    <3>2. ~doc'[g].stateChanging
      BY <1>2, <2>1, <3>1, MovedFields, NotMovedFields
    <3>3. CASE m.ok
      <4>1. /\ doc'[g].storage = m.storage
            /\ doc'[g].published <=> m.newVisibilityState = "PUBLIC"
        BY <1>2, <2>1, <3>1, <3>3, MovedFields
      <4>2. m.storage = m.newVisibilityState
        BY <2>1, <3>3 DEF AnswersAgree
      <4> QED  BY <3>2, <4>1, <4>2
    <3>4. CASE ~m.ok
      <4>1. doc'[g].storage = doc[g].storage /\ doc'[g].published = doc[g].published
        BY <1>2, <2>1, <3>1, <3>4, NotMovedFields
      <4> QED  BY <1>2, <3>2, <4>1 DEF DocCoherent
    <3> QED  BY <3>3, <3>4
  <2>3. CASE m.file # g
    <3>1. doc'[g] = doc[g]
      BY <1>2, <1>6, <2>3 DEF HandleResult, TypeOK
    <3> QED  BY <1>3, <2>3, <3>1
  <2> QED  BY <2>2, <2>3
<1>7. CASE doc' = doc
  BY <1>3, <1>6, <1>7
<1> QED  BY <1>4, <1>5, <1>6, <1>7, DocWriters

\* At the start no change is on its way and no document differs from its object.
LEMMA CoherenceInit == Init => CoherenceInv
<1> SUFFICES ASSUME Init PROVE CoherenceInv  OBVIOUS
<1>1. \A f \in stored : /\ doc[f].published <=> doc[f].storage = "PUBLIC"
                        /\ ~doc[f].stateChanging
  BY NewDocFields DEF Init
<1>2. \A r \in Request : request[r].pc = "idle"
  BY DEF Init, RequestAt
<1>3. AnswersAgree
  BY DEF Init, AnswersAgree
<1>4. LoadedIsCurrent /\ AnswerAhead
  BY <1>2 DEF LoadedIsCurrent, AnswerAhead, Loaded
<1> QED  BY <1>1, <1>3, <1>4 DEF CoherenceInv, DocCoherent

\* Every step keeps the four parts of the coherence invariant together.
LEMMA CoherenceStep ==
  TypeOK /\ TypeOK' /\ CoherenceInv /\ [Next]_vars => CoherenceInv'
BY AnswersAgreeStep, LoadedIsCurrentStep, AnswerAheadStep, DocCoherentStep
   DEF CoherenceInv

\* A file nobody has an answer outstanding for is not marked as changing and is
\* published exactly when its object is public, unless a save of an overtaken
\* document or a restart that lost its change message disturbed it.
THEOREM SettledCoherence == Spec => []SettledFileIsCoherent
<1>1. TypeOK /\ StorageInv /\ CoherenceInv => SettledFileIsCoherent
  <2> SUFFICES ASSUME TypeOK, StorageInv, CoherenceInv,
                      NEW f \in stored \ disturbed, ~ChangePending(f)
               PROVE  /\ ~doc[f].stateChanging
                      /\ doc[f].published <=> object[f] = "PUBLIC"
    BY DEF SettledFileIsCoherent
  <2>1. NoMoveUnapplied(f)
    BY DEF NoMoveUnapplied, Moves, ChangePending
  <2>2. doc[f].storage = object[f]
    BY <2>1 DEF StorageInv, StorageTracked, getFileLink
  <2>3. /\ doc[f].published <=> doc[f].storage = "PUBLIC"
        /\ ~doc[f].stateChanging
    BY DEF CoherenceInv, DocCoherent
  <2> QED  BY <2>2, <2>3
<1>2. TypeOK /\ StorageInv /\ [Next]_vars => StorageInv'
  BY StorageTrackedStep, OnlyDeletedNamedStep DEF StorageInv
<1> QED
  BY <1>1, <1>2, StorageInit, CoherenceInit, CoherenceStep, Typing, PTL DEF Spec

\* The mark of an exposure to CKAN is lost only to a save of a document that was
\* loaded before the mark was set.
THEOREM ExposureKept == Spec => ExposureSurvives
<1>1. ASSUME TypeOK, CoherenceInv, [Next]_vars, NEW f \in stored \cap stored',
             doc[f].exposed, ~doc'[f].exposed, f \notin disturbed'
      PROVE  FALSE
  <2>1. f \in stored \ disturbed /\ f \in File /\ doc[f] \in Doc
    BY <1>1, Monotone DEF TypeOK
  <2>2. ASSUME NEW r \in Request, SaveFile(r) PROVE FALSE
    <3>1. CASE request[r].file = f
      <4>1. /\ ~request[r].overtaken /\ Loaded(r, f)
            /\ doc'[f] = saved(request[r].seen, doc[f])
        BY <1>1, <2>1, <2>2, <3>1 DEF SaveFile, TypeOK, Loaded
      <4>2. doc'[f].exposed = request[r].seen.exposed
        BY <2>1, <4>1, <1>1, SavedFields DEF TypeOK, RequestState
      <4> QED  BY <1>1, <2>1, <4>1, <4>2 DEF CoherenceInv, LoadedIsCurrent
    <3>2. CASE request[r].file # f
      BY <1>1, <2>1, <2>2, <3>2 DEF SaveFile, TypeOK
    <3> QED  BY <3>1, <3>2
  <2>3. ASSUME NEW g \in File, ExposeFile(g) PROVE FALSE
    BY <1>1, <2>1, <2>3 DEF ExposeFile, TypeOK, Doc
  <2>4. CASE HandleResult
    <3>1. Head(results) \in ResultMsg
      BY <1>1, <2>4 DEF HandleResult, TypeOK
    <3>2. \/ doc'[f] = doc[f]
          \/ doc'[f] = setFileVisibilityState(doc[f], Head(results))
      BY <1>1, <2>1, <2>4 DEF HandleResult, TypeOK
    <3> QED  BY <1>1, <2>1, <3>1, <3>2, MovedFields, NotMovedFields
  <2> QED  BY <1>1, <2>2, <2>3, <2>4, DocWriters
<1>2. TypeOK /\ CoherenceInv /\ [Next]_vars =>
        [\A f \in stored \cap stored' :
           doc[f].exposed /\ ~doc'[f].exposed => f \in disturbed']_vars
  BY <1>1
<1> QED
  BY <1>2, CoherenceInit, CoherenceStep, Typing, PTL DEF Spec, ExposureSurvives

----------------------------------------------------------------------------
(* Deletion.                                                               *)

\* The object of a file deleted while nobody was changing it is not moved again.
DeletedIsQuiet ==
  \A f \in File \ (stored \cup disturbed) :
    /\ \A m \in Sent \cup dataService : ~(m.type = "visibility" /\ m.file = f)
    /\ \A r \in Request : ~Loaded(r, f)

ReclaimInv == DeletedIsQuiet /\ DeletedObjectIsReclaimed

\* A file that is deleted, and not disturbed by that, was not being changed and
\* its document named the place of its object.
LEMMA DeletedAtRest ==
  ASSUME TypeOK, StorageInv, [Next]_vars, NEW f \in stored \ stored',
         f \notin disturbed'
  PROVE  /\ UNCHANGED <<request, outbox, dataService, object>>
         /\ ~ChangeActive(f)
         /\ doc[f].storage = object[f]
         /\ \E d \in Deletion : /\ deletion'[d].pc = "deleted"
                                /\ <<f, object[f]>> \in deletion'[d].seen
<1>1. \/ \E d \in Deletion, g \in File : RemoveFile(d, g)
      \/ \E d \in Deletion : DeleteFiles(d)
  BY DEF Next, vars, FindFile, PublishChange, SaveFile, ExposeFile, FindFiles,
         SendDeletion, FailDeletion, Deliver, AnswerChange, DeleteObjects,
         HandleResult, AckResult, FailResult, Crash
<1>2. UNCHANGED <<request, outbox, dataService, object>>
  BY <1>1 DEF RemoveFile, DeleteFiles
<1>3. ~ChangeActive(f)
  BY <1>1 DEF RemoveFile, DeleteFiles
<1>4. NoMoveUnapplied(f)
  BY <1>3 DEF ChangeActive, ChangePending, NoMoveUnapplied, Moves
<1>5. doc[f].storage = object[f]
  BY <1>4 DEF StorageInv, StorageTracked, getFileLink
<1>6. \E d \in Deletion : /\ deletion'[d].pc = "deleted"
                          /\ <<f, doc[f].storage>> \in deletion'[d].seen
  <2>1. CASE \E d \in Deletion, g \in File : RemoveFile(d, g)
    BY <2>1 DEF RemoveFile, TypeOK
  <2>2. CASE \E d \in Deletion : DeleteFiles(d)
    <3>1. PICK d \in Deletion : DeleteFiles(d)
      BY <2>2
    <3>2. f \in FilesOf(deletion[d].seen) /\ <<f, doc[f].storage>> \in deletion[d].seen
      BY <3>1 DEF DeleteFiles
    <3>3. deletion'[d].pc = "deleted" /\ deletion'[d].seen = deletion[d].seen
      BY <3>1 DEF DeleteFiles, TypeOK, DeletionState
    <3> QED  BY <3>2, <3>3
  <2> QED  BY <1>1, <2>1, <2>2
<1> QED  BY <1>2, <1>3, <1>5, <1>6

\* DeletedIsQuiet survives every step: a change of a deleted file disturbs it.
LEMMA DeletedIsQuietStep ==
  ASSUME TypeOK, StorageInv, DeletedIsQuiet, [Next]_vars
  PROVE  DeletedIsQuiet'
<1>1. SUFFICES ASSUME NEW f \in File \ (stored' \cup disturbed')
               PROVE  /\ \A m \in (Sent \cup dataService)' :
                           ~(m.type = "visibility" /\ m.file = f)
                      /\ \A r \in Request : ~Loaded(r, f)'
  BY DEF DeletedIsQuiet
<1>2. CASE f \in stored
  <2>1. ~ChangeActive(f) /\ UNCHANGED <<request, outbox, dataService>>
    BY <1>1, <1>2, DeletedAtRest
  <2> QED  BY <2>1 DEF ChangeActive, ChangePending, Loaded, Sent
<1>3. CASE f \notin stored
  <2>1. /\ \A m \in Sent \cup dataService : ~(m.type = "visibility" /\ m.file = f)
        /\ \A r \in Request : ~Loaded(r, f)
    BY <1>1, <1>3, Monotone DEF DeletedIsQuiet
  <2>2. CASE UNCHANGED <<request, outbox, dataService>>
    BY <2>1, <2>2 DEF Loaded, Sent
  <2>3. CASE \E r \in Request, g \in File, to \in VisibilityState : FindFile(r, g, to)
    BY <1>3, <2>1, <2>3 DEF FindFile, Loaded, Sent, TypeOK, RequestAt
  <2>4. ASSUME NEW r \in Request, PublishChange(r)
        PROVE  /\ \A m \in (Sent \cup dataService)' :
                    ~(m.type = "visibility" /\ m.file = f)
               /\ \A q \in Request : ~Loaded(q, f)'
    <3>1. request[r].file # f
      BY <2>1, <2>4 DEF PublishChange, Loaded
    <3>2. \A m \in Sent' \ Sent : m.file = request[r].file
      BY <2>4, SentAppend DEF PublishChange
    <3>3. \A q \in Request : Loaded(q, f)' => Loaded(q, f)
      BY <2>4, <3>1 DEF PublishChange, Loaded, TypeOK, RequestState
    <3> QED  BY <2>1, <2>4, <3>1, <3>2, <3>3 DEF PublishChange
  <2>5. CASE \E r \in Request : SaveFile(r)
    BY <2>1, <2>5 DEF SaveFile, Loaded, Sent, TypeOK, RequestAt
  <2>6. ASSUME NEW g \in File, request' = Overtake(g)
        PROVE  \A r \in Request : Loaded(r, f)' => Loaded(r, f)
    BY <2>6 DEF Overtake, Loaded, TypeOK, RequestState
  <2>7. CASE \E g \in File : ExposeFile(g)
    <3>1. PICK g \in File : request' = Overtake(g)
      BY <2>7, Zenon DEF ExposeFile
    <3> QED  BY <2>1, <2>6, <2>7, <3>1 DEF ExposeFile, Sent
  <2>8. CASE \E d \in Deletion : SendDeletion(d)
    <3>1. \A m \in Sent' \ Sent : m.type = "deletion"
      BY <2>8, SentAppend DEF SendDeletion
    <3> QED  BY <2>1, <2>8, <3>1 DEF SendDeletion, Loaded
  <2>9. CASE Deliver
    BY <2>1, <2>9, TransitDeliver DEF Deliver, Loaded
  <2>10. CASE \E m \in dataService, ok \in BOOLEAN : AnswerChange(m, ok)
    BY <2>1, <2>10 DEF AnswerChange, Loaded, Sent
  <2>11. CASE \E m \in dataService : DeleteObjects(m)
    BY <2>1, <2>11 DEF DeleteObjects, Loaded, Sent
  <2>12. CASE HandleResult
    <3>1. Head(results).file \in File
      <4>1. Head(results) \in ResultMsg
        BY <2>12 DEF HandleResult, TypeOK
      <4> QED  BY <4>1 DEF ResultMsg
    <3>2. UNCHANGED <<outbox, dataService>>
      BY <2>12 DEF HandleResult
    <3>3. request' = request \/ request' = Overtake(Head(results).file)
      BY <2>12 DEF HandleResult
    <3> QED  BY <2>1, <2>6, <3>1, <3>2, <3>3 DEF Sent, Loaded
  <2>13. CASE Crash
    <3>1. \A r \in Request : Loaded(r, f)' => Loaded(r, f)
      BY <2>13 DEF Crash, Loaded, RequestAt, TypeOK
    <3> QED  BY <2>1, <2>13, <3>1 DEF Crash, Sent
  <2> QED
    BY <2>2, <2>3, <2>4, <2>5, <2>7, <2>8, <2>9, <2>10, <2>11, <2>12, <2>13
       DEF Next, vars, RemoveFile, FindFiles, DeleteFiles, FailDeletion, AckResult,
           FailResult
<1> QED  BY <1>2, <1>3

\* The deletion that names the object's place is handed on until it is carried out.
LEMMA DeletedObjectIsReclaimedStep ==
  ASSUME TypeOK, StorageInv, ReclaimInv, [Next]_vars
  PROVE  DeletedObjectIsReclaimed'
<1>1. SUFFICES ASSUME NEW f \in File \ (stored' \cup disturbed'), object'[f] # "GONE"
               PROVE  DeletionPending(f)'
  BY DEF DeletedObjectIsReclaimed
<1>2. CASE f \in stored
  BY <1>1, <1>2, DeletedAtRest DEF DeletionPending
<1>3. CASE f \notin stored
  <2>1. f \notin stored \cup disturbed
    BY <1>1, <1>3, Monotone
  <2>2. ASSUME NEW m \in dataService, NEW ok \in BOOLEAN, AnswerChange(m, ok)
        PROVE  object'[f] = object[f]
    BY <2>1, <2>2 DEF AnswerChange, ReclaimInv, DeletedIsQuiet, TypeOK
  <2>3. object'[f] = object[f]
    BY <1>1, <2>2 DEF Next, vars, FindFile, PublishChange, SaveFile, ExposeFile,
       RemoveFile, FindFiles, DeleteFiles, SendDeletion, FailDeletion, Deliver,
       DeleteObjects, HandleResult, AckResult, FailResult, Crash
  <2>4. DeletionPending(f)
    BY <1>1, <2>1, <2>3 DEF ReclaimInv, DeletedObjectIsReclaimed
  <2> DEFINE
        p == <<f, object[f]>>
        Asked(m) == m.type = "deletion" /\ p \in m.files
        Asking(d) == deletion[d].pc = "deleted" /\ p \in deletion[d].seen
  <2>5. \/ \E d \in Deletion : Asking(d)
        \/ \E m \in Sent \cup dataService : Asked(m)
    BY <2>4 DEF DeletionPending
  <2>6. SUFFICES \/ \E d \in Deletion : Asking(d)'
                 \/ \E m \in (Sent \cup dataService)' : Asked(m)
    BY <2>3 DEF DeletionPending
  <2>7. CASE UNCHANGED <<outbox, dataService, deletion, object>>
    BY <2>5, <2>7 DEF Sent
  <2>8. CASE \E r \in Request : PublishChange(r)
    BY <2>5, <2>8, SentAppend DEF PublishChange
  <2>9. CASE \E d \in Deletion, g \in File : RemoveFile(d, g)
    <3>1. \A d \in Deletion : Asking(d) => Asking(d)'
      BY <2>9 DEF RemoveFile, TypeOK
    <3> QED  BY <2>5, <2>9, <3>1 DEF RemoveFile, Sent
  <2>10. CASE \E d \in Deletion, items \in (SUBSET File) \ {{}} : FindFiles(d, items)
    <3>1. \A d \in Deletion : Asking(d) => Asking(d)'
      BY <2>10 DEF FindFiles, TypeOK
    <3> QED  BY <2>5, <2>10, <3>1 DEF FindFiles, Sent
  <2>11. CASE \E d \in Deletion : DeleteFiles(d)
    <3>1. \A d \in Deletion : Asking(d) => Asking(d)'
      BY <2>11 DEF DeleteFiles, TypeOK
    <3> QED  BY <2>5, <2>11, <3>1 DEF DeleteFiles, Sent
  <2>12. ASSUME NEW e \in Deletion, SendDeletion(e)
         PROVE  \/ \E d \in Deletion : Asking(d)'
                \/ \E m \in (Sent \cup dataService)' : Asked(m)
    <3> DEFINE new == [type |-> "deletion", by |-> e, files |-> deletion[e].seen]
    <3>1. Sent' = Sent \cup {new}
      BY <2>12, SentAppend DEF SendDeletion, getDeletedIds
    <3>2. Asking(e) => Asked(new)
      OBVIOUS
    <3>3. \A d \in Deletion \ {e} : Asking(d) => Asking(d)'
      BY <2>12 DEF SendDeletion, TypeOK
    <3> QED  BY <2>5, <2>12, <3>1, <3>2, <3>3 DEF SendDeletion
  <2>13. CASE Deliver
    BY <2>5, <2>13, TransitDeliver DEF Deliver
  <2>14. CASE \E m \in dataService, ok \in BOOLEAN : AnswerChange(m, ok)
    <3>1. \A m \in dataService : m \notin dataService' => ~Asked(m)
      BY <2>14 DEF AnswerChange
    <3>2. UNCHANGED <<deletion, outbox>>
      BY <2>14 DEF AnswerChange
    <3> QED  BY <2>3, <2>5, <3>1, <3>2 DEF Sent
  <2>15. ASSUME NEW m \in dataService, DeleteObjects(m)
         PROVE  \/ \E d \in Deletion : Asking(d)'
                \/ \E n \in (Sent \cup dataService)' : Asked(n)
    <3>1. ~Asked(m)
      BY <1>1, <2>15 DEF DeleteObjects
    <3> QED  BY <2>5, <2>15, <3>1 DEF DeleteObjects, Sent
  <2>16. \A S : p \in S => f \in FilesOf(S)
    <3>1. p[1] = f
      OBVIOUS
    <3> HIDE DEF p
    <3> QED  BY <3>1 DEF FilesOf
  <2>17. CASE Crash
    <3>1. ~ \E d \in Deletion : Asking(d)
      BY <1>1, <2>17, <2>16 DEF Crash
    <3>2. ~ \E m \in Sent : Asked(m)
      BY <1>1, <2>17, <2>16 DEF Crash
    <3> QED  BY <2>5, <2>17, <3>1, <3>2 DEF Crash
  <2>18. ASSUME NEW e \in Deletion, FailDeletion(e)
         PROVE  \/ \E d \in Deletion : Asking(d)'
                \/ \E m \in (Sent \cup dataService)' : Asked(m)
    <3>1. ~Asking(e)
      BY <1>1, <2>16, <2>18 DEF FailDeletion
    <3>2. \A d \in Deletion \ {e} : Asking(d) => Asking(d)'
      BY <2>18 DEF FailDeletion, TypeOK
    <3> QED  BY <2>5, <2>18, <3>1, <3>2 DEF FailDeletion, Sent
  <2> QED
    BY <2>7, <2>8, <2>9, <2>10, <2>11, <2>12, <2>13, <2>14, <2>15, <2>17,
       <2>18
       DEF Next, vars, FindFile, SaveFile, ExposeFile, HandleResult, AckResult,
           FailResult
<1> QED  BY <1>2, <1>3

\* At the start no file is deleted.
LEMMA ReclaimInit == Init => ReclaimInv
BY DEF Init, ReclaimInv, DeletedIsQuiet, DeletedObjectIsReclaimed

\* The object of a file deleted while nobody was changing it is deleted, or the
\* data-service is about to be told where it is, unless a failure or a restart
\* came between.
THEOREM DeletionReclaims == Spec => []DeletedObjectIsReclaimed
<1>1. TypeOK /\ StorageInv /\ [Next]_vars => StorageInv'
  BY StorageTrackedStep, OnlyDeletedNamedStep DEF StorageInv
<1>2. TypeOK /\ StorageInv /\ ReclaimInv /\ [Next]_vars => ReclaimInv'
  BY DeletedIsQuietStep, DeletedObjectIsReclaimedStep DEF ReclaimInv
<1>3. ReclaimInv => DeletedObjectIsReclaimed
  BY DEF ReclaimInv
<1> QED
  BY <1>1, <1>2, <1>3, StorageInit, ReclaimInit, Typing, PTL DEF Spec
=============================================================================
