-------------------------- MODULE FileLinksProofs --------------------------
(***************************************************************************)
(* The files component implements LinkedObjects, for any number of files,  *)
(* requests, deletions and restarts.                                       *)
(***************************************************************************)
EXTENDS FileServiceProofs, SequenceTheorems

Notice == [item : File, to : VisibilityState \cup {"nothing"}]

----------------------------------------------------------------------------
(* The notices of a queue of answers.                                      *)

\* They are as many as the answers, and in their order.
LEMMA NoticesType ==
  ASSUME NEW q \in Seq(ResultMsg)
  PROVE  /\ noticesOf(q) \in Seq(Notice)
         /\ Len(noticesOf(q)) = Len(q)
         /\ \A i \in 1 .. Len(q) : noticesOf(q)[i] = noticeOf(q[i])
<1>1. DOMAIN q = 1 .. Len(q) /\ Len(q) \in Nat /\ \A i \in 1 .. Len(q) : q[i] \in ResultMsg
  OBVIOUS
<1>2. \A i \in 1 .. Len(q) : noticeOf(q[i]) \in Notice
  BY <1>1 DEF noticeOf, Notice, ResultMsg
<1> QED
  BY <1>1, <1>2 DEF noticesOf

\* The first answer gives the first notice.
LEMMA NoticesHead ==
  ASSUME NEW q \in Seq(ResultMsg), q # <<>>
  PROVE  noticesOf(q) # <<>> /\ Head(noticesOf(q)) = noticeOf(Head(q))
<1>1. Len(q) \in Nat \ {0} /\ Head(q) = q[1]
  OBVIOUS
<1>2. noticesOf(q) # <<>> /\ Head(noticesOf(q)) = noticesOf(q)[1]
  BY <1>1, NoticesType
<1> QED
  BY <1>1, <1>2, NoticesType

\* An answer that comes in gives a notice at the end.
LEMMA NoticesAppend ==
  ASSUME NEW q \in Seq(ResultMsg), NEW m \in ResultMsg
  PROVE  noticesOf(Append(q, m)) = Append(noticesOf(q), noticeOf(m))
<1> DEFINE s == noticesOf(Append(q, m))
           t == Append(noticesOf(q), noticeOf(m))
<1>1. Append(q, m) \in Seq(ResultMsg) /\ Len(Append(q, m)) = Len(q) + 1 /\ Len(q) \in Nat
  OBVIOUS
<1>2. s \in Seq(Notice) /\ Len(s) = Len(q) + 1
      /\ \A i \in 1 .. Len(q) + 1 : s[i] = noticeOf(Append(q, m)[i])
  BY <1>1, NoticesType
<1>3. noticeOf(m) \in Notice
  BY DEF noticeOf, Notice, ResultMsg
<1>4. noticesOf(q) \in Seq(Notice) /\ Len(noticesOf(q)) = Len(q)
      /\ \A i \in 1 .. Len(q) : noticesOf(q)[i] = noticeOf(q[i])
  BY NoticesType
<1>5. /\ t \in Seq(Notice) /\ Len(t) = Len(q) + 1
      /\ \A i \in 1 .. Len(q) : t[i] = noticesOf(q)[i]
      /\ t[Len(q) + 1] = noticeOf(m)
  BY <1>1, <1>3, <1>4
<1>6. \A i \in 1 .. Len(q) : Append(q, m)[i] = q[i]
  OBVIOUS
<1>7. Append(q, m)[Len(q) + 1] = m
  OBVIOUS
<1>8. \A i \in 1 .. Len(q) + 1 : s[i] = t[i]
  <2> HIDE DEF s, t
  <2>1. ASSUME NEW i \in 1 .. Len(q) PROVE s[i] = t[i]
    <3>1. i \in 1 .. Len(q) + 1
      BY <1>1
    <3>2. s[i] = noticeOf(Append(q, m)[i])
      BY <1>2, <3>1
    <3>3. t[i] = noticeOf(q[i])
      BY <1>4, <1>5
    <3> QED  BY <1>6, <3>2, <3>3
  <2>2. s[Len(q) + 1] = t[Len(q) + 1]
    <3>1. Len(q) + 1 \in 1 .. Len(q) + 1
      BY <1>1
    <3>2. s[Len(q) + 1] = noticeOf(Append(q, m)[Len(q) + 1])
      BY <1>2, <3>1
    <3> QED  BY <1>5, <1>7, <3>2
  <2> QED  BY <1>1, <2>1, <2>2
<1> QED
  <2> HIDE DEF s, t
  <2>1. s = t  BY <1>2, <1>5, <1>8, SeqEqual
  <2> QED  BY <2>1 DEF s, t

\* An answer that is acknowledged takes its notice with it.
LEMMA NoticesTail ==
  ASSUME NEW q \in Seq(ResultMsg), q # <<>>
  PROVE  noticesOf(Tail(q)) = Tail(noticesOf(q))
<1> DEFINE s == noticesOf(Tail(q))
           t == Tail(noticesOf(q))
<1>1. Tail(q) \in Seq(ResultMsg) /\ Len(Tail(q)) = Len(q) - 1 /\ Len(q) \in Nat \ {0}
  OBVIOUS
<1>2. s \in Seq(Notice) /\ Len(s) = Len(q) - 1
      /\ \A i \in 1 .. Len(q) - 1 : s[i] = noticeOf(Tail(q)[i])
  BY <1>1, NoticesType
<1>3. noticesOf(q) \in Seq(Notice) /\ Len(noticesOf(q)) = Len(q)
      /\ \A i \in 1 .. Len(q) : noticesOf(q)[i] = noticeOf(q[i])
  BY NoticesType
<1>4. t \in Seq(Notice) /\ Len(t) = Len(q) - 1
      /\ \A i \in 1 .. Len(q) - 1 : t[i] = noticesOf(q)[i + 1]
  BY <1>1, <1>3
<1>5. \A i \in 1 .. Len(q) - 1 : Tail(q)[i] = q[i + 1]
  OBVIOUS
<1>6. \A i \in 1 .. Len(q) - 1 : s[i] = t[i]
  <2> HIDE DEF s, t
  <2> QED  BY <1>1, <1>2, <1>3, <1>4, <1>5
<1> QED
  <2> HIDE DEF s, t
  <2>1. s = t  BY <1>2, <1>4, <1>6, SeqEqual
  <2> QED  BY <2>1 DEF s, t

----------------------------------------------------------------------------
(* What an answer says stays in the document from when it is applied to     *)
(* when it is acknowledged.                                                 *)
AppliedIsLinked ==
  consumer = "applied" =>
    (Head(results).file \in stored /\ Head(results).ok
       => doc[Head(results).file].storage = Head(results).storage)

\* It survives every step that keeps the queue's front, the consumer and storages.
LEMMA AppliedFrame ==
  ASSUME AppliedIsLinked, stored' \subseteq stored,
         consumer' = "applied" => consumer = "applied" /\ Head(results') = Head(results),
         \A f \in stored' : doc'[f].storage = doc[f].storage
  PROVE  AppliedIsLinked'
BY DEF AppliedIsLinked

\* The storages of documents that a step leaves alone.
LEMMA StorageKept ==
  ASSUME TypeOK
  PROVE  /\ \A r \in Request : SaveFile(r) => \A f \in File : doc'[f].storage = doc[f].storage
         /\ \A g \in File : ExposeFile(g) => \A f \in File : doc'[f].storage = doc[f].storage
<1>1. ASSUME NEW r \in Request, SaveFile(r), NEW f \in File
      PROVE  doc'[f].storage = doc[f].storage
  <2>1. request[r].seen \in Doc /\ doc[f] \in Doc
    BY DEF TypeOK, RequestState
  <2> QED  BY <1>1, <2>1, SavedFields DEF SaveFile, TypeOK
<1>2. ASSUME NEW g \in File, ExposeFile(g), NEW f \in File
      PROVE  doc'[f].storage = doc[f].storage
  BY <1>2 DEF ExposeFile, TypeOK, Doc
<1> QED  BY <1>1, <1>2

LEMMA AppliedIsLinkedStep ==
  ASSUME TypeOK, AppliedIsLinked, [Next]_vars
  PROVE  AppliedIsLinked'
<1>1. CASE \E r \in Request, f \in File, to \in VisibilityState : FindFile(r, f, to)
  BY <1>1, AppliedFrame DEF FindFile
<1>2. CASE \E r \in Request : PublishChange(r)
  BY <1>2, AppliedFrame DEF PublishChange
<1>3. ASSUME NEW r \in Request, SaveFile(r) PROVE AppliedIsLinked'
  BY <1>3, StorageKept, AppliedFrame DEF SaveFile, TypeOK
<1>4. ASSUME NEW f \in File, ExposeFile(f) PROVE AppliedIsLinked'
  BY <1>4, StorageKept, AppliedFrame DEF ExposeFile, TypeOK
<1>5. CASE \E d \in Deletion, f \in File : RemoveFile(d, f)
  BY <1>5, AppliedFrame DEF RemoveFile
<1>6. CASE \E d \in Deletion, items \in (SUBSET File) \ {{}} : FindFiles(d, items)
  BY <1>6, AppliedFrame DEF FindFiles
<1>7. CASE \E d \in Deletion : DeleteFiles(d)
  BY <1>7, AppliedFrame DEF DeleteFiles
<1>8. CASE \E d \in Deletion : SendDeletion(d)
  BY <1>8, AppliedFrame DEF SendDeletion
<1>9. CASE Deliver
  BY <1>9, AppliedFrame DEF Deliver
<1>10. ASSUME NEW m \in dataService, NEW ok \in BOOLEAN, AnswerChange(m, ok)
       PROVE  AppliedIsLinked'
  <2>1. consumer = "applied" => Head(results') = Head(results)
    BY <1>10 DEF AnswerChange, TypeOK
  <2> QED  BY <1>10, <2>1, AppliedFrame DEF AnswerChange
<1>11. CASE \E m \in dataService : DeleteObjects(m)
  BY <1>11, AppliedFrame DEF DeleteObjects
<1>12. CASE HandleResult
  <2>1. Head(results) \in ResultMsg /\ results' = results /\ stored' = stored
    BY <1>12 DEF HandleResult, TypeOK
  <2>2. ASSUME Head(results).file \in stored, Head(results).ok
        PROVE  doc'[Head(results).file].storage = Head(results).storage
    <3>1. doc'[Head(results).file]
            = setFileVisibilityState(doc[Head(results).file], Head(results))
      BY <1>12, <2>2 DEF HandleResult, TypeOK
    <3> QED  BY <2>1, <2>2, <3>1, MovedFields DEF TypeOK
  <2> QED  BY <2>1, <2>2 DEF AppliedIsLinked
<1>13. CASE AckResult
  BY <1>13 DEF AckResult, AppliedIsLinked
<1>14. CASE FailResult
  BY <1>14 DEF FailResult, AppliedIsLinked
<1>15. CASE Crash
  BY <1>15 DEF Crash, AppliedIsLinked
<1>16. CASE UNCHANGED vars
  BY <1>16 DEF vars, AppliedIsLinked
<1>17. CASE \E d \in Deletion : FailDeletion(d)
  BY <1>17, AppliedFrame DEF FailDeletion
<1> QED
  BY <1>1, <1>2, <1>3, <1>4, <1>5, <1>6, <1>7, <1>8, <1>9, <1>10, <1>11,
     <1>12, <1>13, <1>14, <1>15, <1>16, <1>17 DEF Next

----------------------------------------------------------------------------
(* Each step is one of LinkedObjects, or none.                             *)

LinksStep == [Links!Next]_(Links!vars)

\* A step that touches none of what LinkedObjects sees.
LEMMA LinksStutter ==
  ASSUME stored' = stored, object' = object, results' = results,
         \A f \in File : doc'[f].storage = doc[f].storage
  PROVE  LinksStep
<1>1. [f \in File |-> getFileLink(f)]' = [f \in File |-> getFileLink(f)]
  BY DEF getFileLink
<1>2. noticesOf(results)' = noticesOf(results)
  BY DEF noticesOf, noticeOf
<1> QED  BY <1>1, <1>2 DEF LinksStep, Links!vars

\* A step that removes files and no more.
LEMMA LinksRemove ==
  ASSUME NEW items \in SUBSET File, stored' = stored \ items,
         UNCHANGED <<object, results, doc>>
  PROVE  LinksStep
<1>1. [f \in File |-> getFileLink(f)]' = [f \in File |-> getFileLink(f)]
  BY DEF getFileLink
<1>2. noticesOf(results)' = noticesOf(results)
  BY DEF noticesOf, noticeOf
<1>3. Links!Remove(items)
  BY <1>1, <1>2 DEF Links!Remove
<1> QED  BY <1>3 DEF LinksStep, Links!Next

LEMMA LinksInit == Init => Links!Init
<1> SUFFICES ASSUME Init PROVE Links!Init  OBVIOUS
<1>1. /\ stored = File /\ object \in [File -> VisibilityState]
      /\ doc = [f \in File |-> NewDoc(object[f])] /\ results = <<>>
  BY DEF Init
<1>2. [f \in File |-> getFileLink(f)] = object
  BY <1>1, NewDocFields DEF getFileLink
<1>3. noticesOf(results) = <<>>
  <2>1. <<>> \in Seq(ResultMsg) /\ Len(<<>>) = 0
    OBVIOUS
  <2>2. noticesOf(results) \in Seq(Notice) /\ Len(noticesOf(results)) = 0
    BY <1>1, <2>1, NoticesType
  <2> QED  BY <2>2, EmptySeq
<1> QED  BY <1>1, <1>2, <1>3 DEF Links!Init

LEMMA LinksNext ==
  ASSUME TypeOK, StorageInv, AppliedIsLinked, [Next]_vars
  PROVE  LinksStep
<1> DEFINE link == [f \in File |-> getFileLink(f)]
           notices == noticesOf(results)
<1>1. CASE \E r \in Request, f \in File, to \in VisibilityState : FindFile(r, f, to)
  BY <1>1, LinksStutter DEF FindFile
<1>2. CASE \E r \in Request : PublishChange(r)
  BY <1>2, LinksStutter DEF PublishChange
<1>3. ASSUME NEW r \in Request, SaveFile(r) PROVE LinksStep
  BY <1>3, StorageKept, LinksStutter DEF SaveFile
<1>4. ASSUME NEW f \in File, ExposeFile(f) PROVE LinksStep
  BY <1>4, StorageKept, LinksStutter DEF ExposeFile
<1>5. ASSUME NEW d \in Deletion, NEW f \in File, RemoveFile(d, f) PROVE LinksStep
  BY <1>5, LinksRemove DEF RemoveFile
<1>6. CASE \E d \in Deletion, items \in (SUBSET File) \ {{}} : FindFiles(d, items)
  BY <1>6, LinksStutter DEF FindFiles
<1>7. ASSUME NEW d \in Deletion, DeleteFiles(d) PROVE LinksStep
  <2>1. FilesOf(deletion[d].seen) \subseteq File
    BY DEF TypeOK, DeletionState, FilesOf
  <2> QED  BY <1>7, <2>1, LinksRemove DEF DeleteFiles
<1>8. CASE \E d \in Deletion : SendDeletion(d)
  BY <1>8, LinksStutter DEF SendDeletion
<1>9. CASE Deliver
  BY <1>9, LinksStutter DEF Deliver
<1>10. ASSUME NEW m \in dataService, NEW ok \in BOOLEAN, AnswerChange(m, ok)
       PROVE  LinksStep
  <2>1. m \in VisibilityMsg /\ m.file \in File /\ m.newVisibilityState \in VisibilityState
    BY <1>10 DEF AnswerChange, TypeOK, VisibilityMsg, DeletionMsg
  <2>2. Reply(m, ok) \in ResultMsg
    BY <2>1 DEF Reply, ResultMsg, VisibilityMsg
  <2>3. notices' = Append(notices, noticeOf(Reply(m, ok)))
    BY <1>10, <2>2, NoticesAppend DEF AnswerChange, TypeOK
  <2>4. link' = link /\ stored' = stored
    BY <1>10 DEF AnswerChange, getFileLink
  <2>5. CASE ok
    <3>1. noticeOf(Reply(m, ok)) = [item |-> m.file, to |-> m.newVisibilityState]
      BY <2>5 DEF noticeOf, Reply
    <3>2. object' = [object EXCEPT ![m.file] = m.newVisibilityState]
          /\ object[m.file] = m.storage
      BY <1>10, <2>5 DEF AnswerChange
    <3>3. object[m.file] # "GONE"
      BY <2>1, <3>2 DEF VisibilityMsg, VisibilityState
    <3>4. Links!Move(m.file, m.newVisibilityState)
      BY <2>3, <2>4, <3>1, <3>2, <3>3 DEF Links!Move, Links!Notify
    <3> QED  BY <2>1, <3>4 DEF LinksStep, Links!Next
  <2>6. CASE ~ok
    <3>1. noticeOf(Reply(m, ok)) = [item |-> m.file, to |-> "nothing"]
      BY <2>6 DEF noticeOf, Reply
    <3>2. object' = object
      BY <1>10, <2>6 DEF AnswerChange
    <3>3. Links!FailMove(m.file)
      BY <2>3, <2>4, <3>1, <3>2 DEF Links!FailMove, Links!Notify
    <3> QED  BY <2>1, <3>3 DEF LinksStep, Links!Next
  <2> QED  BY <2>5, <2>6
<1>11. ASSUME NEW m \in dataService, DeleteObjects(m) PROVE LinksStep
  <2> DEFINE items == {f \in File : <<f, object[f]>> \in m.files}
  <2>1. items \cap stored = {}
    BY <1>11 DEF DeleteObjects, StorageInv, OnlyDeletedNamed, FilesOf
  <2>2. object' = [f \in File |-> IF f \in items THEN "GONE" ELSE object[f]]
    BY <1>11 DEF DeleteObjects
  <2>3. link' = link /\ notices' = notices /\ stored' = stored
    BY <1>11 DEF DeleteObjects, getFileLink, noticesOf, noticeOf
  <2>4. Links!Destroy(items)
    BY <2>1, <2>2, <2>3 DEF Links!Destroy
  <2> QED  BY <2>4 DEF LinksStep, Links!Next
<1>12. CASE HandleResult
  <2> DEFINE m == Head(results)
  <2>1. /\ results \in Seq(ResultMsg) /\ results # <<>> /\ m \in ResultMsg
        /\ results' = results /\ stored' = stored /\ object' = object
    BY <1>12 DEF HandleResult, TypeOK
  <2>2. CASE m.file \in stored /\ m.ok
    <3>1. doc' = [doc EXCEPT ![m.file] = setFileVisibilityState(@, m)]
      BY <1>12, <2>2 DEF HandleResult
    <3>2. setFileVisibilityState(doc[m.file], m).storage = m.storage
      BY <2>1, <2>2, MovedFields DEF TypeOK
    <3>3. link' = [link EXCEPT ![m.file] = m.storage]
      BY <2>2, <3>1, <3>2 DEF getFileLink, TypeOK
    <3>4. /\ notices # <<>> /\ Head(notices) = noticeOf(m) /\ notices' = notices
      BY <2>1, NoticesHead DEF noticesOf, noticeOf
    <3>5. noticeOf(m).item = m.file /\ noticeOf(m).to = m.storage /\ m.storage # "nothing"
      BY <2>1, <2>2 DEF noticeOf, ResultMsg, VisibilityState
    <3>6. Links!Follow
      BY <2>1, <2>2, <3>3, <3>4, <3>5 DEF Links!Follow
    <3> QED  BY <3>6 DEF LinksStep, Links!Next
  <2>3. CASE ~(m.file \in stored /\ m.ok)
    <3>1. \A f \in File : doc'[f].storage = doc[f].storage
      BY <1>12, <2>1, <2>3, NotMovedFields DEF HandleResult, TypeOK
    <3> QED  BY <2>1, <3>1, LinksStutter
  <2> QED  BY <2>2, <2>3
<1>13. CASE AckResult
  <2> DEFINE m == Head(results)
  <2>1. /\ results \in Seq(ResultMsg) /\ results # <<>> /\ m \in ResultMsg
        /\ consumer = "applied" /\ results' = Tail(results)
        /\ stored' = stored /\ object' = object /\ doc' = doc
    BY <1>13 DEF AckResult, TypeOK
  <2>2. /\ notices # <<>> /\ Head(notices) = noticeOf(m) /\ notices' = Tail(notices)
    BY <2>1, NoticesHead, NoticesTail
  <2>3. link' = link
    BY <2>1 DEF getFileLink
  <2>4. noticeOf(m).item = m.file /\ noticeOf(m).to = IF m.ok THEN m.storage ELSE "nothing"
    BY DEF noticeOf
  <2>5. m.file \in stored /\ noticeOf(m).to # "nothing" => link[m.file] = noticeOf(m).to
    BY <2>1, <2>4 DEF AppliedIsLinked, getFileLink, ResultMsg
  <2>6. Links!GiveUp
    BY <2>1, <2>2, <2>3, <2>4, <2>5 DEF Links!GiveUp
  <2> QED  BY <2>6 DEF LinksStep, Links!Next
<1>14. CASE FailResult
  BY <1>14, LinksStutter DEF FailResult
<1>15. CASE Crash
  BY <1>15, LinksStutter DEF Crash
<1>16. CASE UNCHANGED vars
  BY <1>16, LinksStutter DEF vars
<1>17. CASE \E d \in Deletion : FailDeletion(d)
  BY <1>17, LinksStutter DEF FailDeletion
<1> QED
  BY <1>1, <1>2, <1>3, <1>4, <1>5, <1>6, <1>7, <1>8, <1>9, <1>10, <1>11,
     <1>12, <1>13, <1>14, <1>15, <1>16, <1>17 DEF Next

(* The files component implements LinkedObjects: each of its steps is one   *)
(* of that specification under the mapping, or changes nothing it sees.     *)
THEOREM LinksImplemented == Spec => LinksFollowObjects
<1>1. Init => AppliedIsLinked
  BY DEF Init, AppliedIsLinked
<1>2. TypeOK /\ StorageInv /\ [Next]_vars => StorageInv'
  BY StorageTrackedStep, OnlyDeletedNamedStep DEF StorageInv
<1>3. TypeOK /\ AppliedIsLinked /\ [Next]_vars => AppliedIsLinked'
  BY AppliedIsLinkedStep
<1>4. TypeOK /\ StorageInv /\ AppliedIsLinked /\ [Next]_vars => [Links!Next]_(Links!vars)
  BY LinksNext DEF LinksStep
<1> QED
  BY <1>1, <1>2, <1>3, <1>4, LinksInit, StorageInit, Typing, PTL
     DEF Spec, LinksFollowObjects, Links!Spec
=============================================================================
