--------------------------- MODULE ReportedTasks ---------------------------
(***************************************************************************)
(* What the tasks component promises about the reports on its tasks,       *)
(* whatever handlers, messages and restarts it takes: tasks are run        *)
(* elsewhere, and each change of a run is reported.  The reports are       *)
(* worked off in the order of the changes, the status shown of a task is   *)
(* only ever changed to what the first of them says, and none is given up  *)
(* before the status says so too and, at the end of a run that succeeded,  *)
(* all files of the task are marked.  Nothing else marks a file.           *)
(***************************************************************************)
EXTENDS Sequences

CONSTANTS Task, File

VARIABLES known,   \* the tasks that are there
          files,   \* their files
          ran,     \* how far their runs have come
          shown,   \* the status shown of them
          reports, \* on changes of their runs, the oldest first
          marked   \* the files that are marked

vars == <<known, files, ran, shown, reports, marked>>

Init ==
  /\ known = {}
  /\ files = [t \in Task |-> {}]
  /\ ran = [t \in Task |-> "NOT_STARTED"]
  /\ shown = ran
  /\ reports = <<>>
  /\ marked = {}

Create(t, own) ==
  /\ t \notin known
  /\ known' = known \cup {t}
  /\ files' = [files EXCEPT ![t] = own]
  /\ UNCHANGED <<ran, shown, reports, marked>>

Change(t, status) ==
  /\ t \in known
  /\ ran' = [ran EXCEPT ![t] = status]
  /\ reports' = Append(reports, [task |-> t, status |-> status])
  /\ UNCHANGED <<known, files, shown, marked>>

\* One run of a task at a time, which succeeds or not.
Begin(t)       == ran[t] # "PROCESSING" /\ Change(t, "PROCESSING")
End(t, status) == ran[t] = "PROCESSING" /\ Change(t, status)

\* The first report is shown, perhaps more than once...
Show ==
  LET r == Head(reports) IN
  /\ reports # <<>>
  /\ shown' = [shown EXCEPT ![r.task] = r.status]
  /\ UNCHANGED <<known, files, ran, reports, marked>>

\* ...its files are marked, one by one, if it says that they are done...
Mark(f) ==
  LET r == Head(reports) IN
  /\ reports # <<>> /\ r.status = "DONE" /\ shown[r.task] = "DONE"
  /\ f \in files[r.task]
  /\ marked' = marked \cup {f}
  /\ UNCHANGED <<known, files, ran, shown, reports>>

\* ...and it is given up when nothing of it is left to do.
GiveUp ==
  LET r == Head(reports) IN
  /\ reports # <<>> /\ shown[r.task] = r.status
  /\ r.status = "DONE" => files[r.task] \subseteq marked
  /\ reports' = Tail(reports)
  /\ UNCHANGED <<known, files, ran, shown, marked>>

Next ==
  \/ \E t \in Task, own \in SUBSET File : Create(t, own)
  \/ \E t \in Task : Begin(t)
  \/ \E t \in Task, status \in {"DONE", "FAILED"} : End(t, status)
  \/ Show
  \/ \E f \in File : Mark(f)
  \/ GiveUp

Spec == Init /\ [][Next]_vars
=============================================================================
