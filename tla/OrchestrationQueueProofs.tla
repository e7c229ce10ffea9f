---------------------- MODULE OrchestrationQueueProofs ----------------------
EXTENDS OrchestrationQueue, FiniteSetTheorems, TLAPS

LEMMA FlushType ==
    ASSUME NEW row \in JobRow, NEW before \in JobRow, NEW after \in JobRow
    PROVE  Flush(row, before, after) \in JobRow
  BY DEF Flush, JobRow

LEMMA AbsentType == AbsentRow \in JobRow
  BY DEF AbsentRow, JobRow, RunIds, JobStatus

LEMMA RowTypes ==
    ASSUME NEW row \in JobRow, NEW r \in Requests, NEW status \in JobStatus
    PROVE  /\ NewRow \in JobRow
           /\ StartedRow(row) \in JobRow
           /\ CanceledRow(row) \in JobRow
           /\ RetriedRow(row) \in JobRow
           /\ EndedRow(row, status) \in JobRow
           /\ FinishedRow(r, row) \in JobRow
  <1> USE DEF JobRow, RunIds, JobStatus, Statuses
  <1>1. NewRow \in JobRow
    BY AbsentType DEF NewRow
  <1>2. StartedRow(row) \in JobRow
    <2>1. row.attempts + 1 \in Nat
      OBVIOUS
    <2> QED
      BY <2>1 DEF StartedRow
  <1>3. CanceledRow(row) \in JobRow
    BY DEF CanceledRow
  <1>4. RetriedRow(row) \in JobRow
    BY DEF RetriedRow
  <1>5. EndedRow(row, status) \in JobRow
    BY DEF EndedRow
  <1>6. FinishedRow(r, row) \in JobRow
    BY DEF FinishedRow, EndedRow
  <1> QED
    BY <1>1, <1>2, <1>3, <1>4, <1>5, <1>6

LEMMA CommitType ==
    ASSUME TypeOK, NEW r \in Requests, NEW row \in JobRow, NEW type \in EventTypes,
           NEW status \in JobStatus, CommitWithEvent(r, row, type, status)
    PROVE  /\ job' \in [Jobs -> JobRow]
           /\ events' \subseteq QueueEvent
           /\ due' \in [Requests -> EventTypes \cup {"none"}]
           /\ loaded' \in [Requests -> JobRow]
  <1>1. Flush(job[target[r]], loaded[r], row) \in JobRow
    BY FlushType DEF TypeOK
  <1> QED
    BY <1>1, AbsentType DEF TypeOK, CommitWithEvent, Expire, QueueEvent

LEMMA ReadType ==
    ASSUME TypeOK, NEW r \in Requests, NEW go \in BOOLEAN,
           NEW there \in Active, ReadJob(r, go, there)
    PROVE  /\ loaded' \in [Requests -> JobRow]
           /\ pc' \in [Requests -> Active \cup {"idle", "done", "lost"}]
  BY AbsentType DEF TypeOK, ReadJob, Goto

LEMMA InitType == Init => TypeOK
  BY AbsentType, QueueAssumption DEF Init, TypeOK, RunIds

\* The actions that commit an event.
Commits(r) ==
    \/ Enqueue(r)
    \/ RetryCommit(r)
    \/ CancelCommit(r)
    \/ TaskStart(r)
    \/ TaskCancelBeforeStart(r)
    \/ FinishCommit(r)
    \/ FailCommit(r)

\* What each of them assigns, from where and to where it goes.
Assigns(r, row, type) ==
    \/ /\ pc[r] = "idle" /\ pc' = [pc EXCEPT ![r] = "accepted"]
       /\ row = NewRow /\ type = "queued"
    \/ /\ pc[r] = "retrying" /\ pc' = [pc EXCEPT ![r] = "accepted"]
       /\ row = RetriedRow(loaded[r]) /\ type = "retry_requested"
    \/ /\ pc[r] = "cancelling" /\ pc' = [pc EXCEPT ![r] = "done"]
       /\ row = CanceledRow(loaded[r]) /\ type = "cancel_requested"
    \/ /\ pc[r] = "starting" /\ pc' = [pc EXCEPT ![r] = "started"]
       /\ row = StartedRow(loaded[r]) /\ type = "started"
    \/ /\ pc[r] = "starting" /\ pc' = [pc EXCEPT ![r] = "done"]
       /\ row = EndedRow(loaded[r], "canceled") /\ type = "canceled"
    \/ /\ pc[r] = "finishing" /\ pc' = [pc EXCEPT ![r] = "done"]
       /\ row = FinishedRow(r, loaded[r]) /\ type = row.status
    \/ /\ pc[r] = "failing" /\ pc' = [pc EXCEPT ![r] = "done"]
       /\ row = EndedRow(loaded[r], "failed") /\ type = "failed"

LEMMA CommitIs ==
    ASSUME NEW r \in Requests, Commits(r)
    PROVE  \E row, type, status :
              /\ CommitWithEvent(r, row, type, status)
              /\ Assigns(r, row, type)
              /\ status \in {"queued", "running", "canceled", "failed", row.status}
              /\ due[r] = "none"
              /\ UNCHANGED <<checkpoints, run, target, step, curtailed, crashes>>
  <1>1. CASE Enqueue(r)
    BY <1>1 DEF Enqueue, Ready, Goto, Assigns
  <1>2. CASE RetryCommit(r)
    BY <1>2 DEF RetryCommit, Ready, Goto, Assigns
  <1>3. CASE CancelCommit(r)
    BY <1>3 DEF CancelCommit, Ready, Goto, Assigns
  <1>4. CASE TaskStart(r)
    BY <1>4 DEF TaskStart, Ready, Goto, Assigns
  <1>5. CASE TaskCancelBeforeStart(r)
    BY <1>5 DEF TaskCancelBeforeStart, Ready, Goto, Assigns
  <1>6. CASE FinishCommit(r)
    BY <1>6 DEF FinishCommit, Ready, Goto, Assigns
  <1>7. CASE FailCommit(r)
    BY <1>7 DEF FailCommit, Ready, Goto, Assigns
  <1> QED
    BY <1>1, <1>2, <1>3, <1>4, <1>5, <1>6, <1>7 DEF Commits

LEMMA AssignsType ==
    ASSUME TypeOK, NEW r \in Requests, NEW row, NEW type, Assigns(r, row, type)
    PROVE  /\ row \in JobRow
           /\ row.status \in JobStatus
           /\ type \in EventTypes
           /\ pc' \in [Requests -> Active \cup {"idle", "done", "lost"}]
  <1>1. loaded[r] \in JobRow /\ {"canceled", "failed"} \subseteq JobStatus
    BY DEF TypeOK, JobStatus, Statuses
  <1>2. row \in JobRow
    BY <1>1, RowTypes DEF Assigns
  <1>3. row.status \in JobStatus
    BY <1>2 DEF JobRow
  <1>4. FinishedRow(r, loaded[r]).status \in EventTypes
    BY <1>1 DEF FinishedRow, EndedRow, JobRow, EventTypes
  <1>5. type \in EventTypes
    BY <1>4 DEF Assigns, EventTypes
  <1>6. pc' \in [Requests -> Active \cup {"idle", "done", "lost"}]
    BY DEF Assigns, TypeOK, Active, HandlerPCs, TaskPCs
  <1> QED
    BY <1>2, <1>3, <1>5, <1>6

LEMMA CommitsType ==
    ASSUME TypeOK, NEW r \in Requests, Commits(r)
    PROVE  TypeOK'
  <1>1. PICK row, type, status :
              /\ CommitWithEvent(r, row, type, status)
              /\ Assigns(r, row, type)
              /\ status \in {"queued", "running", "canceled", "failed", row.status}
              /\ due[r] = "none"
              /\ UNCHANGED <<checkpoints, run, target, step, curtailed, crashes>>
    BY CommitIs
  <1>2. row \in JobRow /\ type \in EventTypes /\ status \in JobStatus
        /\ pc' \in [Requests -> Active \cup {"idle", "done", "lost"}]
    BY <1>1, AssignsType DEF JobStatus, Statuses
  <1> QED
    BY <1>1, <1>2, CommitType DEF TypeOK

LEMMA ProceedType ==
    ASSUME TypeOK, NEW r \in Requests, Proceed(r)
    PROVE  TypeOK'
  <1> USE DEF Active, HandlerPCs, TaskPCs
  <1>1. CASE WriteCheckpoint(r)
    BY <1>1 DEF WriteCheckpoint, TypeOK, QueueEvent, JobRow
  <1>2. CASE Commits(r)
    BY <1>2, CommitsType
  <1>4. CASE AddTask(r)
    BY <1>4 DEF AddTask, TypeOK, Goto
  <1>5. CASE TaskRead(r)
    BY <1>5, ReadType DEF TaskRead, TypeOK
  <1>8. CASE TaskRefresh(r)
    BY <1>8, ReadType DEF TaskRefresh, TypeOK
  <1>9. CASE RunAccept(r)
    BY <1>9, AbsentType DEF RunAccept, Expire, TypeOK, Goto
  <1>10. CASE RunRefuse(r)
    BY <1>10 DEF RunRefuse, TypeOK, Goto
  <1>11. CASE RunStep(r)
    <2>1. job[target[r]].cancel_requested \in BOOLEAN
      BY DEF TypeOK, JobRow
    <2>2. curtailed' \in [Requests -> BOOLEAN]
      BY <1>11, <2>1 DEF RunStep, TypeOK
    <2>3. step' \in [Requests -> 0..Steps]
      BY <1>11, QueueAssumption DEF RunStep, TypeOK
    <2> QED
      BY <1>11, <2>2, <2>3 DEF RunStep, TypeOK
  <1>12. CASE RunComplete(r)
    BY <1>12 DEF RunComplete, TypeOK, Goto
  <1>13. CASE RunRaise(r)
    BY <1>13, ReadType DEF RunRaise, TypeOK
  <1>14. CASE FinishRead(r)
    BY <1>14, ReadType DEF FinishRead, TypeOK
  <1> QED
    BY <1>1, <1>2, <1>4, <1>5, <1>8, <1>9, <1>10, <1>11, <1>12, <1>13, <1>14
       DEF Proceed, Commits

LEMMA ArrivalType ==
    ASSUME TypeOK, NEW r \in Requests, Enqueue(r) \/ RetryRead(r) \/ CancelRead(r)
    PROVE  TypeOK'
  <1> USE DEF Active, HandlerPCs, TaskPCs
  <1>1. CASE Enqueue(r)
    BY <1>1, CommitsType DEF Commits
  <1>2. CASE RetryRead(r)
    BY <1>2, ReadType DEF RetryRead, Retryable, TypeOK
  <1>3. CASE CancelRead(r)
    <2>1. Cancelable(job[target[r]]) \in BOOLEAN
      BY DEF Cancelable
    <2> QED
      BY <1>3, <2>1, ReadType DEF CancelRead, TypeOK
  <1> QED
    BY <1>1, <1>2, <1>3

LEMMA LoseType ==
    ASSUME TypeOK, NEW gone, Lose(gone)
    PROVE  TypeOK'
  BY AbsentType DEF Lose, TypeOK

LEMMA NextType == TypeOK /\ [Next]_vars => TypeOK'
  <1> SUFFICES ASSUME TypeOK, [Next]_vars PROVE TypeOK'
    OBVIOUS
  <1>1. ASSUME NEW r \in Requests, Enqueue(r) \/ RetryRead(r) \/ CancelRead(r)
        PROVE  TypeOK'
    BY <1>1, ArrivalType
  <1>2. ASSUME NEW r \in Requests, Proceed(r)
        PROVE  TypeOK'
    BY <1>2, ProceedType
  <1>3. CASE ProcessCrash \/ \E r \in Requests : SessionFailure(r)
    BY <1>3, LoseType DEF ProcessCrash, SessionFailure
  <1>4. CASE Quiet \/ UNCHANGED vars
    BY <1>4 DEF Quiet, vars, TypeOK
  <1> QED
    BY <1>1, <1>2, <1>3, <1>4 DEF Next

\* The rows of the database and every session's copy stay well formed.
THEOREM TypeCorrect == Spec => []TypeOK
  BY InitType, NextType, PTL DEF Spec
-----------------------------------------------------------------------------
\* An UPDATE, column by column.
LEMMA CommitColumns ==
    ASSUME TypeOK, NEW r \in Requests, NEW row \in JobRow, NEW type, NEW status,
           CommitWithEvent(r, row, type, status)
    PROVE  /\ \A j \in Jobs : j # target[r] => job'[j] = job[j]
           /\ job'[target[r]].status =
                 IF row.status = loaded[r].status THEN job[target[r]].status ELSE row.status
           /\ job'[target[r]].attempts =
                 IF row.attempts = loaded[r].attempts THEN job[target[r]].attempts ELSE row.attempts
           /\ job'[target[r]].orchestration_id =
                 IF row.orchestration_id = loaded[r].orchestration_id
                 THEN job[target[r]].orchestration_id ELSE row.orchestration_id
           /\ \A q \in Requests : q # r => loaded'[q] = loaded[q]
           /\ loaded'[r] = AbsentRow
  BY DEF CommitWithEvent, Flush, Expire, TypeOK

\* The columns each commit assigns.
LEMMA AssignedColumns ==
    ASSUME NEW l \in JobRow, NEW r \in Requests, NEW s
    PROVE  /\ StartedRow(l).status = "running"
           /\ StartedRow(l).attempts = l.attempts + 1
           /\ StartedRow(l).orchestration_id = l.orchestration_id
           /\ CanceledRow(l).status = IF l.status = "queued" THEN "canceled" ELSE l.status
           /\ CanceledRow(l).attempts = l.attempts
           /\ CanceledRow(l).orchestration_id = l.orchestration_id
           /\ RetriedRow(l).status = "queued"
           /\ RetriedRow(l).attempts = l.attempts
           /\ RetriedRow(l).orchestration_id = l.orchestration_id
           /\ EndedRow(l, s).status = s
           /\ EndedRow(l, s).attempts = l.attempts
           /\ EndedRow(l, s).orchestration_id = l.orchestration_id
           /\ FinishedRow(r, l).status \in {"canceled", "succeeded"}
           /\ FinishedRow(r, l).status = "succeeded" => FinishedRow(r, l).orchestration_id = r
           /\ FinishedRow(r, l).attempts = l.attempts
           /\ FinishedRow(r, l).orchestration_id \in {r, l.orchestration_id}
           /\ NewRow.status = "queued" /\ NewRow.attempts = 0
           /\ NewRow.orchestration_id = NoRun
           /\ AbsentRow.status = "absent" /\ AbsentRow.attempts = 0
           /\ AbsentRow.orchestration_id = NoRun
  <1>1. /\ StartedRow(l).status = "running"
        /\ StartedRow(l).attempts = l.attempts + 1
        /\ StartedRow(l).orchestration_id = l.orchestration_id
    BY DEF StartedRow, JobRow
  <1>2. /\ CanceledRow(l).status = IF l.status = "queued" THEN "canceled" ELSE l.status
        /\ CanceledRow(l).attempts = l.attempts
        /\ CanceledRow(l).orchestration_id = l.orchestration_id
    BY DEF CanceledRow, JobRow
  <1>3. /\ RetriedRow(l).status = "queued"
        /\ RetriedRow(l).attempts = l.attempts
        /\ RetriedRow(l).orchestration_id = l.orchestration_id
        /\ EndedRow(l, s).status = s
        /\ EndedRow(l, s).attempts = l.attempts
        /\ EndedRow(l, s).orchestration_id = l.orchestration_id
    BY DEF RetriedRow, EndedRow, JobRow
  <1>4. /\ FinishedRow(r, l).status \in {"canceled", "succeeded"}
        /\ FinishedRow(r, l).status = "succeeded" => FinishedRow(r, l).orchestration_id = r
        /\ FinishedRow(r, l).attempts = l.attempts
        /\ FinishedRow(r, l).orchestration_id \in {r, l.orchestration_id}
    BY DEF FinishedRow, EndedRow, JobRow
  <1>5. /\ NewRow.status = "queued" /\ NewRow.attempts = 0
        /\ NewRow.orchestration_id = NoRun
        /\ AbsentRow.status = "absent" /\ AbsentRow.attempts = 0
        /\ AbsentRow.orchestration_id = NoRun
    BY DEF NewRow, AbsentRow
  <1> QED
    BY <1>1, <1>2, <1>3, <1>4, <1>5
-----------------------------------------------------------------------------
(* The link of a job *)

\* A commit leaves the link alone or, at the end of a run, sets it to that
\* run; the status becomes "succeeded" only together with a link.
LEMMA CommitLink ==
    ASSUME TypeOK, LinkInvariant, NEW r \in Requests, Commits(r)
    PROVE  /\ \A j \in Jobs : j # target[r] => job'[j] = job[j]
           /\ \/ job'[target[r]].orchestration_id = job[target[r]].orchestration_id
              \/ pc[r] = "finishing" /\ job'[target[r]].orchestration_id = r
           /\ job'[target[r]].status = "succeeded" =>
                 job'[target[r]].orchestration_id # NoRun
  <1>1. PICK row, type, status :
              CommitWithEvent(r, row, type, status) /\ Assigns(r, row, type)
    BY CommitIs
  <1>2. row \in JobRow
    BY <1>1, AssignsType
  <1>3. loaded[r] \in JobRow /\ r # NoRun
    BY QueueAssumption DEF TypeOK
  <1>4. /\ job[target[r]].status = "succeeded" => job[target[r]].orchestration_id # NoRun
        /\ loaded[r].orchestration_id # NoRun => job[target[r]].orchestration_id # NoRun
        /\ pc[r] = "idle" => loaded[r] = AbsentRow
    BY DEF LinkInvariant, LinkedRunEnded, LoadedLinkIsKept, TypeOK
  <1>5. /\ \/ row.orchestration_id = loaded[r].orchestration_id
           \/ pc[r] = "finishing" /\ row.orchestration_id = r
        /\ row.status = "succeeded" =>
              \/ row.status = loaded[r].status /\ pc[r] # "finishing"
              \/ row.orchestration_id = r
    BY <1>1, <1>3, <1>4, AssignedColumns DEF Assigns
  <1> QED
    BY <1>1, <1>2, <1>3, <1>4, <1>5, CommitColumns

LEMMA LinkCommit ==
    ASSUME TypeOK, LinkInvariant, NEW r \in Requests, Commits(r)
    PROVE  LinkInvariant'
  <1>1. PICK row, type, status :
              /\ CommitWithEvent(r, row, type, status)
              /\ Assigns(r, row, type)
              /\ UNCHANGED <<run, target>>
    BY CommitIs
  <1>2. row \in JobRow
    BY <1>1, AssignsType
  <1>3. LinkedRunEnded'
    <2> SUFFICES ASSUME NEW j \in Jobs
                 PROVE  /\ job'[j].status = "succeeded" => job'[j].orchestration_id # NoRun
                        /\ job'[j].orchestration_id # NoRun =>
                              /\ target[job'[j].orchestration_id] = j
                              /\ run[job'[j].orchestration_id] = "completed"
      BY <1>1 DEF LinkedRunEnded
    <2>1. pc[r] = "finishing" => run[r] = "completed"
      BY DEF LinkInvariant, RunFollowsTask
    <2> QED
      BY <2>1, CommitLink DEF LinkInvariant, LinkedRunEnded
  <1>4. RunFollowsTask'
    BY <1>1 DEF LinkInvariant, RunFollowsTask, Assigns, TypeOK, Active, HandlerPCs, TaskPCs
  <1>5. LoadedLinkIsKept'
    <2> SUFFICES ASSUME NEW q \in Requests
                 PROVE  /\ loaded'[q].orchestration_id # NoRun =>
                              job'[target[q]].orchestration_id # NoRun
                        /\ pc'[q] = "idle" => loaded'[q] = AbsentRow
      BY <1>1 DEF LoadedLinkIsKept
    <2>1. AbsentRow.orchestration_id = NoRun
      BY DEF AbsentRow
    <2>2. q # r => loaded'[q] = loaded[q] /\ pc'[q] = pc[q]
      BY <1>1, <1>2, CommitColumns DEF Assigns, TypeOK
    <2>3. loaded'[r] = AbsentRow
      BY <1>1, <1>2, CommitColumns
    <2>4. target[q] \in Jobs /\ r # NoRun
      BY QueueAssumption DEF TypeOK
    <2> QED
      BY <2>1, <2>2, <2>3, <2>4, CommitLink DEF LinkInvariant, LoadedLinkIsKept
  <1> QED
    BY <1>3, <1>4, <1>5 DEF LinkInvariant

LEMMA LinkRead ==
    ASSUME TypeOK, LinkInvariant, NEW r \in Requests, NEW go \in BOOLEAN, NEW there,
           ReadJob(r, go, there), UNCHANGED <<job, run, target>>,
           \/ there \in HandlerPCs \cup {"starting", "preparing"} /\ run[r] = "none"
           \/ there = "finishing" /\ run[r] = "completed"
           \/ there = "failing"
    PROVE  LinkInvariant'
  <1>1. LinkedRunEnded'
    BY DEF LinkInvariant, LinkedRunEnded
  <1>2. RunFollowsTask'
    BY DEF LinkInvariant, RunFollowsTask, ReadJob, Goto, TypeOK, HandlerPCs
  <1>3. LoadedLinkIsKept'
    BY DEF LinkInvariant, LoadedLinkIsKept, ReadJob, Goto, TypeOK, AbsentRow, HandlerPCs
  <1> QED
    BY <1>1, <1>2, <1>3 DEF LinkInvariant

LEMMA LinkProceed ==
    ASSUME TypeOK, LinkInvariant, NEW r \in Requests, Proceed(r)
    PROVE  LinkInvariant'
  <1> USE DEF HandlerPCs
  <1>1. CASE WriteCheckpoint(r)
    BY <1>1 DEF WriteCheckpoint, LinkInvariant, LinkedRunEnded, RunFollowsTask, LoadedLinkIsKept
  <1>2. CASE Commits(r)
    BY <1>2, LinkCommit
  <1>3. CASE AddTask(r)
    BY <1>3 DEF AddTask, Ready, Goto, TypeOK, LinkInvariant, LinkedRunEnded,
                RunFollowsTask, LoadedLinkIsKept
  <1>4. CASE TaskRead(r)
    BY <1>4, LinkRead DEF TaskRead, Ready, LinkInvariant, RunFollowsTask
  <1>5. CASE TaskRefresh(r)
    BY <1>5, LinkRead DEF TaskRefresh, Ready, LinkInvariant, RunFollowsTask
  <1>6. CASE RunAccept(r)
    <2>1. run[r] = "none"
      BY <1>6 DEF RunAccept, Ready, LinkInvariant, RunFollowsTask
    <2>2. LinkedRunEnded'
      BY <1>6, <2>1 DEF RunAccept, TypeOK, LinkInvariant, LinkedRunEnded
    <2>3. RunFollowsTask'
      BY <1>6 DEF RunAccept, Goto, TypeOK, LinkInvariant, RunFollowsTask
    <2>4. LoadedLinkIsKept'
      BY <1>6 DEF RunAccept, Expire, Goto, TypeOK, LinkInvariant, LoadedLinkIsKept, AbsentRow
    <2> QED
      BY <2>2, <2>3, <2>4 DEF LinkInvariant
  <1>7. CASE RunRefuse(r)
    BY <1>7 DEF RunRefuse, Ready, Goto, TypeOK, LinkInvariant, LinkedRunEnded,
                RunFollowsTask, LoadedLinkIsKept
  <1>8. CASE RunStep(r)
    BY <1>8 DEF RunStep, LinkInvariant, LinkedRunEnded, RunFollowsTask, LoadedLinkIsKept
  <1>9. CASE RunComplete(r)
    <2>1. LinkedRunEnded'
      BY <1>9 DEF RunComplete, TypeOK, LinkInvariant, LinkedRunEnded, JobRow, RunIds
    <2>2. RunFollowsTask'
      BY <1>9 DEF RunComplete, Goto, TypeOK, LinkInvariant, RunFollowsTask
    <2>3. LoadedLinkIsKept'
      BY <1>9 DEF RunComplete, Goto, TypeOK, LinkInvariant, LoadedLinkIsKept
    <2> QED
      BY <2>1, <2>2, <2>3 DEF LinkInvariant
  <1>10. CASE RunRaise(r)
    BY <1>10, LinkRead DEF RunRaise
  <1>11. CASE FinishRead(r)
    BY <1>11, LinkRead DEF FinishRead, Ready, LinkInvariant, RunFollowsTask
  <1> QED
    BY <1>1, <1>2, <1>3, <1>4, <1>5, <1>6, <1>7, <1>8, <1>9, <1>10, <1>11
       DEF Proceed, Commits

LEMMA LinkNext == TypeOK /\ LinkInvariant /\ [Next]_vars => LinkInvariant'
  <1> SUFFICES ASSUME TypeOK, LinkInvariant, [Next]_vars PROVE LinkInvariant'
    OBVIOUS
  <1>1. ASSUME NEW r \in Requests, Enqueue(r)
        PROVE  LinkInvariant'
    BY <1>1, LinkCommit DEF Commits
  <1>2. ASSUME NEW r \in Requests, RetryRead(r) \/ CancelRead(r)
        PROVE  LinkInvariant'
    <2>1. Retryable(job[target[r]]) \in BOOLEAN /\ Cancelable(job[target[r]]) \in BOOLEAN
      BY DEF Retryable, Cancelable
    <2>2. run[r] = "none"
      BY <1>2 DEF RetryRead, CancelRead, Ready, LinkInvariant, RunFollowsTask
    <2> QED
      BY <1>2, <2>1, <2>2, LinkRead DEF RetryRead, CancelRead, HandlerPCs
  <1>3. ASSUME NEW r \in Requests, Proceed(r)
        PROVE  LinkInvariant'
    BY <1>3, LinkProceed
  <1>4. ASSUME NEW gone, Lose(gone)
        PROVE  LinkInvariant'
    BY <1>4 DEF Lose, TypeOK, LinkInvariant, LinkedRunEnded, RunFollowsTask,
                LoadedLinkIsKept, AbsentRow, HandlerPCs
  <1>5. CASE Quiet \/ UNCHANGED vars
    BY <1>5 DEF Quiet, vars, LinkInvariant, LinkedRunEnded, RunFollowsTask, LoadedLinkIsKept
  <1> QED
    BY <1>1, <1>2, <1>3, <1>4, <1>5 DEF Next, ProcessCrash, SessionFailure

LEMMA LinkInit == Init => LinkInvariant
  BY DEF Init, LinkInvariant, LinkedRunEnded, RunFollowsTask, LoadedLinkIsKept,
         AbsentRow, HandlerPCs

\* Whatever races, a succeeded job links an orchestration of its own that
\* has completed.
THEOREM LinksAreSound == Spec => []LinkedRunEnded
  <1>1. LinkInvariant => LinkedRunEnded
    BY DEF LinkInvariant
  <1> QED
    BY <1>1, TypeCorrect, LinkInit, LinkNext, PTL DEF Spec

\* No write of a stale copy takes a link back.
THEOREM LinksAreKept == Spec => LinkIsKept
  <1>1. TypeOK /\ LinkInvariant /\ [Next]_vars =>
           [\A j \in Jobs : job[j].orchestration_id # NoRun =>
                               job'[j].orchestration_id # NoRun]_vars
    <2> SUFFICES ASSUME TypeOK, LinkInvariant, Next
                 PROVE  \A j \in Jobs : job[j].orchestration_id # NoRun =>
                                           job'[j].orchestration_id # NoRun
      OBVIOUS
    <2>1. ASSUME NEW r \in Requests, Commits(r)
          PROVE  \A j \in Jobs : job[j].orchestration_id # NoRun =>
                                    job'[j].orchestration_id # NoRun
      BY <2>1, CommitLink, QueueAssumption DEF TypeOK
    <2>2. CASE UNCHANGED job
      BY <2>2
    <2>3. UNCHANGED job \/ \E r \in Requests : Commits(r)
      BY DEF Next, Proceed, Commits, WriteCheckpoint, AddTask, TaskRead, TaskRefresh,
             RunAccept, RunRefuse, RunStep, RunComplete, RunRaise, FinishRead,
             RetryRead, CancelRead, ProcessCrash, SessionFailure, Lose, Quiet, vars
    <2> QED
      BY <2>1, <2>2, <2>3
  <1> QED
    BY <1>1, TypeCorrect, LinkInit, LinkNext, PTL DEF Spec, LinkIsKept
-----------------------------------------------------------------------------
(* Queued jobs and their tasks *)

\* Only a request that goes on to add a task leaves a job queued by writing.
LEMMA CommitQueued ==
    ASSUME TypeOK, QueuedInvariant, NEW r \in Requests, Commits(r)
    PROVE  /\ \A j \in Jobs : j # target[r] => job'[j] = job[j]
           /\ job'[target[r]].status = "queued" =>
                 \/ pc' = [pc EXCEPT ![r] = "accepted"]
                 \/ /\ job[target[r]].status = "queued"
                    /\ pc[r] \notin {"accepted", "scheduled", "starting"}
           /\ \E there \in {"accepted", "started", "done"} : pc' = [pc EXCEPT ![r] = there]
  <1>1. PICK row, type, status :
              CommitWithEvent(r, row, type, status) /\ Assigns(r, row, type)
    BY CommitIs
  <1>2. row \in JobRow
    BY <1>1, AssignsType
  <1>3. loaded[r] \in JobRow /\ (pc[r] = "starting" => loaded[r].status = "queued")
    BY DEF TypeOK, QueuedInvariant, StartsOnQueued
  <1>4. \/ pc' = [pc EXCEPT ![r] = "accepted"]
        \/ /\ pc[r] \notin {"accepted", "scheduled", "starting"}
           /\ row.status # "queued" \/ row.status = loaded[r].status
        \/ row.status # "queued" /\ row.status # loaded[r].status
    BY <1>1, <1>3, AssignedColumns DEF Assigns
  <1>5. \E there \in {"accepted", "started", "done"} : pc' = [pc EXCEPT ![r] = there]
    BY <1>1 DEF Assigns
  <1>6. job'[target[r]].status =
           IF row.status = loaded[r].status THEN job[target[r]].status ELSE row.status
    BY <1>1, <1>2, CommitColumns
  <1>7. \A j \in Jobs : j # target[r] => job'[j] = job[j]
    BY <1>1, <1>2, CommitColumns
  <1> QED
    BY <1>4, <1>5, <1>6, <1>7

LEMMA QueuedCommit ==
    ASSUME TypeOK, QueuedInvariant, NEW r \in Requests, Commits(r)
    PROVE  QueuedInvariant'
  <1>1. PICK row, type, status :
              /\ CommitWithEvent(r, row, type, status)
              /\ Assigns(r, row, type)
              /\ UNCHANGED <<target, crashes>>
    BY CommitIs
  <1>2. PICK there \in {"accepted", "started", "done"} : pc' = [pc EXCEPT ![r] = there]
    BY CommitQueued
  <1>3. QueuedJobHasTask'
    <2> SUFFICES ASSUME crashes = 0, NEW j \in Jobs, job'[j].status = "queued"
                 PROVE  \E q \in Requests :
                           target[q] = j /\ pc'[q] \in {"accepted", "scheduled", "starting"}
      BY <1>1 DEF QueuedJobHasTask
    <2>1. CASE pc' = [pc EXCEPT ![r] = "accepted"] /\ j = target[r]
      BY <2>1 DEF TypeOK
    <2>2. CASE /\ job[j].status = "queued"
               /\ j = target[r] => pc[r] \notin {"accepted", "scheduled", "starting"}
      <3>1. PICK q \in Requests :
                    target[q] = j /\ pc[q] \in {"accepted", "scheduled", "starting"}
        BY <2>2 DEF QueuedInvariant, QueuedJobHasTask
      <3>2. q # r
        BY <2>2, <3>1
      <3> QED
        BY <1>2, <3>1, <3>2 DEF TypeOK
    <2> QED
      BY <2>1, <2>2, CommitQueued
  <1>4. StartsOnQueued'
    BY <1>1, <1>2 DEF QueuedInvariant, StartsOnQueued, CommitWithEvent, Expire, TypeOK
  <1> QED
    BY <1>3, <1>4 DEF QueuedInvariant

\* Steps that leave every job alone, keep r's task pending or had none.
LEMMA QueuedMove ==
    ASSUME TypeOK, QueuedInvariant, NEW r \in Requests, NEW there,
           UNCHANGED <<job, target, crashes>>,
           pc' = [pc EXCEPT ![r] = there],
           \A q \in Requests : q # r => loaded'[q] = loaded[q],
           \/ pc[r] \notin {"accepted", "scheduled", "starting"} /\ there # "starting"
           \/ there \in {"accepted", "scheduled"}
           \/ there = "starting" /\ loaded'[r].status = "queued"
           \/ job[target[r]].status # "queued" /\ there # "starting"
    PROVE  QueuedInvariant'
  <1>1. QueuedJobHasTask'
    BY DEF QueuedInvariant, QueuedJobHasTask, TypeOK
  <1>2. StartsOnQueued'
    BY DEF QueuedInvariant, StartsOnQueued, TypeOK
  <1> QED
    BY <1>1, <1>2 DEF QueuedInvariant

LEMMA QueuedProceed ==
    ASSUME TypeOK, QueuedInvariant, NEW r \in Requests, Proceed(r)
    PROVE  QueuedInvariant'
  <1> pc \in [Requests -> Active \cup {"idle", "done", "lost"}]
    BY DEF TypeOK
  <1>1. CASE WriteCheckpoint(r) \/ RunStep(r)
    BY <1>1 DEF WriteCheckpoint, RunStep, QueuedInvariant, QueuedJobHasTask, StartsOnQueued
  <1>2. CASE Commits(r)
    BY <1>2, QueuedCommit
  <1>3. CASE AddTask(r)
    BY <1>3, QueuedMove DEF AddTask, Ready, Goto
  <1>4. CASE TaskRead(r)
    BY <1>4, QueuedMove DEF TaskRead, Ready, Goto, ReadJob, TypeOK
  <1>5. CASE TaskRefresh(r) \/ RunRaise(r) \/ FinishRead(r)
    BY <1>5, QueuedMove DEF TaskRefresh, RunRaise, FinishRead, Ready, Goto, ReadJob, TypeOK
  <1>6. CASE RunAccept(r) \/ RunRefuse(r) \/ RunComplete(r)
    BY <1>6, QueuedMove DEF RunAccept, RunRefuse, RunComplete, Ready, Goto, Expire, TypeOK
  <1> QED
    BY <1>1, <1>2, <1>3, <1>4, <1>5, <1>6 DEF Proceed, Commits

LEMMA QueuedNext == TypeOK /\ QueuedInvariant /\ [Next]_vars => QueuedInvariant'
  <1> SUFFICES ASSUME TypeOK, QueuedInvariant, [Next]_vars PROVE QueuedInvariant'
    OBVIOUS
  <1>1. ASSUME NEW r \in Requests, Enqueue(r)
        PROVE  QueuedInvariant'
    BY <1>1, QueuedCommit DEF Commits
  <1>2. ASSUME NEW r \in Requests, RetryRead(r) \/ CancelRead(r)
        PROVE  QueuedInvariant'
    BY <1>2, QueuedMove DEF RetryRead, CancelRead, Ready, Goto, ReadJob, TypeOK
  <1>3. ASSUME NEW r \in Requests, Proceed(r)
        PROVE  QueuedInvariant'
    BY <1>3, QueuedProceed
  <1>4. ASSUME NEW gone, Lose(gone)
        PROVE  QueuedInvariant'
    BY <1>4 DEF Lose, TypeOK, QueuedInvariant, QueuedJobHasTask, StartsOnQueued
  <1>5. CASE Quiet \/ UNCHANGED vars
    BY <1>5 DEF Quiet, vars, QueuedInvariant, QueuedJobHasTask, StartsOnQueued
  <1> QED
    BY <1>1, <1>2, <1>3, <1>4, <1>5 DEF Next, ProcessCrash, SessionFailure

LEMMA QueuedInit == Init => QueuedInvariant
  BY DEF Init, QueuedInvariant, QueuedJobHasTask, StartsOnQueued, AbsentRow

\* Without a crash every queued job has a task that will pick it up.
THEOREM QueuedJobsHaveTasks == Spec => []QueuedJobHasTask
  <1>1. QueuedInvariant => QueuedJobHasTask
    BY DEF QueuedInvariant
  <1> QED
    BY <1>1, TypeCorrect, QueuedInit, QueuedNext, PTL DEF Spec
-----------------------------------------------------------------------------
(* Running jobs and their tasks *)

\* A commit leaves its job running only by starting it, or by not writing
\* the status column at all, and then r was no task the job relied on.
LEMMA CommitRunning ==
    ASSUME TypeOK, NEW r \in Requests, Commits(r)
    PROVE  /\ \A j \in Jobs : j # target[r] => job'[j] = job[j]
           /\ job'[target[r]].status = "running" =>
                 \/ pc' = [pc EXCEPT ![r] = "started"]
                 \/ job[target[r]].status = "running" /\ ~WillSettle(r)
  <1>1. PICK row, type, status :
              CommitWithEvent(r, row, type, status) /\ Assigns(r, row, type)
    BY CommitIs
  <1>2. row \in JobRow
    BY <1>1, AssignsType
  <1>3. loaded[r] \in JobRow
    BY DEF TypeOK
  <1>4. \/ pc' = [pc EXCEPT ![r] = "started"]
        \/ row.status = loaded[r].status /\ ~WillSettle(r)
        \/ row.status # "running" /\ row.status # loaded[r].status
    BY <1>1, <1>3, AssignedColumns DEF Assigns, WillSettle
  <1>5. job'[target[r]].status =
           IF row.status = loaded[r].status THEN job[target[r]].status ELSE row.status
    BY <1>1, <1>2, CommitColumns
  <1>6. \A j \in Jobs : j # target[r] => job'[j] = job[j]
    BY <1>1, <1>2, CommitColumns
  <1> QED
    BY <1>4, <1>5, <1>6

\* A task other than r's settles its job after a step of r if it did before.
LEMMA OthersSettle ==
    ASSUME NEW r, NEW q, pc'[q] = pc[q], loaded'[q] = loaded[q], WillSettle(q)
    PROVE  WillSettle(q)'
  BY DEF WillSettle, FinishedRow, StopsOnCancel, EndedRow

LEMMA RunningCommit ==
    ASSUME TypeOK, RunningJobHasWorker, NEW r \in Requests, Commits(r)
    PROVE  RunningJobHasWorker'
  <1>1. PICK row, type, status :
              /\ CommitWithEvent(r, row, type, status)
              /\ Assigns(r, row, type)
              /\ UNCHANGED <<target, crashes>>
    BY CommitIs
  <1>2. \A q \in Requests : q # r => pc'[q] = pc[q] /\ loaded'[q] = loaded[q]
    BY <1>1 DEF Assigns, CommitWithEvent, Expire, TypeOK
  <1> SUFFICES ASSUME crashes = 0, NEW j \in Jobs, job'[j].status = "running"
               PROVE  \E q \in Requests : target[q] = j /\ WillSettle(q)'
    BY <1>1 DEF RunningJobHasWorker
  <1>3. CASE pc' = [pc EXCEPT ![r] = "started"] /\ j = target[r]
    BY <1>3 DEF TypeOK, WillSettle
  <1>4. CASE job[j].status = "running" /\ (j = target[r] => ~WillSettle(r))
    <2>1. PICK q \in Requests : target[q] = j /\ WillSettle(q)
      BY <1>4 DEF RunningJobHasWorker
    <2>2. q # r
      BY <1>4, <2>1
    <2> QED
      BY <1>2, <2>1, <2>2, OthersSettle
  <1> QED
    BY <1>3, <1>4, CommitRunning

\* A step that writes no job keeps the invariant if r's task goes on.
LEMMA RunningMove ==
    ASSUME TypeOK, RunningJobHasWorker, NEW r \in Requests,
           UNCHANGED <<job, target, crashes>>,
           \A q \in Requests : q # r => pc'[q] = pc[q] /\ loaded'[q] = loaded[q],
           WillSettle(r) /\ job[target[r]].status = "running" => WillSettle(r)'
    PROVE  RunningJobHasWorker'
  <1> SUFFICES ASSUME crashes = 0, NEW j \in Jobs, job[j].status = "running"
               PROVE  \E q \in Requests : target[q] = j /\ WillSettle(q)'
    BY DEF RunningJobHasWorker
  <1>1. PICK q \in Requests : target[q] = j /\ WillSettle(q)
    BY DEF RunningJobHasWorker
  <1> QED
    BY <1>1, OthersSettle

LEMMA RunningProceed ==
    ASSUME TypeOK, RunningJobHasWorker, NEW r \in Requests, Proceed(r)
    PROVE  RunningJobHasWorker'
  <1> pc \in [Requests -> Active \cup {"idle", "done", "lost"}]
      /\ loaded \in [Requests -> JobRow]
    BY DEF TypeOK
  <1>1. CASE WriteCheckpoint(r) \/ RunStep(r)
    <2>1. WillSettle(r) => WillSettle(r)'
      BY <1>1, OthersSettle DEF WriteCheckpoint, RunStep
    <2> QED
      BY <1>1, <2>1, RunningMove DEF WriteCheckpoint, RunStep
  <1>2. CASE Commits(r)
    BY <1>2, RunningCommit
  <1>3. CASE AddTask(r) \/ TaskRead(r)
    <2>1. ~WillSettle(r)
      BY <1>3 DEF AddTask, TaskRead, Ready, WillSettle
    <2> QED
      BY <1>3, <2>1, RunningMove DEF AddTask, TaskRead, ReadJob, Goto
  <1>4. CASE TaskRefresh(r) \/ RunRaise(r)
    <2>1. job[target[r]].status = "running" => WillSettle(r)'
      BY <1>4 DEF TaskRefresh, RunRaise, ReadJob, Goto, WillSettle
    <2> QED
      BY <1>4, <2>1, RunningMove DEF TaskRefresh, RunRaise, ReadJob, Goto
  <1>5. CASE FinishRead(r)
    <2>1. job[target[r]].status = "running" => WillSettle(r)'
      <3>1. job[target[r]] \in JobRow
        BY DEF TypeOK
      <3>2. pc'[r] = "finishing" /\ loaded'[r] = job[target[r]]
        BY <1>5 DEF FinishRead, ReadJob, Goto
      <3>3. FinishedRow(r, loaded'[r]).status # "running"
        BY <3>1, <3>2, AssignedColumns
      <3> QED
        BY <3>2, <3>3 DEF WillSettle
    <2> QED
      BY <1>5, <2>1, RunningMove DEF FinishRead, ReadJob, Goto
  <1>6. CASE RunAccept(r) \/ RunComplete(r)
    <2>1. WillSettle(r)'
      BY <1>6 DEF RunAccept, RunComplete, Goto, WillSettle
    <2> QED
      BY <1>6, <2>1, RunningMove DEF RunAccept, RunComplete, Goto, Expire
  <1>7. CASE RunRefuse(r)
    <2>1. WillSettle(r) => WillSettle(r)'
      BY <1>7 DEF RunRefuse, Ready, Goto, WillSettle
    <2> QED
      BY <1>7, <2>1, RunningMove DEF RunRefuse, Goto
  <1> QED
    BY <1>1, <1>2, <1>3, <1>4, <1>5, <1>6, <1>7 DEF Proceed, Commits

LEMMA RunningNext == TypeOK /\ RunningJobHasWorker /\ [Next]_vars => RunningJobHasWorker'
  <1> SUFFICES ASSUME TypeOK, RunningJobHasWorker, [Next]_vars
               PROVE  RunningJobHasWorker'
    OBVIOUS
  <1>1. ASSUME NEW r \in Requests, Enqueue(r)
        PROVE  RunningJobHasWorker'
    BY <1>1, RunningCommit DEF Commits
  <1>2. ASSUME NEW r \in Requests, RetryRead(r) \/ CancelRead(r)
        PROVE  RunningJobHasWorker'
    <2>1. ~WillSettle(r)
      BY <1>2 DEF RetryRead, CancelRead, Ready, WillSettle
    <2> QED
      BY <1>2, <2>1, RunningMove DEF RetryRead, CancelRead, ReadJob, Goto, TypeOK
  <1>3. ASSUME NEW r \in Requests, Proceed(r)
        PROVE  RunningJobHasWorker'
    BY <1>3, RunningProceed
  <1>4. ASSUME NEW gone, Lose(gone)
        PROVE  RunningJobHasWorker'
    BY <1>4 DEF Lose, TypeOK, RunningJobHasWorker
  <1>5. CASE Quiet \/ UNCHANGED vars
    <2>1. \A r \in Requests : WillSettle(r) => WillSettle(r)'
      BY <1>5, OthersSettle DEF Quiet, vars
    <2> QED
      BY <1>5, <2>1 DEF Quiet, vars, RunningJobHasWorker
  <1> QED
    BY <1>1, <1>2, <1>3, <1>4, <1>5 DEF Next, ProcessCrash, SessionFailure

LEMMA RunningInit == Init => RunningJobHasWorker
  BY DEF Init, RunningJobHasWorker, AbsentRow

\* Without a crash every running job has a task that will end it.
THEOREM RunningJobsHaveWorkers == Spec => []RunningJobHasWorker
  BY TypeCorrect, RunningInit, RunningNext, PTL DEF Spec
-----------------------------------------------------------------------------
(* Attempts and the timeline *)

LEMMA StartEventsFinite ==
    ASSUME IsFiniteSet(events), NEW j
    PROVE  IsFiniteSet(StartEvents(j)) /\ Cardinality(StartEvents(j)) \in Nat
  BY FS_Subset, FS_CardinalityType DEF StartEvents

\* Events are only added, so no count goes down; a task's own start is new.
LEMMA CommitCounts ==
    ASSUME TypeOK, AttemptInvariant, NEW r \in Requests,
           NEW row, NEW type, NEW status,
           CommitWithEvent(r, row, type, status), Assigns(r, row, type)
    PROVE  /\ IsFiniteSet(events')
           /\ \A j \in Jobs : Cardinality(StartEvents(j)) <= Cardinality(StartEvents(j)')
           /\ \A j \in Jobs : Cardinality(StartEvents(j)') \in Nat
           /\ \A j \in Jobs : type = "started" /\ j = target[r] =>
                 Cardinality(StartEvents(j)') = Cardinality(StartEvents(j)) + 1
  <1> DEFINE e == [job |-> target[r], request |-> r, type |-> type, status |-> status]
  <1>1. events' = events \cup {e} /\ IsFiniteSet(events)
    BY DEF CommitWithEvent, AttemptInvariant
  <1>2. IsFiniteSet(events')
    BY <1>1, FS_AddElement
  <1>3. ASSUME NEW j \in Jobs
        PROVE  /\ Cardinality(StartEvents(j)) <= Cardinality(StartEvents(j)')
               /\ Cardinality(StartEvents(j)') \in Nat
    <2>1. StartEvents(j) \subseteq StartEvents(j)' /\ StartEvents(j)' \subseteq events'
      BY <1>1 DEF StartEvents
    <2>2. IsFiniteSet(StartEvents(j)')
      BY <1>2, <2>1, FS_Subset
    <2> QED
      BY <2>1, <2>2, FS_Subset, FS_CardinalityType
  <1>4. ASSUME type = "started", NEW j \in Jobs, j = target[r]
        PROVE  Cardinality(StartEvents(j)') = Cardinality(StartEvents(j)) + 1
    <2>1. e \notin StartEvents(j)
      <3>1. pc[r] = "starting"
        BY <1>4, AssignedColumns DEF Assigns, TypeOK
      <3> QED
        BY <3>1 DEF StartEvents, AttemptInvariant
    <2>2. StartEvents(j)' = StartEvents(j) \cup {e}
      BY <1>1, <1>4 DEF StartEvents
    <2>3. IsFiniteSet(StartEvents(j))
      BY <1>1, StartEventsFinite
    <2> QED
      BY <2>1, <2>2, <2>3, FS_AddElement
  <1> QED
    BY <1>2, <1>3, <1>4

LEMMA AttemptCommit ==
    ASSUME TypeOK, AttemptInvariant, NEW r \in Requests, Commits(r)
    PROVE  AttemptInvariant'
  <1>1. PICK row, type, status :
              /\ CommitWithEvent(r, row, type, status)
              /\ Assigns(r, row, type)
              /\ UNCHANGED target
    BY CommitIs
  <1>2. row \in JobRow /\ loaded[r] \in JobRow
    BY <1>1, AssignsType DEF TypeOK
  <1>3. /\ \A j \in Jobs : job'[j].attempts \in Nat /\ job[j].attempts \in Nat
        /\ \A q \in Requests : loaded[q].attempts \in Nat /\ target[q] \in Jobs
    BY CommitsType DEF TypeOK, JobRow
  <1>4. \A j \in Jobs : Cardinality(StartEvents(j)) \in Nat
    BY StartEventsFinite DEF AttemptInvariant
  <1>5. \/ row.attempts = loaded[r].attempts
        \/ row.attempts = 0
        \/ row.attempts = loaded[r].attempts + 1 /\ type = "started"
    BY <1>1, <1>2, AssignedColumns DEF Assigns
  <1>6. AttemptsAreOnTimeline'
    <2> SUFFICES ASSUME NEW j \in Jobs
                 PROVE  job'[j].attempts <= Cardinality(StartEvents(j)')
      BY DEF AttemptsAreOnTimeline
    <2>1. /\ job[j].attempts <= Cardinality(StartEvents(j))
          /\ loaded[r].attempts <= Cardinality(StartEvents(target[r]))
      BY DEF AttemptInvariant, AttemptsAreOnTimeline
    <2>2. /\ Cardinality(StartEvents(j)) <= Cardinality(StartEvents(j)')
          /\ Cardinality(StartEvents(j)') \in Nat
          /\ type = "started" /\ j = target[r] =>
                Cardinality(StartEvents(j)') = Cardinality(StartEvents(j)) + 1
      BY <1>1, CommitCounts
    <2>3. CASE j # target[r]
      <3>1. job'[j] = job[j]
        BY <1>1, <1>2, <2>3, CommitColumns
      <3> QED
        BY <3>1, <2>1, <2>2, <1>3, <1>4
    <2>4. CASE j = target[r]
      <3>1. job'[j].attempts = job[j].attempts \/ job'[j].attempts = row.attempts
        BY <1>1, <1>2, <2>4, CommitColumns
      <3> QED
        BY <3>1, <2>1, <2>2, <2>4, <1>3, <1>4, <1>5
    <2> QED
      BY <2>3, <2>4
  <1>7. IsFiniteSet(events')
    BY <1>1, CommitCounts
  <1>8. \A q \in Requests : loaded'[q].attempts <= Cardinality(StartEvents(target[q])')
    <2> SUFFICES ASSUME NEW q \in Requests, NEW j \in Jobs, j = target[q]
                 PROVE  loaded'[q].attempts <= Cardinality(StartEvents(j)')
      BY <1>1, <1>3 DEF StartEvents
    <2>1. /\ Cardinality(StartEvents(j)) <= Cardinality(StartEvents(j)')
          /\ Cardinality(StartEvents(j)') \in Nat
      BY <1>1, CommitCounts
    <2>2. CASE q = r
      <3>1. loaded'[q].attempts = 0
        BY <1>1, <1>2, <2>2, CommitColumns DEF AbsentRow
      <3> QED
        BY <3>1, <2>1
    <2>3. CASE q # r
      <3>1. loaded'[q] = loaded[q] /\ loaded[q].attempts <= Cardinality(StartEvents(j))
        BY <1>1, <1>2, <2>3, CommitColumns DEF AttemptInvariant
      <3> QED
        BY <3>1, <2>1, <1>3, <1>4
    <2> QED
      BY <2>2, <2>3
  <1>9. \A e \in events' : e.type = "started" =>
           pc'[e.request] \in {"started", "preparing", "executing", "ran",
                               "finishing", "failing", "done", "lost"}
    <2> SUFFICES ASSUME NEW e \in events', e.type = "started"
                 PROVE  pc'[e.request] \in {"started", "preparing", "executing", "ran",
                                            "finishing", "failing", "done", "lost"}
      OBVIOUS
    <2>1. CASE e \in events
      <3>1. pc[e.request] \in {"started", "preparing", "executing", "ran",
                               "finishing", "failing", "done", "lost"}
        BY <2>1 DEF AttemptInvariant
      <3>2. e.request \in Requests
        BY <2>1 DEF TypeOK, QueueEvent
      <3>3. CASE e.request # r
        BY <1>1, <3>1, <3>2, <3>3 DEF Assigns, TypeOK
      <3>4. CASE e.request = r
        <4>1. pc' = [pc EXCEPT ![r] = "done"]
          BY <1>1, <3>1, <3>4 DEF Assigns
        <4> QED
          BY <3>4, <4>1 DEF TypeOK
      <3> QED
        BY <3>3, <3>4
    <2>2. CASE e \notin events
      <3>1. e.request = r /\ e.type = type
        BY <1>1, <2>2 DEF CommitWithEvent
      <3>2. pc' = [pc EXCEPT ![r] = "started"]
        BY <1>1, <1>2, <3>1, AssignedColumns DEF Assigns
      <3> QED
        BY <3>1, <3>2 DEF TypeOK
    <2> QED
      BY <2>1, <2>2
  <1> QED
    BY <1>6, <1>7, <1>8, <1>9 DEF AttemptInvariant

\* Steps that add no event: copies are taken from rows or dropped.
LEMMA AttemptMove ==
    ASSUME TypeOK, AttemptInvariant, UNCHANGED <<job, events, target>>,
           \A q \in Requests : \/ loaded'[q] \in {loaded[q], job[target[q]], AbsentRow},
           \A q \in Requests :
              \/ pc'[q] = pc[q]
              \/ pc[q] \in {"idle", "accepted", "scheduled"} \cup HandlerPCs
              \/ pc'[q] \in {"started", "preparing", "executing", "ran",
                             "finishing", "failing", "done", "lost"}
    PROVE  AttemptInvariant'
  <1>1. \A j \in Jobs : StartEvents(j)' = StartEvents(j)
    BY DEF StartEvents
  <1>2. \A j \in Jobs : Cardinality(StartEvents(j)) \in Nat
    BY StartEventsFinite DEF AttemptInvariant
  <1>3. AttemptsAreOnTimeline'
    BY <1>1 DEF AttemptInvariant, AttemptsAreOnTimeline
  <1>4. \A q \in Requests : loaded'[q].attempts <= Cardinality(StartEvents(target[q])')
    <2> SUFFICES ASSUME NEW q \in Requests, NEW j \in Jobs, j = target[q]
                 PROVE  loaded'[q].attempts <= Cardinality(StartEvents(j))
      BY <1>1 DEF TypeOK, StartEvents
    <2>1. /\ loaded[q].attempts <= Cardinality(StartEvents(j))
          /\ job[j].attempts <= Cardinality(StartEvents(j))
          /\ AbsentRow.attempts = 0
      BY DEF AttemptInvariant, AttemptsAreOnTimeline, AbsentRow
    <2> QED
      BY <2>1, <1>2
  <1>5. \A e \in events' : e.type = "started" =>
           pc'[e.request] \in {"started", "preparing", "executing", "ran",
                               "finishing", "failing", "done", "lost"}
    BY DEF AttemptInvariant, TypeOK, QueueEvent, HandlerPCs
  <1> QED
    BY <1>3, <1>4, <1>5 DEF AttemptInvariant

LEMMA AttemptProceed ==
    ASSUME TypeOK, AttemptInvariant, NEW r \in Requests, Proceed(r)
    PROVE  AttemptInvariant'
  <1> pc \in [Requests -> Active \cup {"idle", "done", "lost"}]
      /\ loaded \in [Requests -> JobRow]
    BY DEF TypeOK
  <1>1. CASE Commits(r)
    BY <1>1, AttemptCommit
  <1>2. CASE WriteCheckpoint(r) \/ AddTask(r) \/ RunRefuse(r) \/ RunStep(r) \/ RunComplete(r)
    BY <1>2, AttemptMove DEF WriteCheckpoint, AddTask, RunRefuse, RunStep, RunComplete,
                             Ready, Goto
  <1>3. CASE TaskRead(r)
    BY <1>3, AttemptMove DEF TaskRead, Ready, ReadJob, Goto
  <1>4. CASE TaskRefresh(r) \/ RunRaise(r) \/ FinishRead(r)
    BY <1>4, AttemptMove DEF TaskRefresh, RunRaise, FinishRead, ReadJob, Goto
  <1>5. CASE RunAccept(r)
    BY <1>5, AttemptMove DEF RunAccept, Expire, Goto
  <1> QED
    BY <1>1, <1>2, <1>3, <1>4, <1>5 DEF Proceed, Commits

LEMMA AttemptNext == TypeOK /\ AttemptInvariant /\ [Next]_vars => AttemptInvariant'
  <1> SUFFICES ASSUME TypeOK, AttemptInvariant, [Next]_vars
               PROVE  AttemptInvariant'
    OBVIOUS
  <1>1. ASSUME NEW r \in Requests, Enqueue(r)
        PROVE  AttemptInvariant'
    BY <1>1, AttemptCommit DEF Commits
  <1>2. ASSUME NEW r \in Requests, RetryRead(r) \/ CancelRead(r)
        PROVE  AttemptInvariant'
    BY <1>2, AttemptMove DEF RetryRead, CancelRead, Ready, ReadJob, Goto, TypeOK
  <1>3. ASSUME NEW r \in Requests, Proceed(r)
        PROVE  AttemptInvariant'
    BY <1>3, AttemptProceed
  <1>4. ASSUME NEW gone, Lose(gone)
        PROVE  AttemptInvariant'
    BY <1>4, AttemptMove DEF Lose, TypeOK
  <1>5. CASE Quiet \/ UNCHANGED vars
    BY <1>5, AttemptMove DEF Quiet, vars
  <1> QED
    BY <1>1, <1>2, <1>3, <1>4, <1>5 DEF Next, ProcessCrash, SessionFailure

LEMMA AttemptInit == Init => AttemptInvariant
  <1> SUFFICES ASSUME Init PROVE AttemptInvariant
    OBVIOUS
  <1>1. \A j : StartEvents(j) = {}
    BY DEF Init, StartEvents
  <1>2. \A j : Cardinality(StartEvents(j)) = 0
    BY <1>1, FS_EmptySet
  <1> QED
    BY <1>2, FS_EmptySet DEF Init, AttemptInvariant, AttemptsAreOnTimeline, AbsentRow

\* No attempt is counted that the timeline does not show.
THEOREM AttemptsAreShown == Spec => []AttemptsAreOnTimeline
  <1>1. AttemptInvariant => AttemptsAreOnTimeline
    BY DEF AttemptInvariant
  <1> QED
    BY <1>1, TypeCorrect, AttemptInit, AttemptNext, PTL DEF Spec
-----------------------------------------------------------------------------
(* Events and their checkpoints *)

\* Steps that commit no event and write no checkpoint.
LEMMA TrailMove ==
    ASSUME TypeOK, TrailInvariant, UNCHANGED <<events, checkpoints, target>>,
           \A q \in Requests : \/ due'[q] = due[q] /\ (pc[q] = "lost" => pc'[q] = "lost")
                               \/ due'[q] = "none" /\ pc'[q] = "lost"
    PROVE  TrailInvariant'
  <1>1. \A e \in events : e.request \in Requests /\ e.type # "none"
    BY DEF TypeOK, QueueEvent, EventTypes
  <1>2. EventsAreCheckpointed'
    BY <1>1 DEF TrailInvariant, EventsAreCheckpointed
  <1>3. \A r \in Requests : due'[r] # "none" =>
           \E e \in events : e.job = target[r] /\ e.request = r /\ e.type = due'[r]
    BY DEF TrailInvariant
  <1> QED
    BY <1>2, <1>3 DEF TrailInvariant

LEMMA TrailCommit ==
    ASSUME TypeOK, TrailInvariant, NEW r \in Requests, Commits(r)
    PROVE  TrailInvariant'
  <1>1. PICK row, type, status :
              /\ CommitWithEvent(r, row, type, status)
              /\ Assigns(r, row, type)
              /\ due[r] = "none"
              /\ UNCHANGED <<checkpoints, target>>
    BY CommitIs
  <1> DEFINE new == [job |-> target[r], request |-> r, type |-> type, status |-> status]
  <1>2. events' = events \cup {new} /\ due' = [due EXCEPT ![r] = type]
    BY <1>1 DEF CommitWithEvent
  <1>3. due'[r] = type /\ \A q \in Requests : q # r => due'[q] = due[q]
    BY <1>2 DEF TypeOK
  <1>4. \A q \in Requests : pc[q] = "lost" => pc'[q] = "lost"
    BY <1>1 DEF Assigns, TypeOK
  <1>5. \A e \in events : e.request \in Requests /\ e.type # "none"
    BY DEF TypeOK, QueueEvent, EventTypes
  <1>6. new.request = r /\ new.type = type /\ new.job = target[r]
    OBVIOUS
  <1> HIDE DEF new
  <1>7. EventsAreCheckpointed'
    <2>1. ASSUME NEW e \in events'
          PROVE  \/ \E c \in checkpoints : c.request = e.request /\ c.type = e.type
                 \/ due'[e.request] = e.type
                 \/ pc'[e.request] = "lost"
      <3>1. CASE e = new
        BY <3>1, <1>3, <1>6
      <3>2. CASE e \in events
        BY <3>2, <1>1, <1>3, <1>4, <1>5 DEF TrailInvariant, EventsAreCheckpointed
      <3> QED
        BY <3>1, <3>2, <1>2
    <2>2. \A c \in checkpoints :
             \E e \in events' : e.job = c.job /\ e.request = c.request /\ e.type = c.type
      BY <1>2 DEF TrailInvariant, EventsAreCheckpointed
    <2> QED
      BY <2>1, <2>2, <1>1 DEF EventsAreCheckpointed
  <1>8. \A q \in Requests : due'[q] # "none" =>
           \E e \in events' : e.job = target[q] /\ e.request = q /\ e.type = due'[q]
    BY <1>2, <1>3, <1>6 DEF TrailInvariant
  <1> QED
    BY <1>1, <1>7, <1>8 DEF TrailInvariant

LEMMA TrailCheckpoint ==
    ASSUME TypeOK, TrailInvariant, NEW r \in Requests, WriteCheckpoint(r)
    PROVE  TrailInvariant'
  <1> DEFINE new == [job |-> target[r], request |-> r, type |-> due[r],
                     status |-> job[target[r]].status]
  <1>1. /\ checkpoints' = checkpoints \cup {new}
        /\ due' = [due EXCEPT ![r] = "none"]
        /\ due[r] # "none"
        /\ UNCHANGED <<events, pc, target>>
    BY DEF WriteCheckpoint
  <1>2. due'[r] = "none" /\ \A q \in Requests : q # r => due'[q] = due[q]
    BY <1>1 DEF TypeOK
  <1>3. new.request = r /\ new.type = due[r] /\ new.job = target[r]
    OBVIOUS
  <1>4. \A e \in events : e.request \in Requests
    BY DEF TypeOK, QueueEvent
  <1>5. PICK e \in events : e.job = target[r] /\ e.request = r /\ e.type = due[r]
    BY <1>1 DEF TrailInvariant
  <1> HIDE DEF new
  <1>6. EventsAreCheckpointed'
    <2>1. ASSUME NEW f \in events
          PROVE  \/ \E c \in checkpoints' : c.request = f.request /\ c.type = f.type
                 \/ due'[f.request] = f.type
                 \/ pc[f.request] = "lost"
      <3>1. CASE f.request = r /\ f.type = due[r]
        BY <3>1, <1>1, <1>3
      <3>2. CASE f.request # r \/ f.type # due[r]
        BY <3>2, <1>1, <1>2, <1>4 DEF TrailInvariant, EventsAreCheckpointed
      <3> QED
        BY <3>1, <3>2
    <2>2. \A c \in checkpoints' :
             \E f \in events : f.job = c.job /\ f.request = c.request /\ f.type = c.type
      BY <1>1, <1>3, <1>5 DEF TrailInvariant, EventsAreCheckpointed
    <2> QED
      BY <2>1, <2>2, <1>1 DEF EventsAreCheckpointed
  <1>7. \A q \in Requests : due'[q] # "none" =>
           \E f \in events : f.job = target[q] /\ f.request = q /\ f.type = due'[q]
    BY <1>2 DEF TrailInvariant
  <1> QED
    BY <1>1, <1>6, <1>7 DEF TrailInvariant

LEMMA TrailNext == TypeOK /\ TrailInvariant /\ [Next]_vars => TrailInvariant'
  <1> SUFFICES ASSUME TypeOK, TrailInvariant, [Next]_vars
               PROVE  TrailInvariant'
    OBVIOUS
  <1> pc \in [Requests -> Active \cup {"idle", "done", "lost"}]
    BY DEF TypeOK
  <1>1. ASSUME NEW r \in Requests, Commits(r)
        PROVE  TrailInvariant'
    BY <1>1, TrailCommit
  <1>2. ASSUME NEW r \in Requests, WriteCheckpoint(r)
        PROVE  TrailInvariant'
    BY <1>2, TrailCheckpoint
  <1>3. ASSUME NEW r \in Requests, RetryRead(r) \/ CancelRead(r) \/ TaskRead(r)
                                   \/ TaskRefresh(r) \/ RunRaise(r) \/ FinishRead(r)
        PROVE  TrailInvariant'
    BY <1>3, TrailMove DEF RetryRead, CancelRead, TaskRead, TaskRefresh, RunRaise,
                           FinishRead, Ready, ReadJob, Goto
  <1>4. ASSUME NEW r \in Requests, AddTask(r) \/ RunAccept(r) \/ RunRefuse(r)
                                   \/ RunStep(r) \/ RunComplete(r)
        PROVE  TrailInvariant'
    BY <1>4, TrailMove DEF AddTask, RunAccept, RunRefuse, RunStep, RunComplete, Ready, Goto
  <1>5. ASSUME NEW gone, Lose(gone)
        PROVE  TrailInvariant'
    BY <1>5, TrailMove DEF Lose
  <1>6. CASE Quiet \/ UNCHANGED vars
    BY <1>6, TrailMove DEF Quiet, vars
  <1> QED
    BY <1>1, <1>2, <1>3, <1>4, <1>5, <1>6
       DEF Next, Proceed, Commits, ProcessCrash, SessionFailure

LEMMA TrailInit == Init => TrailInvariant
  BY DEF Init, TrailInvariant, EventsAreCheckpointed

\* An event lacks its checkpoint only before its request has written it, or
\* when the request died in between.
THEOREM TrailIsComplete == Spec => []EventsAreCheckpointed
  <1>1. TrailInvariant => EventsAreCheckpointed
    BY DEF TrailInvariant
  <1> QED
    BY <1>1, TypeCorrect, TrailInit, TrailNext, PTL DEF Spec
=============================================================================
