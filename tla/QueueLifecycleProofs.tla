------------------------ MODULE QueueLifecycleProofs ------------------------
(***************************************************************************)
(* Without races the queue implements QueueLifecycle.                      *)
(***************************************************************************)
EXTENDS OrchestrationQueueProofs

LEMMA WholeRow ==
    ASSUME NEW row \in JobRow
    PROVE  row = [status |-> row.status, attempts |-> row.attempts,
                  cancel_requested |-> row.cancel_requested,
                  orchestration_id |-> row.orchestration_id]
  BY DEF JobRow

\* A decision on the row as it is becomes the row.
LEMMA FlushOfRow ==
    ASSUME NEW row \in JobRow, NEW after \in JobRow
    PROVE  Flush(row, row, after) = after
  <1>1. Flush(row, row, after) = [status |-> after.status, attempts |-> after.attempts,
                                  cancel_requested |-> after.cancel_requested,
                                  orchestration_id |-> after.orchestration_id]
    BY DEF Flush
  <1> QED
    BY <1>1, WholeRow

\* A status written alone leaves the other columns as they are.
LEMMA FlushOfStatus ==
    ASSUME NEW row \in JobRow, NEW before \in JobRow, NEW s \in JobStatus,
           s # before.status
    PROVE  Flush(row, before, EndedRow(before, s)) = EndedRow(row, s)
  <1>1. Flush(row, before, EndedRow(before, s)) =
           [status |-> s, attempts |-> row.attempts,
            cancel_requested |-> row.cancel_requested,
            orchestration_id |-> row.orchestration_id]
    BY DEF Flush, EndedRow, JobRow
  <1>2. EndedRow(row, s) \in JobRow
    BY DEF EndedRow, JobRow
  <1> QED
    BY <1>1, <1>2, WholeRow DEF EndedRow, JobRow

LEMMA EndedColumns ==
    ASSUME NEW row \in JobRow, NEW s
    PROVE  /\ EndedRow(row, s).status = s
           /\ EndedRow(row, s).attempts = row.attempts
           /\ EndedRow(row, s).cancel_requested = row.cancel_requested
           /\ EndedRow(row, s).orchestration_id = row.orchestration_id
  BY DEF EndedRow, JobRow

LEMMA DecidedColumns ==
    ASSUME NEW row \in JobRow
    PROVE  /\ RetriedRow(row).status = "queued"
           /\ RetriedRow(row).attempts = row.attempts
           /\ RetriedRow(row).cancel_requested = FALSE
           /\ CanceledRow(row).status = IF row.status = "queued" THEN "canceled" ELSE row.status
           /\ CanceledRow(row).attempts = row.attempts
           /\ CanceledRow(row).cancel_requested = TRUE
           /\ StartedRow(row).status = "running"
           /\ StartedRow(row).attempts = row.attempts + 1
           /\ StartedRow(row).cancel_requested = row.cancel_requested
  <1>1. /\ RetriedRow(row).status = "queued"
        /\ RetriedRow(row).attempts = row.attempts
        /\ RetriedRow(row).cancel_requested = FALSE
    BY DEF RetriedRow, JobRow
  <1>2. /\ CanceledRow(row).status = IF row.status = "queued" THEN "canceled" ELSE row.status
        /\ CanceledRow(row).attempts = row.attempts
        /\ CanceledRow(row).cancel_requested = TRUE
    BY DEF CanceledRow, JobRow
  <1>3. /\ StartedRow(row).status = "running"
        /\ StartedRow(row).attempts = row.attempts + 1
        /\ StartedRow(row).cancel_requested = row.cancel_requested
    BY DEF StartedRow, JobRow
  <1> QED
    BY <1>1, <1>2, <1>3

LEMMA FinishedColumns ==
    ASSUME NEW row \in JobRow, NEW r \in Requests
    PROVE  /\ row.status = "running" =>
                 FinishedRow(r, row).status =
                    IF row.cancel_requested THEN "canceled" ELSE "succeeded"
           /\ FinishedRow(r, row).attempts = row.attempts
           /\ FinishedRow(r, row).cancel_requested = row.cancel_requested
           /\ FinishedRow(r, row).status = "succeeded" => FinishedRow(r, row).orchestration_id = r
  BY DEF FinishedRow, StopsOnCancel, EndedRow, JobRow
-----------------------------------------------------------------------------
\* What a commit makes of the row it decides on, from where to where.
Becomes(r, row, new) ==
    \/ /\ pc[r] = "idle" /\ pc' = [pc EXCEPT ![r] = "accepted"]
       /\ row.status = "absent" /\ new = EndedRow(row, "queued")
    \/ /\ pc[r] = "retrying" /\ pc' = [pc EXCEPT ![r] = "accepted"]
       /\ Retryable(row) /\ new = RetriedRow(row)
    \/ /\ pc[r] = "cancelling" /\ pc' = [pc EXCEPT ![r] = "done"]
       /\ Cancelable(row) /\ new = CanceledRow(row)
    \/ /\ pc[r] = "starting" /\ pc' = [pc EXCEPT ![r] = "started"]
       /\ row.status = "queued" /\ ~row.cancel_requested /\ new = StartedRow(row)
    \/ /\ pc[r] = "starting" /\ pc' = [pc EXCEPT ![r] = "done"]
       /\ row.status = "queued" /\ row.cancel_requested /\ new = EndedRow(row, "canceled")
    \/ /\ pc[r] = "finishing" /\ pc' = [pc EXCEPT ![r] = "done"]
       /\ row.status = "running" /\ new = FinishedRow(r, row)
    \/ /\ pc[r] = "failing" /\ pc' = [pc EXCEPT ![r] = "done"]
       /\ row.status = "running" /\ new = EndedRow(row, "failed")

LEMMA CommitInPlace ==
    ASSUME TypeOK, LinkInvariant, SequentialInvariant, NEW r \in Requests, Commits(r)
    PROVE  \E new \in JobRow :
              /\ Becomes(r, job[target[r]], new)
              /\ job' = [job EXCEPT ![target[r]] = new]
              /\ loaded' = [loaded EXCEPT ![r] = AbsentRow]
              /\ UNCHANGED <<run, target, step, curtailed>>
  <1> DEFINE row == job[target[r]]
  <1>1. /\ row \in JobRow /\ loaded[r] \in JobRow
        /\ {"queued", "canceled", "failed"} \subseteq JobStatus
    BY DEF TypeOK, JobStatus, Statuses
  <1>2. /\ DecidesOnRow(r)
        /\ pc[r] = "idle" => loaded[r] = AbsentRow
    BY DEF SequentialInvariant, LinkInvariant, LoadedLinkIsKept
  <1>3. CASE Enqueue(r)
    <2>1. NewRow = EndedRow(AbsentRow, "queued")
      BY DEF NewRow, EndedRow
    <2>2. Flush(row, AbsentRow, NewRow) = EndedRow(row, "queued")
      BY <1>1, <2>1, AbsentType, FlushOfStatus DEF AbsentRow
    <2>3. EndedRow(row, "queued") \in JobRow
      BY <1>1, RowTypes
    <2> QED
      BY <1>2, <1>3, <2>2, <2>3 DEF Enqueue, Ready, Goto, CommitWithEvent, Expire, Becomes
  <1>4. CASE RetryCommit(r)
    <2>1. RetriedRow(row) \in JobRow
      BY <1>1, RowTypes
    <2>2. loaded[r] = row /\ Retryable(row)
      BY <1>2, <1>4 DEF RetryCommit, Ready, DecidesOnRow
    <2>3. Flush(row, row, RetriedRow(row)) = RetriedRow(row)
      BY <1>1, <2>1, FlushOfRow
    <2> QED
      BY <1>4, <2>1, <2>2, <2>3 DEF RetryCommit, Ready, Goto, CommitWithEvent, Expire, Becomes
  <1>5. CASE CancelCommit(r)
    <2>1. CanceledRow(row) \in JobRow
      BY <1>1, RowTypes
    <2>2. loaded[r] = row /\ Cancelable(row)
      BY <1>2, <1>5 DEF CancelCommit, Ready, DecidesOnRow
    <2>3. Flush(row, row, CanceledRow(row)) = CanceledRow(row)
      BY <1>1, <2>1, FlushOfRow
    <2> QED
      BY <1>5, <2>1, <2>2, <2>3 DEF CancelCommit, Ready, Goto, CommitWithEvent, Expire, Becomes
  <1>6. CASE TaskStart(r)
    <2>1. StartedRow(row) \in JobRow
      BY <1>1, RowTypes
    <2>2. loaded[r] = row /\ row.status = "queued"
      BY <1>2, <1>6 DEF TaskStart, Ready, DecidesOnRow
    <2>3. Flush(row, row, StartedRow(row)) = StartedRow(row)
      BY <1>1, <2>1, FlushOfRow
    <2> QED
      BY <1>6, <2>1, <2>2, <2>3 DEF TaskStart, Ready, Goto, CommitWithEvent, Expire, Becomes
  <1>7. CASE TaskCancelBeforeStart(r)
    <2>1. EndedRow(row, "canceled") \in JobRow
      BY <1>1, RowTypes
    <2>2. loaded[r] = row /\ row.status = "queued"
      BY <1>2, <1>7 DEF TaskCancelBeforeStart, Ready, DecidesOnRow
    <2>3. Flush(row, row, EndedRow(row, "canceled")) = EndedRow(row, "canceled")
      BY <1>1, <2>1, FlushOfRow
    <2> QED
      BY <1>7, <2>1, <2>2, <2>3
         DEF TaskCancelBeforeStart, Ready, Goto, CommitWithEvent, Expire, Becomes
  <1>8. CASE FinishCommit(r)
    <2>1. FinishedRow(r, row) \in JobRow
      BY <1>1, RowTypes
    <2>2. loaded[r] = row /\ row.status = "running"
      BY <1>2, <1>8 DEF FinishCommit, Ready, DecidesOnRow, Executes
    <2>3. Flush(row, row, FinishedRow(r, row)) = FinishedRow(r, row)
      BY <1>1, <2>1, FlushOfRow
    <2> QED
      BY <1>8, <2>1, <2>2, <2>3 DEF FinishCommit, Ready, Goto, CommitWithEvent, Expire, Becomes
  <1>9. CASE FailCommit(r)
    <2>1. EndedRow(row, "failed") \in JobRow
      BY <1>1, RowTypes
    <2>2. loaded[r].status = "running" /\ row.status = "running"
      BY <1>2, <1>9 DEF FailCommit, Ready, DecidesOnRow, Executes
    <2>3. Flush(row, loaded[r], EndedRow(loaded[r], "failed")) = EndedRow(row, "failed")
      BY <1>1, <2>2, FlushOfStatus
    <2> QED
      BY <1>9, <2>1, <2>2, <2>3 DEF FailCommit, Ready, Goto, CommitWithEvent, Expire, Becomes
  <1> QED
    BY <1>3, <1>4, <1>5, <1>6, <1>7, <1>8, <1>9 DEF Commits

LEMMA SequentialCommit ==
    ASSUME TypeOK, LinkInvariant, SequentialInvariant, OneDecides',
           NEW r \in Requests, Commits(r)
    PROVE  SequentialInvariant'
  <1> DEFINE t == target[r]
  <1>1. PICK new \in JobRow :
           /\ Becomes(r, job[t], new)
           /\ job' = [job EXCEPT ![t] = new]
           /\ loaded' = [loaded EXCEPT ![r] = AbsentRow]
           /\ UNCHANGED <<run, target, step, curtailed>>
    BY CommitInPlace
  <1>2. /\ job \in [Jobs -> JobRow] /\ target \in [Requests -> Jobs]
        /\ loaded \in [Requests -> JobRow] /\ curtailed \in [Requests -> BOOLEAN]
        /\ pc \in [Requests -> Active \cup {"idle", "done", "lost"}]
    BY DEF TypeOK
  <1>3. /\ job'[t] = new
        /\ \A j \in Jobs : j # t => job'[j] = job[j]
        /\ \A q \in Requests : q # r => loaded'[q] = loaded[q] /\ pc'[q] = pc[q]
    BY <1>1, <1>2 DEF Becomes
  <1>4. DecidesOnRow(r)
    BY DEF SequentialInvariant
  <1> HIDE DEF t
  <1>5. \/ pc[r] = "idle" /\ job[t].status = "absent"
        \/ Deciding(r)
    BY <1>1 DEF Becomes, Deciding
  <1>6. job[t] \in JobRow /\ {"queued", "canceled", "failed"} \subseteq JobStatus
    BY <1>2 DEF t, JobStatus, Statuses
  <1>7. /\ pc'[r] = "started" => pc[r] = "starting" /\ job[t].status = "queued"
                                 /\ new.status = "running"
        /\ pc'[r] \in {"accepted", "started", "done"}
        /\ pc'[r] = "accepted" => pc[r] \in {"idle", "retrying"}
    <2>1. StartedRow(job[t]).status = "running"
      BY <1>6, DecidedColumns
    <2> QED
      BY <1>1, <1>2, <2>1 DEF Becomes
  <1>8. DecidesOnRow(r)'
    <2>1. target'[r] = t /\ curtailed'[r] = curtailed[r]
      BY <1>1 DEF t
    <2> QED
      BY <1>3, <1>4, <1>7, <2>1 DEF DecidesOnRow, Executes
  <1>9. ASSUME NEW q \in Requests, q # r
        PROVE  DecidesOnRow(q)'
    <2>1. /\ DecidesOnRow(q)
          /\ target'[q] = target[q] /\ target[q] \in Jobs /\ curtailed'[q] = curtailed[q]
          /\ loaded'[q] = loaded[q] /\ pc'[q] = pc[q]
      BY <1>1, <1>2, <1>3, <1>9 DEF SequentialInvariant
    <2>2. CASE target[q] # t
      <3>1. job'[target'[q]] = job[target[q]]
        BY <1>3, <2>1, <2>2
      <3> QED
        BY <2>1, <3>1 DEF DecidesOnRow, Executes, Retryable, Cancelable
    <2>3. CASE target[q] = t /\ Executes(q)
      <3>1. ~Deciding(q) \/ ~Deciding(r)
        BY <1>9, <2>3 DEF SequentialInvariant, OneDecides, t
      <3>2. ~Executes(r) /\ job[t].status = "running"
        BY <1>9, <2>1, <2>3 DEF SequentialInvariant, DecidesOnRow, t
      <3>3. pc[r] = "cancelling" /\ new = CanceledRow(job[t])
        BY <1>1, <3>2 DEF Becomes, Executes, Retryable
      <3>4. new.status = "running" /\ new.cancel_requested
        BY <1>6, <3>2, <3>3, DecidedColumns
      <3>5. ~Deciding(q)
        BY <3>1, <3>3 DEF Deciding
      <3> QED
        BY <1>3, <2>1, <2>3, <3>4, <3>5 DEF DecidesOnRow, Executes, Deciding
    <2>4. CASE target[q] = t /\ ~Executes(q)
      <3>1. pc[q] \notin {"retrying", "cancelling", "starting"}
        <4>1. CASE Deciding(r)
          BY <1>9, <2>4, <4>1 DEF SequentialInvariant, OneDecides, Deciding, t
        <4>2. CASE job[t].status = "absent"
          BY <2>1, <2>4, <4>2 DEF DecidesOnRow, Retryable, Cancelable
        <4> QED
          BY <1>5, <4>1, <4>2
      <3> QED
        BY <2>1, <2>4, <3>1 DEF DecidesOnRow, Executes
    <2> QED
      BY <2>2, <2>3, <2>4
  <1>10. \A p, q \in Requests :
            Executes(p)' /\ Executes(q)' /\ target'[p] = target'[q] => p = q
    <2> SUFFICES ASSUME NEW p \in Requests, NEW q \in Requests, p # q,
                        Executes(p)', Executes(q)', target[p] = target[q]
                 PROVE  FALSE
      BY <1>1
    <2>1. \A s \in Requests : s # r => (Executes(s)' <=> Executes(s))
      BY <1>3 DEF Executes
    <2>2. CASE p # r /\ q # r
      BY <2>1, <2>2 DEF SequentialInvariant
    <2>3. ASSUME NEW s \in Requests, s # r, Executes(s), target[s] = t, Executes(r)'
          PROVE  FALSE
      <3>1. job[t].status = "running"
        BY <2>3 DEF SequentialInvariant, DecidesOnRow
      <3>2. pc'[r] = "started"
        BY <2>3, <1>7 DEF Executes
      <3> QED
        BY <3>1, <3>2, <1>7
    <2> QED
      BY <2>1, <2>2, <2>3 DEF t
  <1>11. ASSUME NEW j \in Jobs, job'[j].status = "succeeded"
         PROVE  ~curtailed'[job'[j].orchestration_id]
    <2>1. CASE j # t
      BY <1>1, <1>3, <1>11, <2>1 DEF SequentialInvariant
    <2>2. CASE j = t
      <3>1. new.status = "succeeded"
        BY <1>3, <1>11, <2>2
      <3>2. pc[r] = "finishing" /\ job[t].status = "running" /\ new = FinishedRow(r, job[t])
        <4>1. /\ EndedRow(job[t], "queued").status = "queued"
              /\ EndedRow(job[t], "canceled").status = "canceled"
              /\ EndedRow(job[t], "failed").status = "failed"
          BY <1>6, EndedColumns
        <4>2. /\ RetriedRow(job[t]).status = "queued"
              /\ StartedRow(job[t]).status = "running"
              /\ CanceledRow(job[t]).status =
                    IF job[t].status = "queued" THEN "canceled" ELSE job[t].status
          BY <1>6, DecidedColumns
        <4> QED
          BY <1>1, <3>1, <4>1, <4>2 DEF Becomes, Cancelable
      <3>3. ~job[t].cancel_requested /\ new.orchestration_id = r
        BY <1>6, <3>1, <3>2, FinishedColumns
      <3>4. ~curtailed[r]
        BY <1>4, <3>2, <3>3 DEF DecidesOnRow, Executes, t
      <3> QED
        BY <1>1, <1>3, <2>2, <3>3, <3>4
    <2> QED
      BY <2>1, <2>2
  <1> QED
    BY <1>8, <1>9, <1>10, <1>11 DEF SequentialInvariant

\* How a thread gets on without a commit of the job.
Moves(q) ==
    \/ pc'[q] = pc[q] /\ loaded'[q] = loaded[q]
    \/ pc'[q] \in {"done", "lost"}
    \/ /\ pc[q] = "idle" /\ pc'[q] = "retrying"
       /\ loaded'[q] = job[target[q]] /\ Retryable(job[target[q]])
    \/ /\ pc[q] = "idle" /\ pc'[q] = "cancelling"
       /\ loaded'[q] = job[target[q]] /\ Cancelable(job[target[q]])
    \/ pc[q] = "accepted" /\ pc'[q] = "scheduled"
    \/ /\ pc[q] = "scheduled" /\ pc'[q] = "starting"
       /\ loaded'[q] = job[target[q]] /\ job[target[q]].status = "queued"
    \/ /\ pc[q] = "started" /\ pc'[q] = "preparing" /\ loaded'[q] = job[target[q]]
    \/ pc[q] = "preparing" /\ pc'[q] = "executing"
    \/ pc[q] = "preparing" /\ pc'[q] = "failing" /\ loaded'[q] = loaded[q]
    \/ pc[q] = "executing" /\ pc'[q] = "ran"
    \/ /\ pc[q] \in {"executing", "ran"} /\ pc'[q] = "failing"
       /\ loaded'[q] = job[target[q]]
    \/ pc[q] = "ran" /\ pc'[q] = "finishing" /\ loaded'[q] = job[target[q]]

LEMMA SequentialMove ==
    ASSUME TypeOK, LinkInvariant, SequentialInvariant, OneDecides',
           UNCHANGED <<job, target>>,
           \A q \in Requests : Moves(q),
           \A q \in Requests : \/ curtailed'[q] = curtailed[q]
                               \/ /\ pc[q] = "executing" /\ pc'[q] = "executing"
                                  /\ curtailed'[q] = job[target[q]].cancel_requested
    PROVE  SequentialInvariant'
  <1>1. ASSUME NEW q \in Requests
        PROVE  DecidesOnRow(q)'
    <2>1. /\ DecidesOnRow(q) /\ Moves(q)
          /\ job'[target'[q]] = job[target[q]]
          /\ \/ curtailed'[q] = curtailed[q]
             \/ /\ pc[q] = "executing" /\ pc'[q] = "executing"
                /\ curtailed'[q] = job[target[q]].cancel_requested
      BY DEF SequentialInvariant
    <2> QED
      BY <2>1 DEF DecidesOnRow, Moves, Executes, Retryable, Cancelable
  <1>2. \A q \in Requests : Executes(q)' => Executes(q)
    BY DEF Moves, Executes
  <1>3. \A p, q \in Requests :
           Executes(p)' /\ Executes(q)' /\ target'[p] = target'[q] => p = q
    BY <1>2 DEF SequentialInvariant
  <1>4. ASSUME NEW j \in Jobs, job'[j].status = "succeeded"
        PROVE  ~curtailed'[job'[j].orchestration_id]
    <2> DEFINE link == job[j].orchestration_id
    <2>1. /\ job[j].status = "succeeded" /\ ~curtailed[link] /\ job'[j] = job[j]
          /\ link # NoRun /\ run[link] = "completed"
      BY <1>4 DEF SequentialInvariant, LinkInvariant, LinkedRunEnded
    <2>2. link \in Requests
      BY <2>1 DEF TypeOK, JobRow, RunIds
    <2>3. pc[link] # "executing"
      BY <2>1, <2>2 DEF LinkInvariant, RunFollowsTask
    <2> QED
      BY <2>1, <2>2, <2>3
  <1> QED
    BY <1>1, <1>3, <1>4 DEF SequentialInvariant

LEMMA SequentialProceed ==
    ASSUME TypeOK, LinkInvariant, SequentialInvariant, OneDecides',
           NEW r \in Requests, Proceed(r)
    PROVE  SequentialInvariant'
  <1> /\ pc \in [Requests -> Active \cup {"idle", "done", "lost"}]
      /\ loaded \in [Requests -> JobRow]
      /\ curtailed \in [Requests -> BOOLEAN]
    BY DEF TypeOK
  <1>1. CASE Commits(r)
    BY <1>1, SequentialCommit
  <1>2. CASE WriteCheckpoint(r)
    BY <1>2, SequentialMove DEF WriteCheckpoint, Moves
  <1>3. CASE AddTask(r) \/ RunRefuse(r)
    BY <1>3, SequentialMove DEF AddTask, RunRefuse, Ready, Goto, Moves
  <1>4. CASE TaskRead(r)
    BY <1>4, SequentialMove DEF TaskRead, Ready, ReadJob, Goto, Moves
  <1>5. CASE TaskRefresh(r)
    BY <1>5, SequentialMove DEF TaskRefresh, Ready, ReadJob, Goto, Moves
  <1>6. CASE RunAccept(r)
    BY <1>6, SequentialMove DEF RunAccept, Ready, Expire, Goto, Moves
  <1>7. CASE RunStep(r)
    BY <1>7, SequentialMove DEF RunStep, Ready, Moves
  <1>8. CASE RunComplete(r)
    BY <1>8, SequentialMove DEF RunComplete, Ready, Goto, Moves
  <1>9. CASE RunRaise(r)
    BY <1>9, SequentialMove DEF RunRaise, Ready, ReadJob, Goto, Moves
  <1>10. CASE FinishRead(r)
    BY <1>10, SequentialMove DEF FinishRead, Ready, ReadJob, Goto, Moves
  <1> QED
    BY <1>1, <1>2, <1>3, <1>4, <1>5, <1>6, <1>7, <1>8, <1>9, <1>10 DEF Proceed, Commits

LEMMA SequentialNext ==
    TypeOK /\ LinkInvariant /\ SequentialInvariant /\ [Next /\ OneDecides']_vars
       => SequentialInvariant'
  <1> SUFFICES ASSUME TypeOK, LinkInvariant, SequentialInvariant, [Next /\ OneDecides']_vars
               PROVE  SequentialInvariant'
    OBVIOUS
  <1>1. OneDecides'
    BY DEF vars, OneDecides, Deciding, SequentialInvariant
  <1>2. ASSUME NEW r \in Requests, Enqueue(r)
        PROVE  SequentialInvariant'
    BY <1>1, <1>2, SequentialCommit DEF Commits
  <1>3. ASSUME NEW r \in Requests, RetryRead(r) \/ CancelRead(r)
        PROVE  SequentialInvariant'
    BY <1>1, <1>3, SequentialMove
       DEF RetryRead, CancelRead, Ready, ReadJob, Goto, Moves, TypeOK
  <1>4. ASSUME NEW r \in Requests, Proceed(r)
        PROVE  SequentialInvariant'
    BY <1>1, <1>4, SequentialProceed
  <1>5. ASSUME NEW gone, Lose(gone)
        PROVE  SequentialInvariant'
    BY <1>1, <1>5, SequentialMove DEF Lose, Moves
  <1>6. CASE Quiet \/ UNCHANGED vars
    BY <1>1, <1>6, SequentialMove DEF Quiet, vars, Moves
  <1> QED
    BY <1>2, <1>3, <1>4, <1>5, <1>6 DEF Next, ProcessCrash, SessionFailure

LEMMA SequentialInit == Init => SequentialInvariant
  BY DEF Init, SequentialInvariant, OneDecides, Deciding, DecidesOnRow, Executes, AbsentRow

LEMMA SequentialStep ==
    SequentialSpec => [](TypeOK /\ LinkInvariant /\ SequentialInvariant)
  <1>1. [Next /\ OneDecides']_vars => [Next]_vars
    OBVIOUS
  <1> QED
    BY <1>1, InitType, NextType, LinkInit, LinkNext, SequentialInit, SequentialNext, PTL
       DEF SequentialSpec
-----------------------------------------------------------------------------
\* Without races a job that ended succeeded was executed by a run no cancel
\* request cut short, and no two tasks are about to end the same job.
THEOREM SucceededRunsAreWhole == SequentialSpec => []SucceededRunIsWhole
  <1>1. TypeOK /\ SequentialInvariant => SucceededRunIsWhole
    <2> SUFFICES ASSUME TypeOK, SequentialInvariant PROVE SucceededRunIsWhole
      OBVIOUS
    <2>1. \A r \in Requests : WillSettle(r) => Executes(r)
      BY DEF WillSettle, Executes
    <2> QED
      BY <2>1 DEF SequentialInvariant, SucceededRunIsWhole
  <1> QED
    BY <1>1, SequentialStep, PTL
-----------------------------------------------------------------------------
(* Every commit is a step of the lifecycle *)

LEMMA LifecycleInit == Init => Lifecycle!Init
  BY DEF Init, Lifecycle!Init, AbsentRow

\* A commit of the job, seen through the refinement mapping.
LEMMA LifecycleCommit ==
    ASSUME TypeOK, LinkInvariant, SequentialInvariant, NEW r \in Requests, Commits(r)
    PROVE  Lifecycle!Next
  <1>0. PICK t \in Jobs : t = target[r]
    BY DEF TypeOK
  <1> DEFINE row == job[t]
  <1>1. PICK new \in JobRow :
           /\ Becomes(r, row, new)
           /\ job' = [job EXCEPT ![t] = new]
    BY <1>0, CommitInPlace
  <1>2. job \in [Jobs -> JobRow] /\ row \in JobRow
    BY DEF TypeOK
  <1>3. /\ [j \in Jobs |-> job[j].status]' =
              [[j \in Jobs |-> job[j].status] EXCEPT ![t] = new.status]
        /\ [j \in Jobs |-> job[j].attempts]' =
              [[j \in Jobs |-> job[j].attempts] EXCEPT ![t] = new.attempts]
        /\ [j \in Jobs |-> job[j].cancel_requested]' =
              [[j \in Jobs |-> job[j].cancel_requested] EXCEPT ![t] = new.cancel_requested]
    BY <1>1, <1>2
  <1>4. /\ new.attempts = row.attempts =>
              [j \in Jobs |-> job[j].attempts]' = [j \in Jobs |-> job[j].attempts]
        /\ new.cancel_requested = row.cancel_requested =>
              [j \in Jobs |-> job[j].cancel_requested]' = [j \in Jobs |-> job[j].cancel_requested]
        /\ new.status = row.status =>
              [j \in Jobs |-> job[j].status]' = [j \in Jobs |-> job[j].status]
    BY <1>1, <1>2
  <1>5. CASE row.status = "absent" /\ new = EndedRow(row, "queued")
    <2>1. Lifecycle!Accept(t)
      BY <1>2, <1>3, <1>4, <1>5, EndedColumns DEF Lifecycle!Accept
    <2> QED
      BY <1>2, <2>1 DEF Lifecycle!Next
  <1>6. CASE Retryable(row) /\ new = RetriedRow(row)
    <2>1. Lifecycle!Retry(t)
      BY <1>2, <1>3, <1>4, <1>6, DecidedColumns DEF Lifecycle!Retry, Retryable
    <2> QED
      BY <1>2, <2>1 DEF Lifecycle!Next
  <1>7. CASE Cancelable(row) /\ new = CanceledRow(row)
    <2>1. CASE row.status = "queued"
      <3>1. Lifecycle!CancelQueued(t)
        BY <1>2, <1>3, <1>4, <1>7, <2>1, DecidedColumns DEF Lifecycle!CancelQueued
      <3> QED
        BY <1>2, <3>1 DEF Lifecycle!Next
    <2>2. CASE row.status = "running"
      <3>1. Lifecycle!CancelRunning(t)
        BY <1>2, <1>3, <1>4, <1>7, <2>2, DecidedColumns DEF Lifecycle!CancelRunning
      <3> QED
        BY <1>2, <3>1 DEF Lifecycle!Next
    <2> QED
      BY <1>7, <2>1, <2>2 DEF Cancelable
  <1>8. CASE row.status = "queued" /\ ~row.cancel_requested /\ new = StartedRow(row)
    <2>1. Lifecycle!Start(t)
      BY <1>2, <1>3, <1>4, <1>8, DecidedColumns DEF Lifecycle!Start
    <2> QED
      BY <1>2, <2>1 DEF Lifecycle!Next
  <1>9. CASE row.status = "queued" /\ row.cancel_requested /\ new = EndedRow(row, "canceled")
    <2>1. new.status = "canceled" /\ new.attempts = row.attempts /\ new.cancel_requested = TRUE
      BY <1>2, <1>9, EndedColumns DEF JobRow
    <2>2. Lifecycle!CancelQueued(t)
      BY <1>2, <1>3, <1>4, <1>9, <2>1 DEF Lifecycle!CancelQueued
    <2> QED
      BY <1>2, <2>2 DEF Lifecycle!Next
  <1>10. CASE row.status = "running" /\ (new = FinishedRow(r, row) \/ new = EndedRow(row, "failed"))
    <2>1. /\ new.attempts = row.attempts
          /\ new.cancel_requested = row.cancel_requested
          /\ new.status \in {"failed", IF row.cancel_requested THEN "canceled" ELSE "succeeded"}
      BY <1>2, <1>10, EndedColumns, FinishedColumns
    <2>2. Lifecycle!Settle(t)
      BY <1>2, <1>3, <1>4, <1>10, <2>1 DEF Lifecycle!Settle
    <2> QED
      BY <1>2, <2>2 DEF Lifecycle!Next
  <1> QED
    BY <1>1, <1>5, <1>6, <1>7, <1>8, <1>9, <1>10 DEF Becomes

LEMMA LifecycleNext ==
    TypeOK /\ LinkInvariant /\ SequentialInvariant /\ [Next]_vars
       => [Lifecycle!Next]_(Lifecycle!lifecycle)
  <1> SUFFICES ASSUME TypeOK, LinkInvariant, SequentialInvariant, [Next]_vars
               PROVE  [Lifecycle!Next]_(Lifecycle!lifecycle)
    OBVIOUS
  <1>1. ASSUME NEW r \in Requests, Commits(r)
        PROVE  Lifecycle!Next
    BY <1>1, LifecycleCommit
  <1>2. UNCHANGED job => UNCHANGED Lifecycle!lifecycle
    BY DEF Lifecycle!lifecycle
  <1>3. ASSUME NEW r \in Requests, Proceed(r)
        PROVE  Commits(r) \/ UNCHANGED job
    BY <1>3 DEF Proceed, Commits, WriteCheckpoint, AddTask, TaskRead, TaskRefresh, RunAccept,
                RunRefuse, RunStep, RunComplete, RunRaise, FinishRead
  <1>4. ASSUME NEW r \in Requests, Enqueue(r) \/ RetryRead(r) \/ CancelRead(r)
        PROVE  Commits(r) \/ UNCHANGED job
    BY <1>4 DEF Commits, RetryRead, CancelRead
  <1>5. (ProcessCrash \/ \E r \in Requests : SessionFailure(r)) => UNCHANGED job
    BY DEF ProcessCrash, SessionFailure, Lose
  <1>6. Quiet \/ UNCHANGED vars => UNCHANGED job
    BY DEF Quiet, vars
  <1> QED
    BY <1>1, <1>2, <1>3, <1>4, <1>5, <1>6 DEF Next

\* Without races each commit of the queue service is one transition of the
\* documented lifecycle of its job, and every other step leaves it alone.
THEOREM QueueKeepsLifecycle == SequentialSpec => KeepsLifecycle
  <1>1. [Next /\ OneDecides']_vars => [Next]_vars
    OBVIOUS
  <1> QED
    BY <1>1, SequentialStep, LifecycleInit, LifecycleNext, PTL
       DEF SequentialSpec, KeepsLifecycle, Lifecycle!Spec
=============================================================================
