------------------------- MODULE OrchestrationQueue -------------------------
(***************************************************************************)
(* services/orchestration_queue_service.py: HTTP handlers and the          *)
(* background tasks they leave behind, working concurrently on rows of     *)
(* workflow_queue_jobs.                                                    *)
(*                                                                         *)
(* A request is one thread of control: a handler with its own database     *)
(* session and then, if it queued a job, the background task FastAPI runs  *)
(* after its response (_process_queue_job), with a session of its own.     *)
(* A session reads a row once (`loaded`) and keeps that copy until its     *)
(* next commit; a flush writes the columns that differ from the copy.  No  *)
(* row is locked between the two.  Committing an event commits the job     *)
(* columns flushed with it and its ledger entry; the event's checkpoint is *)
(* a commit of its own, after.                                             *)
(***************************************************************************)
EXTENDS Naturals, FiniteSets

CONSTANTS Requests,      \* calls of the queue API; each is made once
          Jobs,          \* identities of workflow_queue_jobs rows
          MaxAttempts,   \* max_attempts given to every new job
          Steps,         \* enabled steps of the orchestrated workflow
          MaxCrashes,    \* bound: processes or sessions that die
          NoRun          \* the null orchestration_id

ASSUME QueueAssumption ==
    /\ NoRun \notin Requests
    /\ MaxAttempts \in Nat \ {0}
    /\ Steps \in Nat
    /\ MaxCrashes \in Nat

VARIABLES
    job,           \* committed rows of workflow_queue_jobs
    events,        \* committed rows of workflow_queue_events
    checkpoints,   \* committed checkpoints of queue events
    run,           \* status of the orchestration row a request's task created
    pc,            \* where a request's thread is
    target,        \* the job it works on
    loaded,        \* its session's copy of the job row
    due,           \* the event it committed and has not checkpointed yet
    step,          \* workflow steps its run has behind it
    curtailed,     \* its run skipped a step because of a cancel request
    crashes

vars == <<job, events, checkpoints, run, pc, target, loaded, due, step,
          curtailed, crashes>>
-----------------------------------------------------------------------------
Statuses == {"queued", "running", "succeeded", "failed", "canceled"}
EventTypes == {"queued", "retry_requested", "cancel_requested", "started",
               "canceled", "succeeded", "failed"}
JobStatus == Statuses \cup {"absent"}
RunIds == Requests \cup {NoRun}

JobRow == [status : JobStatus, attempts : Nat,
           cancel_requested : BOOLEAN, orchestration_id : RunIds]
QueueEvent == [job : Jobs, request : Requests, type : EventTypes,
               status : JobStatus]

AbsentRow == [status |-> "absent", attempts |-> 0, cancel_requested |-> FALSE,
              orchestration_id |-> NoRun]

\* Columns an enqueue gives a new job; max_attempts is the same for all.
NewRow == [AbsentRow EXCEPT !.status = "queued"]

\* Mutant: an ORM that writes the whole row back.
FlushWholeRow(row, before, after) == after

\* UPDATE: the columns assigned a value other than the one loaded.
Flush(row, before, after) ==
    LET column(c) == IF after[c] = before[c] THEN row[c] ELSE after[c]
    IN  [status |-> column("status"),
         attempts |-> column("attempts"),
         cancel_requested |-> column("cancel_requested"),
         orchestration_id |-> column("orchestration_id")]

\* A handler waits for nobody; a task runs from AddTask on.
HandlerPCs == {"retrying", "cancelling", "accepted"}
TaskPCs == {"scheduled", "starting", "started", "preparing", "executing",
            "ran", "finishing", "failing"}
Active == HandlerPCs \cup TaskPCs

Init ==
    /\ job = [j \in Jobs |-> AbsentRow]
    /\ events = {}
    /\ checkpoints = {}
    /\ run = [r \in Requests |-> "none"]
    /\ pc = [r \in Requests |-> "idle"]
    /\ target \in [Requests -> Jobs]
    /\ loaded = [r \in Requests |-> AbsentRow]
    /\ due = [r \in Requests |-> "none"]
    /\ step = [r \in Requests |-> 0]
    /\ curtailed = [r \in Requests |-> FALSE]
    /\ crashes = 0
-----------------------------------------------------------------------------
\* Mutant: the next step does not wait for the checkpoint.
ReadyAtOnce(r, here) == pc[r] = here

\* The thread of r moves on once its last event is checkpointed.
Ready(r, here) == pc[r] = here /\ due[r] = "none"
Goto(r, there) == pc' = [pc EXCEPT ![r] = there]

\* A handler or task that reads a job and goes on only if it may; otherwise
\* the request ends here and its session with it.
ReadJob(r, mayProceed, there) ==
    /\ loaded' = [loaded EXCEPT ![r] = IF mayProceed THEN job[target[r]] ELSE AbsentRow]
    /\ Goto(r, IF mayProceed THEN there ELSE "done")

\* A commit expires the session's copy.
Expire(r) == loaded' = [loaded EXCEPT ![r] = AbsentRow]

\* _append_queue_event up to the ledger's commit: job columns, event and
\* ledger entry become visible together.
CommitWithEvent(r, row, type, status) ==
    /\ Expire(r)
    /\ job' = [job EXCEPT ![target[r]] = Flush(@, loaded[r], row)]
    /\ events' = events \cup {[job |-> target[r], request |-> r,
                               type |-> type, status |-> status]}
    /\ due' = [due EXCEPT ![r] = type]

\* The rest of _append_queue_event: the job is read again and its status of
\* now, not the event's, goes into the checkpoint.
WriteCheckpoint(r) ==
    /\ due[r] # "none"
    /\ checkpoints' = checkpoints \cup
          {[job |-> target[r], request |-> r, type |-> due[r],
            status |-> job[target[r]].status]}
    /\ due' = [due EXCEPT ![r] = "none"]
    /\ UNCHANGED <<job, events, run, pc, target, loaded, step, curtailed, crashes>>

-----------------------------------------------------------------------------
(* Handlers *)

\* enqueue_orchestration_run inserts the job and its first event.
Enqueue(r) ==
    /\ Ready(r, "idle")
    /\ job[target[r]].status = "absent"
    /\ CommitWithEvent(r, NewRow, "queued", "queued")
    /\ Goto(r, "accepted")
    /\ UNCHANGED <<checkpoints, run, target, step, curtailed, crashes>>

\* Mutant: the attempt limit is off by one.
RetryableOnceMore(row) ==
    row.status \in {"failed", "canceled"} /\ row.attempts <= MaxAttempts

\* retry_queue_job's conditions.
Retryable(row) == row.status \in {"failed", "canceled"} /\ row.attempts < MaxAttempts

\* retry_queue_job reads the job; 404 and 409 end the request.
RetryRead(r) ==
    /\ Ready(r, "idle")
    /\ ReadJob(r, Retryable(job[target[r]]), "retrying")
    /\ UNCHANGED <<job, events, checkpoints, run, target, due, step, curtailed, crashes>>

\* The columns a retry assigns.
RetriedRow(row) == [row EXCEPT !.status = "queued", !.cancel_requested = FALSE]

\* Mutant: the retry does not add a background task.
RetryCommitNoTask(r) ==
    /\ Ready(r, "retrying")
    /\ CommitWithEvent(r, RetriedRow(loaded[r]), "retry_requested", "queued")
    /\ Goto(r, "done")
    /\ UNCHANGED <<checkpoints, run, target, step, curtailed, crashes>>

\* ... and writes what it decided on that copy.
RetryCommit(r) ==
    /\ Ready(r, "retrying")
    /\ CommitWithEvent(r, RetriedRow(loaded[r]), "retry_requested", "queued")
    /\ Goto(r, "accepted")
    /\ UNCHANGED <<checkpoints, run, target, step, curtailed, crashes>>

\* cancel_queue_job's condition.
Cancelable(row) == row.status \in {"queued", "running"}

\* cancel_queue_job reads the job; 404 and 409 end the request.
CancelRead(r) ==
    /\ Ready(r, "idle")
    /\ ReadJob(r, Cancelable(job[target[r]]), "cancelling")
    /\ UNCHANGED <<job, events, checkpoints, run, target, due, step, curtailed, crashes>>

\* Mutant: a cancel ends a running job at once.
CanceledRowAtOnce(row) == [row EXCEPT !.status = "canceled", !.cancel_requested = TRUE]

\* The columns a cancel assigns.
CanceledRow(row) ==
    [row EXCEPT !.status = IF @ = "queued" THEN "canceled" ELSE @,
                !.cancel_requested = TRUE]

CancelCommit(r) ==
    /\ Ready(r, "cancelling")
    /\ LET row == CanceledRow(loaded[r])
       IN  CommitWithEvent(r, row, "cancel_requested", row.status)
    /\ Goto(r, "done")
    /\ UNCHANGED <<checkpoints, run, target, step, curtailed, crashes>>

\* After the commit enqueue and retry hand the job to a background task.
AddTask(r) ==
    /\ Ready(r, "accepted")
    /\ Goto(r, "scheduled")
    /\ UNCHANGED <<job, events, checkpoints, run, target, loaded, due, step, curtailed, crashes>>
-----------------------------------------------------------------------------
(* _process_queue_job *)

\* The task reads the job and leaves it alone unless it is queued.
TaskRead(r) ==
    /\ Ready(r, "scheduled")
    /\ ReadJob(r, job[target[r]].status = "queued", "starting")
    /\ UNCHANGED <<job, events, checkpoints, run, target, due, step, curtailed, crashes>>

\* Mutant: the event's type where the status belongs.
StartedRowMislabelled(row) == [row EXCEPT !.status = "started", !.attempts = @ + 1]

\* The columns a start assigns.
StartedRow(row) == [row EXCEPT !.status = "running", !.attempts = @ + 1]

TaskStart(r) ==
    /\ Ready(r, "starting")
    /\ ~loaded[r].cancel_requested
    /\ CommitWithEvent(r, StartedRow(loaded[r]), "started", "running")
    /\ Goto(r, "started")
    /\ UNCHANGED <<checkpoints, run, target, step, curtailed, crashes>>

\* A status and nothing else.
EndedRow(row, status) == [row EXCEPT !.status = status]

\* A queued job can carry a cancel request: a retry that loaded the row with
\* the flag down does not write it.
TaskCancelBeforeStart(r) ==
    /\ Ready(r, "starting")
    /\ loaded[r].cancel_requested
    /\ CommitWithEvent(r, EndedRow(loaded[r], "canceled"), "canceled", "canceled")
    /\ Goto(r, "done")
    /\ UNCHANGED <<checkpoints, run, target, step, curtailed, crashes>>

TaskRefresh(r) ==
    /\ Ready(r, "started")
    /\ ReadJob(r, TRUE, "preparing")
    /\ UNCHANGED <<job, events, checkpoints, run, target, due, step, curtailed, crashes>>

\* run_orchestration accepts the payload: a new orchestration row.
RunAccept(r) ==
    /\ Ready(r, "preparing")
    /\ run' = [run EXCEPT ![r] = "running"]
    /\ Expire(r)
    /\ Goto(r, "executing")
    /\ UNCHANGED <<job, events, checkpoints, target, due, step, curtailed, crashes>>

\* ... or refuses it before any commit: the copy of TaskRefresh is kept.
RunRefuse(r) ==
    /\ Ready(r, "preparing")
    /\ Goto(r, "failing")
    /\ UNCHANGED <<job, events, checkpoints, run, target, loaded, due, step, curtailed, crashes>>

\* One step of the workflow; should_cancel reads the row afresh before it,
\* and a cancel request skips this step and leaves the loop.
RunStep(r) ==
    /\ Ready(r, "executing")
    /\ step[r] < Steps
    /\ LET stop == job[target[r]].cancel_requested
       IN  /\ step' = [step EXCEPT ![r] = IF stop THEN Steps ELSE @ + 1]
           /\ curtailed' = [curtailed EXCEPT ![r] = stop]
    /\ UNCHANGED <<job, events, checkpoints, run, pc, target, loaded, due, crashes>>

\* The run ends, as success or partial_success.
RunComplete(r) ==
    /\ Ready(r, "executing")
    /\ step[r] = Steps
    /\ run' = [run EXCEPT ![r] = "completed"]
    /\ Goto(r, "ran")
    /\ UNCHANGED <<job, events, checkpoints, target, loaded, due, step, curtailed, crashes>>

\* Mutant: the exception is logged and the job left as it is.
RunRaiseLogged(r) ==
    /\ Ready(r, "executing") \/ Ready(r, "ran")
    /\ Goto(r, "done")
    /\ UNCHANGED <<job, events, checkpoints, run, target, loaded, due, step, curtailed, crashes>>

\* An exception of run_orchestration; the except branch reads the job anew,
\* the run keeps the status it has.
RunRaise(r) ==
    /\ Ready(r, "executing") \/ Ready(r, "ran")
    /\ ReadJob(r, TRUE, "failing")
    /\ UNCHANGED <<job, events, checkpoints, run, target, due, step, curtailed, crashes>>

FinishRead(r) ==
    /\ Ready(r, "ran")
    /\ ReadJob(r, TRUE, "finishing")
    /\ UNCHANGED <<job, events, checkpoints, run, target, due, step, curtailed, crashes>>

\* Mutant: the flag counts only once the status already says canceled.
StopsOnCanceled(row) == row.cancel_requested /\ row.status = "canceled"

\* The cancel branch is skipped when the copy already says canceled.
StopsOnCancel(row) == row.cancel_requested /\ row.status # "canceled"

\* Mutant: the orchestration is not linked.
FinishedRowUnlinked(r, row) ==
    EndedRow(row, IF StopsOnCancel(row) THEN "canceled" ELSE "succeeded")

\* The columns the end of an execution assigns.
FinishedRow(r, row) ==
    IF StopsOnCancel(row) THEN EndedRow(row, "canceled")
    ELSE [EndedRow(row, "succeeded") EXCEPT !.orchestration_id = r]

FinishCommit(r) ==
    /\ Ready(r, "finishing")
    /\ LET row == FinishedRow(r, loaded[r])
       IN  CommitWithEvent(r, row, row.status, row.status)
    /\ Goto(r, "done")
    /\ UNCHANGED <<checkpoints, run, target, step, curtailed, crashes>>

FailCommit(r) ==
    /\ Ready(r, "failing")
    /\ CommitWithEvent(r, EndedRow(loaded[r], "failed"), "failed", "failed")
    /\ Goto(r, "done")
    /\ UNCHANGED <<checkpoints, run, target, step, curtailed, crashes>>
-----------------------------------------------------------------------------
(* Crashes *)

Lose(gone) ==
    /\ crashes < MaxCrashes
    /\ crashes' = crashes + 1
    /\ pc' = [r \in Requests |-> IF r \in gone THEN "lost" ELSE pc[r]]
    /\ due' = [r \in Requests |-> IF r \in gone THEN "none" ELSE due[r]]
    /\ loaded' = [r \in Requests |-> IF r \in gone THEN AbsentRow ELSE loaded[r]]
    /\ UNCHANGED <<job, events, checkpoints, run, target, step, curtailed>>

Working(r) == pc[r] \in Active \/ due[r] # "none"

\* The process dies: handlers and background tasks live in its memory only.
ProcessCrash == Lose({r \in Requests : Working(r)})

\* A failed flush leaves the session unusable, so the query of the except
\* branch raises as well and the request ends there.
SessionFailure(r) == Working(r) /\ Lose({r})
-----------------------------------------------------------------------------
\* What r's thread does on its own, once the request has arrived.
Proceed(r) ==
    \/ WriteCheckpoint(r)
    \/ RetryCommit(r)
    \/ CancelCommit(r)
    \/ AddTask(r)
    \/ TaskRead(r)
    \/ TaskStart(r)
    \/ TaskCancelBeforeStart(r)
    \/ TaskRefresh(r)
    \/ RunAccept(r)
    \/ RunRefuse(r)
    \/ RunStep(r)
    \/ RunComplete(r)
    \/ RunRaise(r)
    \/ FinishRead(r)
    \/ FinishCommit(r)
    \/ FailCommit(r)

\* Every request has been made and has ended.
Quiet ==
    /\ \A r \in Requests : pc[r] \in {"done", "lost"} /\ due[r] = "none"
    /\ UNCHANGED vars

Next ==
    \/ \E r \in Requests : Enqueue(r)
    \/ \E r \in Requests : RetryRead(r)
    \/ \E r \in Requests : CancelRead(r)
    \/ \E r \in Requests : Proceed(r)
    \/ \E r \in Requests : SessionFailure(r)
    \/ ProcessCrash
    \/ Quiet

Spec == Init /\ [][Next]_vars

\* Arrivals are the operators' choice; a request that has arrived proceeds,
\* the thread pool leaves none of its threads aside.
Fairness == \A r \in Requests : WF_vars(Proceed(r))
-----------------------------------------------------------------------------
(* Properties *)

TypeOK ==
    /\ job \in [Jobs -> JobRow]
    /\ events \subseteq QueueEvent
    /\ checkpoints \subseteq QueueEvent
    /\ run \in [Requests -> {"none", "running", "completed"}]
    /\ pc \in [Requests -> Active \cup {"idle", "done", "lost"}]
    /\ target \in [Requests -> Jobs]
    /\ loaded \in [Requests -> JobRow]
    /\ due \in [Requests -> EventTypes \cup {"none"}]
    /\ step \in [Requests -> 0..Steps]
    /\ curtailed \in [Requests -> BOOLEAN]
    /\ crashes \in Nat

\* A queued job is never forgotten while the process lives: whoever wrote
\* "queued" over whatever else was going on still holds a task that will
\* find the job queued, or somebody else's task already has.
QueuedJobHasTask == crashes = 0 =>
    \A j \in Jobs : job[j].status = "queued" =>
        \E r \in Requests : /\ target[r] = j
                            /\ pc[r] \in {"accepted", "scheduled", "starting"}

\* r's task will still write a status that takes its job out of "running".
WillSettle(r) ==
    \/ pc[r] \in {"started", "executing", "ran"}
    \/ pc[r] \in {"preparing", "failing"} /\ loaded[r].status # "failed"
    \/ pc[r] = "finishing" /\ FinishedRow(r, loaded[r]).status # loaded[r].status

\* No interleaving of handlers and tasks leaves a job "running" with no task
\* that will end it, although an ending may find its status column already
\* at the value it assigns and then write nothing.
RunningJobHasWorker == crashes = 0 =>
    \A j \in Jobs : job[j].status = "running" =>
        \E r \in Requests : target[r] = j /\ WillSettle(r)

\* A succeeded job links the orchestration that made it succeed, the link
\* is to an orchestration of this job that ended, and no stale write of
\* another session ever clears it.
LinkedRunEnded == \A j \in Jobs :
    LET link == job[j].orchestration_id
    IN  /\ job[j].status = "succeeded" => link # NoRun
        /\ link # NoRun => /\ target[link] = j
                           /\ run[link] = "completed"

StartEvents(j) == {e \in events : e.job = j /\ e.type = "started"}

\* The attempt counter never runs ahead of the timeline: each attempt has a
\* "started" event of its own, also when racing starts count only once.
AttemptsAreOnTimeline == \A j \in Jobs :
    job[j].attempts <= Cardinality(StartEvents(j))

\* The audit trail has no gap but a crash: an event without a checkpoint is
\* one its request is about to checkpoint or died before checkpointing, and
\* there is no checkpoint of an event that was not committed.
EventsAreCheckpointed ==
    /\ \A e \in events :
          \/ \E c \in checkpoints : c.request = e.request /\ c.type = e.type
          \/ due[e.request] = e.type
          \/ pc[e.request] = "lost"
    /\ \A c \in checkpoints :
          \E e \in events : e.job = c.job /\ e.request = c.request /\ e.type = c.type

\* With a process that does not die every accepted job leaves "queued" and
\* "running" again, whatever cancels and retries race with it.
EveryJobSettles == \A j \in Jobs :
    job[j].status \in {"queued", "running"} ~> job[j].status \in Statuses \ {"queued", "running"}
-----------------------------------------------------------------------------
(* What the invariants above rest on: with these conjuncts they are         *)
(* inductive.                                                               *)

\* The orchestration row follows the thread that creates it.
RunFollowsTask == \A r \in Requests :
    /\ pc[r] \in HandlerPCs \cup {"idle", "scheduled", "starting", "started", "preparing"}
          => run[r] = "none"
    /\ pc[r] = "executing" => run[r] = "running"
    /\ pc[r] \in {"ran", "finishing"} => run[r] = "completed"

\* A link in a session's copy is a link in the row; a request that has not
\* arrived has no copy.
LoadedLinkIsKept == \A r \in Requests :
    /\ loaded[r].orchestration_id # NoRun => job[target[r]].orchestration_id # NoRun
    /\ pc[r] = "idle" => loaded[r] = AbsentRow

LinkInvariant == LinkedRunEnded /\ RunFollowsTask /\ LoadedLinkIsKept

\* A task starts a job only on a copy that says queued.
StartsOnQueued == \A r \in Requests : pc[r] = "starting" => loaded[r].status = "queued"

QueuedInvariant == QueuedJobHasTask /\ StartsOnQueued

\* Copies do not run ahead of the timeline, and a task that has not started
\* the job has no "started" event yet.
AttemptInvariant ==
    /\ AttemptsAreOnTimeline
    /\ IsFiniteSet(events)
    /\ \A r \in Requests : loaded[r].attempts <= Cardinality(StartEvents(target[r]))
    /\ \A e \in events : e.type = "started" =>
          pc[e.request] \in {"started", "preparing", "executing", "ran",
                             "finishing", "failing", "done", "lost"}

\* What is due is on the timeline.
TrailInvariant ==
    /\ EventsAreCheckpointed
    /\ \A r \in Requests : due[r] # "none" =>
          \E e \in events : e.job = target[r] /\ e.request = r /\ e.type = due[r]

\* The links of a job survive every write of the row.
LinkIsKept == [][\A j \in Jobs :
    job[j].orchestration_id # NoRun => job'[j].orchestration_id # NoRun]_vars
-----------------------------------------------------------------------------
(* Behaviours in which no request comes between another's read of a job    *)
(* and its write: what the tests exercise, one call at a time, and what a  *)
(* row lock would enforce.                                                 *)

Deciding(r) == pc[r] \in {"retrying", "cancelling", "starting", "finishing", "failing"}

OneDecides == \A r, s \in Requests :
    Deciding(r) /\ Deciding(s) /\ target[r] = target[s] => r = s

SequentialSpec == Init /\ [][Next /\ OneDecides']_vars

\* Without races the code keeps the lifecycle its documentation promises.
Lifecycle == INSTANCE QueueLifecycle WITH
    status <- [j \in Jobs |-> job[j].status],
    attempts <- [j \in Jobs |-> job[j].attempts],
    cancelRequested <- [j \in Jobs |-> job[j].cancel_requested]

KeepsLifecycle == Lifecycle!Spec

\* Without races a job is succeeded only by a run no cancel request cut
\* short, and by one that is the latest attempt: at most one run is active.
SucceededRunIsWhole == \A j \in Jobs :
    /\ job[j].status = "succeeded" => ~curtailed[job[j].orchestration_id]
    /\ \A r, s \in Requests :
          target[r] = j /\ target[s] = j /\ WillSettle(r) /\ WillSettle(s) => r = s

\* r's task has started its job and not ended it.
Executes(r) == pc[r] \in {"started", "preparing", "executing", "ran", "finishing", "failing"}

\* Without races every decision is taken on the row as it is, a job that is
\* executed stays "running", and a request to cancel it stays in the row for
\* the run it cut short.
DecidesOnRow(r) ==
    LET row == job[target[r]]
    IN  /\ pc[r] \in {"retrying", "cancelling", "starting", "finishing"} => loaded[r] = row
        /\ pc[r] = "retrying" => Retryable(row)
        /\ pc[r] = "cancelling" => Cancelable(row)
        /\ pc[r] = "starting" => row.status = "queued"
        /\ pc[r] \in {"preparing", "failing"} => loaded[r].status = "running"
        /\ Executes(r) => row.status = "running"
        /\ curtailed[r] /\ Executes(r) => row.cancel_requested
        /\ curtailed[r] => pc[r] \in {"executing", "ran", "finishing", "failing", "done", "lost"}

\* With LinkInvariant these conjuncts are inductive under SequentialSpec.
SequentialInvariant ==
    /\ OneDecides
    /\ \A r, s \in Requests :
          Executes(r) /\ Executes(s) /\ target[r] = target[s] => r = s
    /\ \A r \in Requests : DecidesOnRow(r)
    /\ \A j \in Jobs :
          job[j].status = "succeeded" => ~curtailed[job[j].orchestration_id]
-----------------------------------------------------------------------------
(* What the documents say of the queue and a race breaks.                  *)

\* specs.md, "retry ... without duplicate side effects": the task a canceled
\* enqueue left behind and the task of its retry do not both execute the job.
OneExecutionPerJob == \A r, s \in Requests :
    pc[r] = "executing" /\ pc[s] = "executing" /\ target[r] = target[s] => r = s
=============================================================================
