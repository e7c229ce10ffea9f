--------------------------- MODULE QueueLifecycle ---------------------------
(***************************************************************************)
(* What an operator is promised about one row of workflow_queue_jobs: the  *)
(* lifecycle of docs/architecture.md, "Queue Lifecycle", every transition  *)
(* one indivisible step.  The constants and conditions are those of        *)
(* services/orchestration_queue_service.py; OrchestrationQueue shows when  *)
(* the code, whose transitions are a read and a later write, keeps it.     *)
(***************************************************************************)
EXTENDS Naturals

CONSTANTS Jobs,          \* identities of workflow_queue_jobs rows
          MaxAttempts    \* max_attempts, 3 in the code

VARIABLES status, attempts, cancelRequested

lifecycle == <<status, attempts, cancelRequested>>

Init ==
    /\ status = [j \in Jobs |-> "absent"]
    /\ attempts = [j \in Jobs |-> 0]
    /\ cancelRequested = [j \in Jobs |-> FALSE]

\* A job is accepted once, with no attempt made.
Accept(j) ==
    /\ status[j] = "absent"
    /\ status' = [status EXCEPT ![j] = "queued"]
    /\ UNCHANGED <<attempts, cancelRequested>>

\* Queued jobs move directly to canceled.
CancelQueued(j) ==
    /\ status[j] = "queued"
    /\ status' = [status EXCEPT ![j] = "canceled"]
    /\ cancelRequested' = [cancelRequested EXCEPT ![j] = TRUE]
    /\ UNCHANGED attempts

\* Running jobs set cancel_requested.
CancelRunning(j) ==
    /\ status[j] = "running"
    /\ cancelRequested' = [cancelRequested EXCEPT ![j] = TRUE]
    /\ UNCHANGED <<status, attempts>>

\* Only failed or canceled jobs below the attempt limit are queued again.
Retry(j) ==
    /\ status[j] \in {"failed", "canceled"}
    /\ attempts[j] < MaxAttempts
    /\ status' = [status EXCEPT ![j] = "queued"]
    /\ cancelRequested' = [cancelRequested EXCEPT ![j] = FALSE]
    /\ UNCHANGED attempts

\* Each execution is an attempt.
Start(j) ==
    /\ status[j] = "queued"
    /\ ~cancelRequested[j]
    /\ status' = [status EXCEPT ![j] = "running"]
    /\ attempts' = [attempts EXCEPT ![j] = @ + 1]
    /\ UNCHANGED cancelRequested

\* A running job ends canceled exactly when a cancel was requested in time;
\* it may fail either way.
Settle(j) ==
    /\ status[j] = "running"
    /\ \E s \in {"failed", IF cancelRequested[j] THEN "canceled" ELSE "succeeded"} :
          status' = [status EXCEPT ![j] = s]
    /\ UNCHANGED <<attempts, cancelRequested>>

Next == \E j \in Jobs :
    \/ Accept(j)
    \/ CancelQueued(j)
    \/ CancelRunning(j)
    \/ Retry(j)
    \/ Start(j)
    \/ Settle(j)

Spec == Init /\ [][Next]_lifecycle
=============================================================================
