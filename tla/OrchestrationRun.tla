-------------------------- MODULE OrchestrationRun --------------------------
(***************************************************************************)
(* run_orchestration of services/orchestration_service.py and the evidence *)
(* it leaves: the run's row, its step rows, their events on the history    *)
(* ledger and their checkpoints, each committed on its own.  Beside it     *)
(* backfill_history_events, which a new process runs at startup while the  *)
(* old one still serves (deployments overlap), and failures that end a run *)
(* or a backfill between two commits.                                      *)
(*                                                                         *)
(* Step 0 stands for the run's own row.                                    *)
(***************************************************************************)
EXTENDS Naturals, FiniteSets, Sequences

CONSTANTS Runs,        \* workflow_orchestrations rows
          Steps,       \* enabled steps of the workflow
          Backfills,   \* executions of the startup backfill
          MaxCrashes,  \* bound: failures that end runs or backfills
          NoEvent      \* nothing to append

VARIABLES
    record,         \* committed status of a run's row
    stepRuns,       \* committed rows of workflow_step_runs
    checkpoints,    \* committed rows of workflow_checkpoints
    pc,             \* where a run or a backfill is
    current,        \* steps the run has behind it
    stopped,        \* should_cancel said so
    reported,       \* checkpoint_count of the response
    rows,           \* rows a backfill has loaded
    todo,           \* those of them it has not come to yet
    crashes,
    historyEvents, appending    \* HistoryLedger's

Writers == Runs \cup Backfills
Outcomes == {"success", "partial_success"}
StepStatuses == {"success", "failed", "skipped"}

Row == [run : Runs, step : 0..Steps]
StepRun == [run : Runs, step : 1..Steps, status : StepStatuses]
Checkpoint == [run : Runs, step : 0..Steps,
               type : {"accepted", "started"} \cup Outcomes \cup StepStatuses]
Event == [run : Runs, step : 0..Steps,
          type : {"accepted", "backfilled"} \cup Outcomes \cup StepStatuses]

ASSUME RunAssumption ==
    /\ Runs \cap Backfills = {}
    /\ Steps \in Nat
    /\ MaxCrashes \in Nat
    /\ NoEvent \notin Event

INSTANCE HistoryLedger WITH Events <- Event

trail == <<record, stepRuns, checkpoints>>
run == <<current, stopped, reported>>
backfill == <<rows, todo>>
ledger == <<historyEvents, appending>>
vars == <<trail, pc, run, backfill, crashes, ledger>>
-----------------------------------------------------------------------------
Init ==
    /\ record = [r \in Runs |-> "none"]
    /\ stepRuns = {}
    /\ checkpoints = {}
    /\ pc = [w \in Writers |-> "idle"]
    /\ current = [r \in Runs |-> 0]
    /\ stopped = [r \in Runs |-> FALSE]
    /\ reported = [r \in Runs |-> 0]
    /\ rows = [b \in Backfills |-> {}]
    /\ todo = [b \in Backfills |-> {}]
    /\ crashes = 0
    /\ LedgerInit

\* An append is a call: its caller goes on once it is through.
Ready(w, here) == pc[w] = here /\ appending[w] = NoEvent
Goto(w, there) == pc' = [pc EXCEPT ![w] = there]

\* append_history_event of something about a step of r (0: about r itself).
Record(r, step, type, there) ==
    /\ AppendRead(r, [run |-> r, step |-> step, type |-> type])
    /\ Goto(r, there)
    /\ UNCHANGED <<trail, run, backfill, crashes>>

\* append_orchestration_checkpoint; its uid is used by this run only.
WriteCheckpoint(r, step, type) ==
    checkpoints' = checkpoints \cup {[run |-> r, step |-> step, type |-> type]}

StatusOf(r, step) == (CHOOSE s \in stepRuns : s.run = r /\ s.step = step).status
-----------------------------------------------------------------------------
(* run_orchestration *)

Accept(r) ==
    /\ Ready(r, "idle")
    /\ record' = [record EXCEPT ![r] = "running"]
    /\ Goto(r, "accepted")
    /\ UNCHANGED <<stepRuns, checkpoints, run, backfill, crashes, ledger>>

RecordAccepted(r) == Ready(r, "accepted") /\ Record(r, 0, "accepted", "acceptedRecorded")

CheckpointAccepted(r) ==
    /\ Ready(r, "acceptedRecorded")
    /\ WriteCheckpoint(r, 0, "accepted")
    /\ Goto(r, "loop")
    /\ UNCHANGED <<record, stepRuns, run, backfill, crashes, ledger>>

\* The head of the loop: should_cancel, then the checkpoint that the step
\* starts, which a canceled step gets as well.
StartStep(r) ==
    /\ Ready(r, "loop")
    /\ ~stopped[r] /\ current[r] < Steps
    /\ \E stop \in BOOLEAN : stopped' = [stopped EXCEPT ![r] = stop]
    /\ WriteCheckpoint(r, current[r] + 1, "started")
    /\ Goto(r, "executing")
    /\ UNCHANGED <<record, stepRuns, current, reported, backfill, crashes, ledger>>

\* The step's row: what _execute_step returned, or skipped.
FinishStep(r) ==
    /\ Ready(r, "executing")
    /\ \E status \in IF stopped[r] THEN {"skipped"} ELSE {"success", "failed"} :
          stepRuns' = stepRuns \cup
              {[run |-> r, step |-> current[r] + 1, status |-> status]}
    /\ current' = [current EXCEPT ![r] = @ + 1]
    /\ Goto(r, "stepped")
    /\ UNCHANGED <<record, checkpoints, stopped, reported, backfill, crashes, ledger>>

\* Mutant: no event for a step that was not executed.
RecordStepUnlessSkipped(r) ==
    /\ Ready(r, "stepped")
    /\ IF stopped[r] THEN Goto(r, "stepRecorded") /\ UNCHANGED <<trail, run, backfill, crashes, ledger>>
       ELSE Record(r, current[r], StatusOf(r, current[r]), "stepRecorded")

RecordStep(r) ==
    /\ Ready(r, "stepped")
    /\ Record(r, current[r], StatusOf(r, current[r]), "stepRecorded")

\* Mutant: a canceled step leaves the loop before its second checkpoint.
CheckpointStepUnlessSkipped(r) ==
    /\ Ready(r, "stepRecorded")
    /\ IF stopped[r] THEN UNCHANGED checkpoints
       ELSE WriteCheckpoint(r, current[r], StatusOf(r, current[r]))
    /\ Goto(r, "loop")
    /\ UNCHANGED <<record, stepRuns, run, backfill, crashes, ledger>>

CheckpointStep(r) ==
    /\ Ready(r, "stepRecorded")
    /\ WriteCheckpoint(r, current[r], StatusOf(r, current[r]))
    /\ Goto(r, "loop")
    /\ UNCHANGED <<record, stepRuns, run, backfill, crashes, ledger>>

\* Mutant: the status of the last step.
OutcomeOfLastStep(r) == StatusOf(r, current[r])

\* Mutant: the cancel branch forgets has_failure.
OutcomeOfFailures(r) ==
    IF \E s \in stepRuns : s.run = r /\ s.status = "failed"
    THEN "partial_success" ELSE "success"

\* has_failure: some step failed or was skipped.
Outcome(r) ==
    IF \E s \in stepRuns : s.run = r /\ s.status # "success"
    THEN "partial_success" ELSE "success"

Complete(r) ==
    /\ Ready(r, "loop")
    /\ stopped[r] \/ current[r] = Steps
    /\ record' = [record EXCEPT ![r] = Outcome(r)]
    /\ Goto(r, "completed")
    /\ UNCHANGED <<stepRuns, checkpoints, run, backfill, crashes, ledger>>

RecordCompleted(r) == Ready(r, "completed") /\ Record(r, 0, record[r], "completedRecorded")

CheckpointCompleted(r) ==
    /\ Ready(r, "completedRecorded")
    /\ WriteCheckpoint(r, 0, record[r])
    /\ Goto(r, "persisting")
    /\ UNCHANGED <<record, stepRuns, run, backfill, crashes, ledger>>

\* The response; reusable assets and agent logs are committed before it.
Return(r) ==
    /\ Ready(r, "persisting")
    /\ reported' = [reported EXCEPT ![r] = 2 + current[r] * 2]
    /\ Goto(r, "returned")
    /\ UNCHANGED <<trail, current, stopped, backfill, crashes, ledger>>
-----------------------------------------------------------------------------
(* backfill_history_events: runs, then steps, each read at one time.       *)

Load(b, found, there) ==
    /\ todo[b] = {}
    /\ todo' = [todo EXCEPT ![b] = found]
    /\ rows' = [rows EXCEPT ![b] = @ \cup found]
    /\ Goto(b, there)
    /\ UNCHANGED <<trail, run, crashes, ledger>>

LoadRuns(b) ==
    /\ Ready(b, "idle")
    /\ Load(b, {[run |-> r, step |-> 0] : r \in {r \in Runs : record[r] # "none"}}, "runs")

\* Mutant: a row for every step of the workflow, executed or not.
LoadPlannedSteps(b) ==
    /\ Ready(b, "runs")
    /\ Load(b, {x \in Row : x.step > 0 /\ record[x.run] # "none"}, "steps")

LoadSteps(b) ==
    /\ Ready(b, "runs")
    /\ Load(b, {[run |-> s.run, step |-> s.step] : s \in stepRuns}, "steps")

\* The rows come in id order, which nothing below depends on.
BackfillRow(b) ==
    /\ Ready(b, "runs") \/ Ready(b, "steps")
    /\ \E x \in todo[b] :
          /\ AppendRead(b, [run |-> x.run, step |-> x.step, type |-> "backfilled"])
          /\ todo' = [todo EXCEPT ![b] = @ \ {x}]
    /\ UNCHANGED <<trail, pc, run, rows, crashes>>

FinishBackfill(b) ==
    /\ Ready(b, "steps")
    /\ todo[b] = {}
    /\ Goto(b, "returned")
    /\ UNCHANGED <<trail, run, backfill, crashes, ledger>>
-----------------------------------------------------------------------------
Commit(w) == AppendCommit(w) /\ UNCHANGED <<trail, pc, run, backfill, crashes>>

Working == {w \in Writers : pc[w] \notin {"idle", "returned", "lost"}}

\* An exception ends one, the death of a process all that run in it.
Interrupt ==
    /\ crashes < MaxCrashes
    /\ crashes' = crashes + 1
    /\ \E gone \in (SUBSET Working) \ {{}} :
          /\ pc' = [w \in Writers |-> IF w \in gone THEN "lost" ELSE pc[w]]
          /\ appending' = [w \in Writers |-> IF w \in gone THEN NoEvent ELSE appending[w]]
    /\ UNCHANGED <<trail, run, backfill, historyEvents>>

RunProceeds(r) ==
    \/ Accept(r)
    \/ RecordAccepted(r)
    \/ CheckpointAccepted(r)
    \/ StartStep(r)
    \/ FinishStep(r)
    \/ RecordStep(r)
    \/ CheckpointStep(r)
    \/ Complete(r)
    \/ RecordCompleted(r)
    \/ CheckpointCompleted(r)
    \/ Return(r)

BackfillProceeds(b) ==
    \/ LoadRuns(b)
    \/ LoadSteps(b)
    \/ BackfillRow(b)
    \/ FinishBackfill(b)

Quiet == (\A w \in Writers : pc[w] \in {"returned", "lost"}) /\ UNCHANGED vars

Next ==
    \/ \E r \in Runs : RunProceeds(r)
    \/ \E b \in Backfills : BackfillProceeds(b)
    \/ \E w \in Writers : Commit(w)
    \/ Interrupt
    \/ Quiet

Spec == Init /\ [][Next]_vars
-----------------------------------------------------------------------------
(* Properties *)

RunPCs == {"accepted", "acceptedRecorded", "loop", "executing", "stepped",
           "stepRecorded", "completed", "completedRecorded", "persisting"}

TypeOK ==
    /\ record \in [Runs -> {"none", "running"} \cup Outcomes]
    /\ stepRuns \subseteq StepRun
    /\ checkpoints \subseteq Checkpoint
    /\ pc \in [Writers -> RunPCs \cup {"idle", "runs", "steps", "returned", "lost"}]
    /\ current \in [Runs -> 0..Steps]
    /\ stopped \in [Runs -> BOOLEAN]
    /\ reported \in [Runs -> Nat]
    /\ rows \in [Backfills -> SUBSET Row]
    /\ todo \in [Backfills -> SUBSET Row]
    /\ crashes \in Nat
    /\ LedgerTypeOK

\* The row an event or a checkpoint is of, and that it says no more than it.
Backed(e) ==
    /\ e.step = 0 /\ e.type \notin Outcomes => record[e.run] # "none"
    /\ e.step = 0 /\ e.type \in Outcomes => record[e.run] = e.type
    /\ e.step > 0 /\ e.type = "started" => record[e.run] # "none" /\ e.step <= current[e.run] + 1
    /\ e.step > 0 /\ e.type = "backfilled" => \E s \in stepRuns : s.run = e.run /\ s.step = e.step
    /\ e.step > 0 /\ e.type \notin {"started", "backfilled"} =>
          [run |-> e.run, step |-> e.step, status |-> e.type] \in stepRuns

\* Whatever is interrupted and whoever writes it, evidence is only ever of
\* what is in the tables: no event or checkpoint says more than its row, no
\* event is there twice, and the number of checkpoints a response states is
\* that of its run, also of one that a cancel request cut short.
EvidenceIsBacked ==
    /\ \A e \in Ledger \cup checkpoints : Backed(e)
    /\ Cardinality(Ledger) = Len(historyEvents)
    /\ \A r \in Runs : pc[r] = "returned" =>
          reported[r] = Cardinality({c \in checkpoints : c.run = r})

\* A run reported as a success executed every enabled step successfully;
\* only the last step of a run can be one that was skipped.
SuccessIsWhole == \A r \in Runs :
    /\ record[r] = "success" =>
          \A i \in 1..Steps : [run |-> r, step |-> i, status |-> "success"] \in stepRuns
    /\ \A s, t \in stepRuns :
          s.run = r /\ t.run = r /\ s.status = "skipped" => t.step <= s.step

\* The events a run owes the ledger for the rows it has committed.
Owed(r) ==
    {e \in Event : e.run = r /\
        \/ e.step = 0 /\ e.type = "accepted" /\ record[r] # "none"
        \/ e.step = 0 /\ e.type \in Outcomes /\ e.type = record[r]
        \/ [run |-> r, step |-> e.step, status |-> e.type] \in stepRuns}

\* An interruption costs a run at most the event of the row it committed
\* last; a run that returned owes nothing.
AtMostOneEventIsOwed == \A r \in Runs :
    LET missing == Owed(r) \ Ledger
    IN  /\ Cardinality(missing) <= 1
        /\ pc[r] = "returned" => missing = {}

\* A backfill that comes to its end leaves no row it has seen without an
\* event, also those of runs that died before they could write their own.
BackfillCovers == \A b \in Backfills :
    pc[b] = "returned" =>
        \A x \in rows[b] :
            [run |-> x.run, step |-> x.step, type |-> "backfilled"] \in Ledger
=============================================================================
