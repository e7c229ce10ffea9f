----------------------- MODULE OrchestrationRunProofs -----------------------
EXTENDS OrchestrationRun, FiniteSetTheorems, TLAPS

(* What a run has done, told by where it is *)

Before == {"idle", "accepted", "acceptedRecorded"}
InLoop == {"loop", "executing", "stepped", "stepRecorded"}
After == {"completed", "completedRecorded", "persisting", "returned"}

RunState(r) ==
    /\ pc[r] \in Before \cup InLoop \cup After \cup {"lost"}
    /\ record[r] = "none" <=> pc[r] = "idle"
    /\ pc[r] \in Before => current[r] = 0 /\ ~ stopped[r]
    /\ pc[r] \in InLoop \cup {"accepted", "acceptedRecorded"} => record[r] = "running"
    /\ pc[r] \in After => record[r] \in Outcomes
    /\ pc[r] = "executing" => current[r] < Steps
    /\ pc[r] \in {"stepped", "stepRecorded"} => current[r] > 0

\* The rows of a run: one for each step behind it, the last one skipped if
\* the run was stopped, all of them successful if it says so.
RunRows(r) ==
    /\ \A k \in 1..current[r] : \E s \in stepRuns : s.run = r /\ s.step = k
    /\ stopped[r] /\ pc[r] \notin {"executing", "lost"} =>
          \E s \in stepRuns : s.run = r /\ s.status = "skipped"
    /\ record[r] = "success" =>
          current[r] = Steps /\ \A s \in stepRuns : s.run = r => s.status = "success"
    /\ \A s \in stepRuns : s.run = r =>
          /\ s.step <= current[r]
          /\ s.status = "skipped" => s.step = current[r] /\ stopped[r] /\ pc[r] # "executing"
    /\ \A s, t \in stepRuns : s.run = r /\ t.run = r /\ s.step = t.step => s = t

WriterPCs == RunPCs \cup {"idle", "runs", "steps", "returned", "lost"}

ProgressInvariant ==
    /\ record \in [Runs -> {"none", "running"} \cup Outcomes]
    /\ stepRuns \subseteq StepRun
    /\ pc \in [Writers -> WriterPCs]
    /\ current \in [Runs -> 0..Steps]
    /\ stopped \in [Runs -> BOOLEAN]
    /\ \A r \in Runs : RunState(r) /\ RunRows(r)

LEMMA RunsAreWriters == Runs \subseteq Writers /\ Backfills \subseteq Writers
  BY DEF Writers

LEMMA ProgressInit == Init => ProgressInvariant
  BY RunAssumption DEF Init, ProgressInvariant, RunState, RunRows, Writers, WriterPCs, RunPCs,
                       Before, InLoop, After, Outcomes

\* The status of a step behind the run.
LEMMA StatusIs ==
    ASSUME ProgressInvariant, NEW r \in Runs, current[r] > 0
    PROVE  /\ StatusOf(r, current[r]) \in StepStatuses
           /\ [run |-> r, step |-> current[r], status |-> StatusOf(r, current[r])] \in stepRuns
  <1>1. current[r] \in 1..current[r]
    BY RunAssumption DEF ProgressInvariant
  <1>2. \E s \in stepRuns : s.run = r /\ s.step = current[r]
    BY <1>1 DEF ProgressInvariant, RunRows
  <1> DEFINE row == CHOOSE s \in stepRuns : s.run = r /\ s.step = current[r]
  <1>3. row \in stepRuns /\ row.run = r /\ row.step = current[r]
    BY <1>2
  <1>4. StatusOf(r, current[r]) = row.status
    BY DEF StatusOf
  <1>5. row \in StepRun
    BY <1>3 DEF ProgressInvariant
  <1> HIDE DEF row
  <1>6. row = [run |-> r, step |-> current[r], status |-> row.status] /\ row.status \in StepStatuses
    BY <1>3, <1>5 DEF StepRun
  <1> QED
    BY <1>3, <1>4, <1>6

\* A step of one run leaves the others' state and rows alone.
LEMMA OthersUndisturbed ==
    ASSUME ProgressInvariant, NEW r \in Runs,
           \A w \in Runs \ {r} : /\ pc'[w] = pc[w] /\ record'[w] = record[w]
                                 /\ current'[w] = current[w] /\ stopped'[w] = stopped[w],
           stepRuns \subseteq stepRuns', \A s \in stepRuns' \ stepRuns : s.run = r,
           RunState(r)', RunRows(r)'
    PROVE  \A w \in Runs : RunState(w)' /\ RunRows(w)'
  <1> SUFFICES ASSUME NEW w \in Runs \ {r} PROVE RunState(w)' /\ RunRows(w)'
    OBVIOUS
  <1>1. RunState(w) /\ RunRows(w)
    BY DEF ProgressInvariant
  <1>2. RunState(w)'
    BY <1>1 DEF RunState
  <1>3. \A s \in stepRuns' : s.run = w => s \in stepRuns
    OBVIOUS
  <1>4. RunRows(w)'
    BY <1>1, <1>3 DEF RunRows
  <1> QED
    BY <1>2, <1>4

\* A step that moves a run on and nothing else.
LEMMA RunMoves ==
    ASSUME ProgressInvariant, NEW r \in Runs, NEW there \in WriterPCs, Goto(r, there),
           UNCHANGED <<record, stepRuns, current, stopped>>,
           RunState(r)', pc[r] \notin {"executing", "lost"}, there # "executing"
    PROVE  ProgressInvariant'
  <1>1. pc \in [Writers -> WriterPCs] /\ r \in Writers
    BY RunsAreWriters DEF ProgressInvariant
  <1>2. pc' \in [Writers -> WriterPCs] /\ pc'[r] = there /\ \A w \in Writers \ {r} : pc'[w] = pc[w]
    BY <1>1 DEF Goto
  <1>3. RunRows(r)'
    BY <1>2 DEF ProgressInvariant, RunRows
  <1>4. \A w \in Runs : RunState(w)' /\ RunRows(w)'
    BY <1>2, <1>3, RunsAreWriters, OthersUndisturbed
  <1> QED
    BY <1>2, <1>4 DEF ProgressInvariant

LEMMA ProgressRun ==
    ASSUME ProgressInvariant, NEW r \in Runs, RunProceeds(r)
    PROVE  ProgressInvariant'
  <1>1. pc \in [Writers -> WriterPCs] /\ r \in Writers
    BY RunsAreWriters DEF ProgressInvariant
  <1>2. RunState(r) /\ RunRows(r) /\ Steps \in Nat /\ current[r] \in 0..Steps
    BY RunAssumption DEF ProgressInvariant
  <1>3. ASSUME NEW there, Goto(r, there)
        PROVE  pc'[r] = there /\ \A w \in Writers \ {r} : pc'[w] = pc[w]
    BY <1>1, <1>3 DEF Goto
  <1> USE DEF Before, InLoop, After
  <1>4. CASE Accept(r)
    <2>1. pc'[r] = "accepted" /\ \A w \in Runs \ {r} : pc'[w] = pc[w]
      BY <1>3, <1>4, RunsAreWriters DEF Accept
    <2>2. /\ record'[r] = "running" /\ \A w \in Runs \ {r} : record'[w] = record[w]
          /\ record' \in [Runs -> {"none", "running"} \cup Outcomes]
          /\ UNCHANGED <<stepRuns, current, stopped>>
      BY <1>4 DEF Accept, ProgressInvariant, run
    <2>3. RunState(r)'
      BY <1>2, <1>4, <2>1, <2>2 DEF RunState, Accept, Ready
    <2>4. RunRows(r)'
      BY <1>2, <1>4, <2>1, <2>2 DEF RunRows, RunState, Accept, Ready
    <2>5. pc' \in [Writers -> WriterPCs]
      BY <1>1, <1>4 DEF Accept, Goto, WriterPCs, RunPCs
    <2> QED
      BY <2>1, <2>2, <2>3, <2>4, <2>5, OthersUndisturbed DEF ProgressInvariant
  <1>5. ASSUME NEW here \in Before \cup InLoop \cup After, NEW there \in WriterPCs,
               pc[r] = here, Goto(r, there),
               UNCHANGED <<record, stepRuns, current, stopped>>,
               \/ here = "accepted" /\ there = "acceptedRecorded"
               \/ here = "acceptedRecorded" /\ there = "loop"
               \/ here = "stepped" /\ there = "stepRecorded"
               \/ here = "stepRecorded" /\ there = "loop"
               \/ here = "completed" /\ there = "completedRecorded"
               \/ here = "completedRecorded" /\ there = "persisting"
               \/ here = "persisting" /\ there = "returned"
        PROVE  ProgressInvariant'
    <2>1. pc'[r] = there
      BY <1>3, <1>5
    <2>2. RunState(r)'
      BY <1>2, <1>5, <2>1 DEF RunState
    <2> QED
      BY <1>5, <2>2, RunMoves
  <1>6. CASE RecordAccepted(r) \/ RecordStep(r) \/ RecordCompleted(r)
    BY <1>5, <1>6 DEF RecordAccepted, RecordStep, RecordCompleted, Record, Ready, trail, run,
                      WriterPCs, RunPCs
  <1>7. CASE CheckpointAccepted(r) \/ CheckpointStep(r) \/ CheckpointCompleted(r)
    BY <1>5, <1>7 DEF CheckpointAccepted, CheckpointStep, CheckpointCompleted, Ready, run,
                      WriterPCs, RunPCs
  <1>8. CASE Return(r)
    BY <1>5, <1>8 DEF Return, Ready, trail, WriterPCs, RunPCs
  <1>9. CASE StartStep(r)
    <2>1. pc'[r] = "executing" /\ \A w \in Runs \ {r} : pc'[w] = pc[w]
      BY <1>3, <1>9, RunsAreWriters DEF StartStep
    <2>2. /\ \A w \in Runs \ {r} : stopped'[w] = stopped[w]
          /\ stopped' \in [Runs -> BOOLEAN]
          /\ UNCHANGED <<record, stepRuns, current>>
      BY <1>9 DEF StartStep, ProgressInvariant
    <2>3. RunState(r)'
      BY <1>2, <1>9, <2>1, <2>2 DEF RunState, StartStep, Ready
    <2>4. RunRows(r)'
      <3>1. \A s \in stepRuns : s.run = r => s.status # "skipped"
        BY <1>2, <1>9 DEF StartStep, RunRows
      <3>2. record[r] = "running"
        BY <1>2, <1>9 DEF StartStep, RunState, Ready
      <3> QED
        BY <1>2, <2>1, <2>2, <3>1, <3>2 DEF RunRows
    <2>5. pc' \in [Writers -> WriterPCs]
      BY <1>1, <1>9 DEF StartStep, Goto, WriterPCs, RunPCs
    <2> QED
      BY <2>1, <2>2, <2>3, <2>4, <2>5, OthersUndisturbed DEF ProgressInvariant
  <1>10. CASE FinishStep(r)
    <2>1. pc'[r] = "stepped" /\ \A w \in Runs \ {r} : pc'[w] = pc[w]
      BY <1>3, <1>10, RunsAreWriters DEF FinishStep
    <2>2. record[r] = "running" /\ current[r] < Steps /\ pc[r] = "executing"
      BY <1>2, <1>10 DEF FinishStep, Ready, RunState
    <2>3. /\ current'[r] = current[r] + 1 /\ \A w \in Runs \ {r} : current'[w] = current[w]
          /\ current' \in [Runs -> 0..Steps]
          /\ UNCHANGED <<record, stopped>>
      BY <1>2, <1>10, <2>2 DEF FinishStep, ProgressInvariant
    <2>4. PICK status \in StepStatuses :
             /\ (status = "skipped") <=> stopped[r]
             /\ stepRuns' = stepRuns \cup {[run |-> r, step |-> current[r] + 1, status |-> status]}
      BY <1>10 DEF FinishStep, StepStatuses
    <2> DEFINE new == [run |-> r, step |-> current[r] + 1, status |-> status]
    <2>5. stepRuns' = stepRuns \cup {new} /\ new.run = r /\ new.step = current[r] + 1
          /\ new.status = status /\ new \in StepRun
      BY <1>2, <2>2, <2>4 DEF StepRun
    <2> HIDE DEF new
    <2>6. RunState(r)'
      BY <1>2, <2>1, <2>2, <2>3 DEF RunState
    <2>7. RunRows(r)'
      <3>1. \A k \in 1..current'[r] : \E s \in stepRuns' : s.run = r /\ s.step = k
        <4> SUFFICES ASSUME NEW k \in 1..current'[r]
                     PROVE  \E s \in stepRuns' : s.run = r /\ s.step = k
          OBVIOUS
        <4>1. k \in 1..current[r] \/ k = current[r] + 1
          BY <1>2, <2>3
        <4> QED
          BY <1>2, <2>5, <4>1 DEF RunRows
      <3>2. \A s \in stepRuns : s.run = r => s.step <= current[r] /\ s.status # "skipped"
        BY <1>2, <2>2 DEF RunRows
      <3>3. \A s \in stepRuns' : s.run = r =>
               /\ s.step <= current'[r]
               /\ s.status = "skipped" => s.step = current'[r] /\ stopped'[r] /\ pc'[r] # "executing"
        <4>1. \A s \in stepRuns : s.step \in Nat
          BY RunAssumption DEF ProgressInvariant, StepRun
        <4> QED
          BY <1>2, <2>1, <2>3, <2>4, <2>5, <3>2, <4>1
      <3>4. \A s, t \in stepRuns' : s.run = r /\ t.run = r /\ s.step = t.step => s = t
        <4>1. \A s \in stepRuns : s.run = r => s.step # current[r] + 1
          BY <1>2, <3>2
        <4> QED
          BY <1>2, <2>5, <4>1 DEF RunRows
      <3>5. stopped'[r] => \E s \in stepRuns' : s.run = r /\ s.status = "skipped"
        BY <2>3, <2>4, <2>5
      <3>6. record'[r] = "running"
        BY <2>2, <2>3
      <3> QED
        BY <3>1, <3>3, <3>4, <3>5, <3>6 DEF RunRows
    <2>8. pc' \in [Writers -> WriterPCs]
      BY <1>1, <1>10 DEF FinishStep, Goto, WriterPCs, RunPCs
    <2>9. \A w \in Runs : RunState(w)' /\ RunRows(w)'
      <3>1. stepRuns \subseteq stepRuns' /\ \A s \in stepRuns' \ stepRuns : s.run = r
        BY <2>5
      <3> QED
        BY <2>1, <2>3, <2>6, <2>7, <3>1, OthersUndisturbed
    <2> QED
      BY <2>3, <2>5, <2>8, <2>9 DEF ProgressInvariant
  <1>11. CASE Complete(r)
    <2>1. pc'[r] = "completed" /\ \A w \in Runs \ {r} : pc'[w] = pc[w]
      BY <1>3, <1>11, RunsAreWriters DEF Complete
    <2>2. /\ record'[r] = Outcome(r) /\ \A w \in Runs \ {r} : record'[w] = record[w]
          /\ record' \in [Runs -> {"none", "running"} \cup Outcomes]
          /\ UNCHANGED <<stepRuns, current, stopped>>
      BY <1>11 DEF Complete, ProgressInvariant, run, Outcome, Outcomes
    <2>3. RunState(r)'
      BY <1>2, <1>11, <2>1, <2>2 DEF RunState, Complete, Ready, Outcome, Outcomes
    <2>4. RunRows(r)'
      <3>1. Outcome(r) = "success" => \A s \in stepRuns : s.run = r => s.status = "success"
        BY DEF Outcome
      <3>2. pc[r] = "loop" /\ (stopped[r] \/ current[r] = Steps)
        BY <1>11 DEF Complete, Ready
      <3>3. stopped[r] => Outcome(r) # "success"
        BY <1>2, <3>1, <3>2 DEF RunRows
      <3> QED
        BY <1>2, <2>1, <2>2, <3>1, <3>2, <3>3 DEF RunRows
    <2>5. pc' \in [Writers -> WriterPCs]
      BY <1>1, <1>11 DEF Complete, Goto, WriterPCs, RunPCs
    <2> QED
      BY <2>1, <2>2, <2>3, <2>4, <2>5, OthersUndisturbed DEF ProgressInvariant
  <1> QED
    BY <1>4, <1>6, <1>7, <1>8, <1>9, <1>10, <1>11 DEF RunProceeds

\* A step that is not a run's.
LEMMA ProgressApart ==
    ASSUME ProgressInvariant, UNCHANGED <<record, stepRuns, current, stopped>>,
           pc' \in [Writers -> WriterPCs],
           \A r \in Runs : pc'[r] = pc[r] \/ (pc'[r] = "lost" /\ pc[r] # "idle")
    PROVE  ProgressInvariant'
  <1> SUFFICES ASSUME NEW r \in Runs PROVE RunState(r)' /\ RunRows(r)'
    BY DEF ProgressInvariant
  <1>1. RunState(r) /\ RunRows(r)
    BY DEF ProgressInvariant
  <1>2. CASE pc'[r] = pc[r]
    BY <1>1, <1>2 DEF RunState, RunRows
  <1>3. CASE pc'[r] = "lost" /\ pc[r] # "idle"
    BY <1>1, <1>3 DEF RunState, RunRows, Before, InLoop, After
  <1> QED
    BY <1>2, <1>3

\* What the steps that are no run's leave alone.
LEMMA Apart ==
    ASSUME ProgressInvariant, [Next]_vars, ~ \E r \in Runs : RunProceeds(r)
    PROVE  /\ UNCHANGED <<record, stepRuns, checkpoints, current, stopped, reported>>
           /\ \A r \in Runs : pc'[r] = pc[r] \/ (pc'[r] = "lost" /\ pc[r] # "idle")
           /\ pc' \in [Writers -> WriterPCs]
  <1>1. pc \in [Writers -> WriterPCs]
    BY DEF ProgressInvariant
  <1>2. ASSUME NEW b \in Backfills, BackfillProceeds(b)
        PROVE  /\ UNCHANGED <<record, stepRuns, checkpoints, current, stopped, reported>>
               /\ (\A r \in Runs : pc'[r] = pc[r]) /\ pc' \in [Writers -> WriterPCs]
    <2>1. (\E there \in WriterPCs : Goto(b, there)) \/ pc' = pc
      BY <1>2 DEF BackfillProceeds, LoadRuns, LoadSteps, Load, BackfillRow, FinishBackfill, WriterPCs
    <2>2. b \notin Runs
      BY RunAssumption
    <2>3. (\A r \in Runs : pc'[r] = pc[r]) /\ pc' \in [Writers -> WriterPCs]
      BY <1>1, <2>1, <2>2, RunsAreWriters DEF Goto
    <2> QED
      BY <1>2, <2>3
      DEF BackfillProceeds, LoadRuns, LoadSteps, Load, BackfillRow, FinishBackfill, trail, run
  <1>3. ASSUME (\E w \in Writers : Commit(w)) \/ UNCHANGED vars
        PROVE  UNCHANGED <<record, stepRuns, checkpoints, current, stopped, reported, pc>>
    BY <1>3 DEF Commit, vars, trail, run
  <1>4. CASE Interrupt
    <2>1. UNCHANGED <<record, stepRuns, checkpoints, current, stopped, reported>>
      BY <1>4 DEF Interrupt, trail, run
    <2>2. PICK gone \in (SUBSET Working) \ {{}} :
             pc' = [w \in Writers |-> IF w \in gone THEN "lost" ELSE pc[w]]
      BY <1>4 DEF Interrupt
    <2>3. \A r \in Runs : pc'[r] = pc[r] \/ (pc'[r] = "lost" /\ pc[r] # "idle")
      BY <2>2, RunsAreWriters DEF Working
    <2>4. pc' \in [Writers -> WriterPCs]
      BY <1>1, <2>2 DEF WriterPCs
    <2> QED
      BY <2>1, <2>3, <2>4
  <1> QED
    BY <1>1, <1>2, <1>3, <1>4 DEF Next, Quiet

LEMMA ProgressNext == ProgressInvariant /\ [Next]_vars => ProgressInvariant'
  BY ProgressRun, Apart, ProgressApart

LEMMA ProgressHolds == Spec => []ProgressInvariant
  BY ProgressInit, ProgressNext, PTL DEF Spec

\* A run reported as a success executed every enabled step successfully, and
\* nothing follows a skipped step, wherever it was interrupted
\* (run_orchestration, has_failure and the cancel branch).
THEOREM SuccessesAreWhole == Spec => []SuccessIsWhole
  <1>1. ASSUME ProgressInvariant PROVE SuccessIsWhole
    <2> SUFFICES ASSUME NEW r \in Runs
                 PROVE  /\ record[r] = "success" =>
                             \A i \in 1..Steps : [run |-> r, step |-> i, status |-> "success"] \in stepRuns
                        /\ \A s, t \in stepRuns :
                             s.run = r /\ t.run = r /\ s.status = "skipped" => t.step <= s.step
      BY DEF SuccessIsWhole
    <2>1. RunRows(r)
      BY <1>1 DEF ProgressInvariant
    <2>2. ASSUME record[r] = "success", NEW i \in 1..Steps
          PROVE  [run |-> r, step |-> i, status |-> "success"] \in stepRuns
      <3>1. PICK s \in stepRuns : s.run = r /\ s.step = i
        BY <2>1, <2>2 DEF RunRows
      <3>2. s.status = "success" /\ s \in StepRun
        BY <1>1, <2>1, <2>2, <3>1 DEF RunRows, ProgressInvariant
      <3>3. s = [run |-> r, step |-> i, status |-> "success"]
        BY <3>1, <3>2 DEF StepRun
      <3> QED
        BY <3>3
    <2> QED
      BY <2>1, <2>2 DEF RunRows
  <1> QED
    BY <1>1, ProgressHolds, PTL
-----------------------------------------------------------------------------
(* Evidence and what it is of *)

\* The row is in its table.
Stored(x) ==
    IF x.step = 0 THEN record[x.run] # "none"
    ELSE \E s \in stepRuns : s.run = x.run /\ s.step = x.step

\* EvidenceIsBacked but for the count, with what will be evidence: events on
\* their way to the ledger and rows a backfill has loaded.
EvidenceInvariant ==
    /\ checkpoints \subseteq Checkpoint /\ IsFiniteSet(checkpoints)
    /\ reported \in [Runs -> Nat]
    /\ rows \in [Backfills -> SUBSET Row]
    /\ todo \in [Backfills -> SUBSET Row]
    /\ crashes \in Nat
    /\ LedgerTypeOK
    /\ IsFiniteSet(Ledger) /\ Cardinality(Ledger) = Len(historyEvents)
    /\ \A e \in Ledger : Backed(e)
    /\ \A c \in checkpoints : Backed(c)
    /\ \A w \in Writers : appending[w] # NoEvent => Backed(appending[w])
    /\ \A b \in Backfills : todo[b] \subseteq rows[b] /\ \A x \in rows[b] : Stored(x)

LEMMA EvidenceInit == Init => EvidenceInvariant
  <1> SUFFICES ASSUME Init PROVE EvidenceInvariant
    OBVIOUS
  <1>1. Ledger = {} /\ historyEvents = << >>
    BY DEF Init, LedgerInit, Ledger
  <1> QED
    BY <1>1, FS_EmptySet DEF Init, LedgerInit, EvidenceInvariant, LedgerTypeOK

LEMMA RecordedMeans ==
    ASSUME NEW e
    PROVE  Recorded(e) <=> e \in Ledger
  BY DEF Recorded, Ledger

LEMMA LedgerGrows ==
    ASSUME historyEvents \in Seq(Event), NEW e \in Event,
           historyEvents' = Append(historyEvents, e)
    PROVE  Ledger' = Ledger \cup {e} /\ Len(historyEvents') = Len(historyEvents) + 1
  BY DEF Ledger

\* Rows are only added, and a run's status is written twice at most.
LEMMA TrailGrows ==
    ASSUME ProgressInvariant, [Next]_vars
    PROVE  /\ \A r \in Runs : /\ record'[r] = record[r] \/ (record[r] \in {"none", "running"} /\ record'[r] # "none")
                              /\ current[r] \in Nat /\ current'[r] \in Nat /\ current[r] <= current'[r]
           /\ stepRuns \subseteq stepRuns'
  <1>1. /\ current \in [Runs -> 0..Steps] /\ record \in [Runs -> {"none", "running"} \cup Outcomes]
        /\ Steps \in Nat
    BY RunAssumption DEF ProgressInvariant
  <1>2. CASE UNCHANGED <<record, current, stepRuns>>
    BY <1>1, <1>2
  <1>3. ASSUME NEW r \in Runs, RunProceeds(r)
        PROVE  \/ UNCHANGED <<record, current, stepRuns>>
               \/ Accept(r) \/ FinishStep(r) \/ Complete(r)
    BY <1>3 DEF RunProceeds, RecordAccepted, CheckpointAccepted, StartStep, RecordStep, Record,
                CheckpointStep, RecordCompleted, CheckpointCompleted, Return, trail, run
  <1>4. ASSUME NEW r \in Runs, Accept(r)
        PROVE  /\ UNCHANGED <<current, stepRuns>> /\ record[r] = "none"
               /\ record' = [record EXCEPT ![r] = "running"]
    BY <1>4 DEF Accept, Ready, run, ProgressInvariant, RunState
  <1>5. ASSUME NEW r \in Runs, FinishStep(r)
        PROVE  /\ record' = record /\ stepRuns \subseteq stepRuns'
               /\ current' = [current EXCEPT ![r] = @ + 1]
    BY <1>5 DEF FinishStep
  <1>6. ASSUME NEW r \in Runs, Complete(r)
        PROVE  /\ UNCHANGED <<current, stepRuns>> /\ record[r] = "running"
               /\ record' = [record EXCEPT ![r] = Outcome(r)] /\ Outcome(r) # "none"
    BY <1>6 DEF Complete, Ready, run, ProgressInvariant, RunState, Outcome, InLoop
  <1>7. CASE \E r \in Runs : RunProceeds(r)
    BY <1>1, <1>2, <1>3, <1>4, <1>5, <1>6, <1>7
  <1>8. CASE \E b \in Backfills : BackfillProceeds(b)
    BY <1>2, <1>8 DEF BackfillProceeds, LoadRuns, LoadSteps, Load, BackfillRow, FinishBackfill, trail, run
  <1>9. CASE (\E w \in Writers : Commit(w)) \/ Interrupt \/ UNCHANGED vars
    BY <1>2, <1>9 DEF Commit, Interrupt, vars, trail, run
  <1> QED
    BY <1>7, <1>8, <1>9 DEF Next, Quiet

\* So evidence stays backed.
LEMMA BackedStays ==
    ASSUME ProgressInvariant, [Next]_vars
    PROVE  /\ \A e \in Event \cup Checkpoint : Backed(e) => Backed(e)'
           /\ \A x \in Row : Stored(x) => Stored(x)'
  <1>1. \A r \in Runs : /\ record'[r] = record[r] \/ (record[r] \in {"none", "running"} /\ record'[r] # "none")
                        /\ current[r] \in Nat /\ current'[r] \in Nat /\ current[r] <= current'[r]
    BY TrailGrows
  <1>2. stepRuns \subseteq stepRuns'
    BY TrailGrows
  <1>3. ASSUME NEW e \in Event \cup Checkpoint, Backed(e) PROVE Backed(e)'
    <2>1. e.run \in Runs /\ e.step \in Nat
      BY RunAssumption DEF Event, Checkpoint
    <2> QED
      BY <1>1, <1>2, <1>3, <2>1 DEF Backed, Outcomes
  <1>4. ASSUME NEW x \in Row, Stored(x) PROVE Stored(x)'
    <2>1. x.run \in Runs
      BY DEF Row
    <2> QED
      BY <1>1, <1>2, <1>4, <2>1 DEF Stored
  <1> QED
    BY <1>3, <1>4

\* What a step may do to the evidence.
Effects ==
    /\ \/ checkpoints' = checkpoints
       \/ \E c \in Checkpoint : Backed(c) /\ checkpoints' = checkpoints \cup {c}
    /\ appending' \in [Writers -> Event \cup {NoEvent}]
    /\ \A w \in Writers :
          appending'[w] \in {appending[w], NoEvent} \/ (appending'[w] \in Event /\ Backed(appending'[w]))
    /\ \/ historyEvents' = historyEvents
       \/ \E e \in Event : Backed(e) /\ ~ Recorded(e) /\ historyEvents' = Append(historyEvents, e)
    /\ rows' \in [Backfills -> SUBSET Row] /\ todo' \in [Backfills -> SUBSET Row]
    /\ \A b \in Backfills : todo'[b] \subseteq rows'[b] /\ \A x \in rows'[b] : x \in rows[b] \/ Stored(x)
    /\ reported' \in [Runs -> Nat] /\ crashes' \in Nat

LEMMA EvidenceKept ==
    ASSUME ProgressInvariant, EvidenceInvariant, [Next]_vars, Effects
    PROVE  EvidenceInvariant'
  <1>1. /\ \A e \in Event \cup Checkpoint : Backed(e) => Backed(e)'
        /\ \A x \in Row : Stored(x) => Stored(x)'
    BY BackedStays
  <1>2. checkpoints' \subseteq Checkpoint /\ IsFiniteSet(checkpoints') /\ \A c \in checkpoints' : Backed(c)'
    <2>1. checkpoints \subseteq Checkpoint /\ IsFiniteSet(checkpoints) /\ \A c \in checkpoints : Backed(c)
      BY DEF EvidenceInvariant
    <2>2. CASE checkpoints' = checkpoints
      BY <1>1, <2>1, <2>2
    <2>3. ASSUME NEW c \in Checkpoint, Backed(c), checkpoints' = checkpoints \cup {c}
          PROVE  checkpoints' \subseteq Checkpoint /\ IsFiniteSet(checkpoints') /\ \A k \in checkpoints' : Backed(k)'
      <3>1. IsFiniteSet(checkpoints')
        BY <2>1, <2>3, FS_AddElement
      <3> QED
        BY <1>1, <2>1, <2>3, <3>1
    <2> QED
      BY <2>2, <2>3 DEF Effects
  <1>3. LedgerTypeOK' /\ (\A w \in Writers : appending[w] # NoEvent => Backed(appending[w]))'
    <2>1. historyEvents' \in Seq(Event)
      <3>1. historyEvents \in Seq(Event)
        BY DEF EvidenceInvariant, LedgerTypeOK
      <3> QED
        BY <3>1 DEF Effects
    <2>2. ASSUME NEW w \in Writers, appending'[w] # NoEvent PROVE (Backed(appending[w]))'
      <3>1. appending'[w] \in Event /\ Backed(appending'[w])
        BY <2>2 DEF Effects, EvidenceInvariant
      <3>2. PICK e \in Event : e = appending'[w] /\ Backed(e)
        BY <3>1
      <3>3. Backed(e)'
        BY <1>1, <3>2
      <3> QED
        BY <3>2, <3>3 DEF Backed
    <2> QED
      BY <2>1, <2>2 DEF Effects, LedgerTypeOK
  <1>4. IsFiniteSet(Ledger') /\ Cardinality(Ledger') = Len(historyEvents') /\ \A e \in Ledger' : Backed(e)'
    <2>1. /\ historyEvents \in Seq(Event) /\ IsFiniteSet(Ledger)
          /\ Cardinality(Ledger) = Len(historyEvents) /\ \A e \in Ledger : e \in Event /\ Backed(e)
      BY DEF EvidenceInvariant, LedgerTypeOK, Ledger
    <2>2. CASE historyEvents' = historyEvents
      <3>1. Ledger' = Ledger
        BY <2>2 DEF Ledger
      <3> QED
        BY <1>1, <2>1, <2>2, <3>1
    <2>3. ASSUME NEW e \in Event, Backed(e), ~ Recorded(e), historyEvents' = Append(historyEvents, e)
          PROVE  IsFiniteSet(Ledger') /\ Cardinality(Ledger') = Len(historyEvents') /\ \A k \in Ledger' : Backed(k)'
      <3>1. Ledger' = Ledger \cup {e} /\ Len(historyEvents') = Len(historyEvents) + 1
        BY <2>1, <2>3, LedgerGrows
      <3>2. e \notin Ledger
        BY <2>3, RecordedMeans
      <3>3. IsFiniteSet(Ledger') /\ Cardinality(Ledger') = Cardinality(Ledger) + 1
        BY <2>1, <3>1, <3>2, FS_AddElement
      <3> QED
        BY <1>1, <2>1, <2>3, <3>1, <3>3
    <2> QED
      BY <2>2, <2>3 DEF Effects
  <1>5. \A b \in Backfills : \A x \in rows'[b] : Stored(x)'
    <2> SUFFICES ASSUME NEW b \in Backfills, NEW x \in rows'[b] PROVE Stored(x)'
      OBVIOUS
    <2>1. x \in Row /\ Stored(x)
      BY DEF Effects, EvidenceInvariant
    <2> QED
      BY <1>1, <2>1
  <1> QED
    BY <1>2, <1>3, <1>4, <1>5 DEF EvidenceInvariant, Effects

LEMMA EffectsOfRecord ==
    ASSUME EvidenceInvariant, NEW w \in Writers, NEW e \in Event, Backed(e), AppendRead(w, e),
           UNCHANGED checkpoints
    PROVE  /\ \/ checkpoints' = checkpoints
              \/ \E c \in Checkpoint : Backed(c) /\ checkpoints' = checkpoints \cup {c}
           /\ appending' \in [Writers -> Event \cup {NoEvent}]
           /\ \A v \in Writers :
                appending'[v] \in {appending[v], NoEvent} \/ (appending'[v] \in Event /\ Backed(appending'[v]))
           /\ historyEvents' = historyEvents
  <1>1. appending \in [Writers -> Event \cup {NoEvent}]
    BY DEF EvidenceInvariant, LedgerTypeOK
  <1>2. /\ appending' = [appending EXCEPT ![w] = IF Recorded(e) THEN NoEvent ELSE e]
        /\ historyEvents' = historyEvents
    BY DEF AppendRead
  <1>3. appending'[w] \in {e, NoEvent} /\ \A v \in Writers \ {w} : appending'[v] = appending[v]
    BY <1>1, <1>2
  <1>4. ASSUME NEW v \in Writers
        PROVE  appending'[v] \in {appending[v], NoEvent} \/ (appending'[v] \in Event /\ Backed(appending'[v]))
    <2>1. CASE v = w /\ appending'[v] = e
      BY <2>1
    <2>2. CASE v # w \/ appending'[v] = NoEvent
      BY <1>3, <2>2
    <2> QED
      BY <1>3, <2>1, <2>2
  <1> QED
    BY <1>1, <1>2, <1>4

LEMMA EffectsOfRun ==
    ASSUME ProgressInvariant, EvidenceInvariant, NEW r \in Runs, RunProceeds(r)
    PROVE  Effects
  <1>1. UNCHANGED <<backfill, crashes>>
    BY DEF RunProceeds, Accept, RecordAccepted, CheckpointAccepted, StartStep, FinishStep, RecordStep,
           Record, CheckpointStep, Complete, RecordCompleted, CheckpointCompleted, Return
  <1>2. /\ rows' \in [Backfills -> SUBSET Row] /\ todo' \in [Backfills -> SUBSET Row]
        /\ \A b \in Backfills : todo'[b] \subseteq rows'[b] /\ \A x \in rows'[b] : x \in rows[b] \/ Stored(x)
        /\ crashes' \in Nat
    BY <1>1 DEF backfill, EvidenceInvariant
  <1>3. /\ RunState(r) /\ r \in Writers /\ Steps \in Nat /\ current[r] \in 0..Steps
        /\ record[r] \in {"none", "running"} \cup Outcomes
    BY RunAssumption, RunsAreWriters DEF ProgressInvariant
  <1>4. reported' \in [Runs -> Nat]
    <2>1. CASE Return(r)
      <3>1. 2 + current[r] * 2 \in Nat
        BY <1>3
      <3> QED
        BY <2>1, <3>1 DEF Return, EvidenceInvariant
    <2>2. CASE ~ Return(r)
      <3>1. reported' = reported
        BY <2>2 DEF RunProceeds, Accept, RecordAccepted, CheckpointAccepted, StartStep, FinishStep, RecordStep,
               Record, CheckpointStep, Complete, RecordCompleted, CheckpointCompleted, run
      <3> QED
        BY <3>1 DEF EvidenceInvariant
    <2> QED
      BY <2>1, <2>2
  <1>5. ASSUME NEW step \in 0..Steps, NEW type, NEW there,
               [run |-> r, step |-> step, type |-> type] \in Event,
               Backed([run |-> r, step |-> step, type |-> type]),
               Record(r, step, type, there)
        PROVE  Effects
    <2> DEFINE e == [run |-> r, step |-> step, type |-> type]
    <2>1. e \in Event /\ Backed(e) /\ AppendRead(r, e) /\ UNCHANGED checkpoints
      BY <1>5 DEF Record, trail
    <2> HIDE DEF e
    <2> QED
      BY <1>2, <1>3, <1>4, <2>1, EffectsOfRecord DEF Effects
  <1>6. ASSUME NEW step \in 0..Steps, NEW type,
               [run |-> r, step |-> step, type |-> type] \in Checkpoint,
               Backed([run |-> r, step |-> step, type |-> type]),
               WriteCheckpoint(r, step, type), UNCHANGED ledger
        PROVE  Effects
    BY <1>2, <1>4, <1>6 DEF WriteCheckpoint, ledger, Effects, EvidenceInvariant, LedgerTypeOK
  <1>7. CASE Accept(r) \/ FinishStep(r) \/ Complete(r) \/ Return(r)
    BY <1>2, <1>4, <1>7 DEF Accept, FinishStep, Complete, Return, trail, ledger, Effects,
                            EvidenceInvariant, LedgerTypeOK
  <1>8. CASE RecordAccepted(r)
    <2>1. pc[r] = "accepted" /\ Record(r, 0, "accepted", "acceptedRecorded")
      BY <1>8 DEF RecordAccepted, Ready
    <2> DEFINE e == [run |-> r, step |-> 0, type |-> "accepted"]
    <2>2. e \in Event /\ Backed(e)
      BY <1>3, <2>1 DEF Event, Backed, Outcomes, RunState
    <2> QED
      BY <1>3, <1>5, <2>1, <2>2
  <1>9. CASE RecordStep(r)
    <2>1. pc[r] = "stepped" /\ Record(r, current[r], StatusOf(r, current[r]), "stepRecorded")
      BY <1>9 DEF RecordStep, Ready
    <2>2. current[r] > 0
      BY <1>3, <2>1 DEF RunState
    <2> DEFINE e == [run |-> r, step |-> current[r], type |-> StatusOf(r, current[r])]
    <2>3. e \in Event
      BY <1>3, <2>2, StatusIs DEF Event
    <2>4. Backed(e)
      BY <1>3, <2>2, StatusIs DEF Backed, StepStatuses
    <2> QED
      BY <1>3, <1>5, <2>1, <2>3, <2>4
  <1>10. CASE RecordCompleted(r)
    <2>1. pc[r] = "completed" /\ Record(r, 0, record[r], "completedRecorded")
      BY <1>10 DEF RecordCompleted, Ready
    <2> DEFINE e == [run |-> r, step |-> 0, type |-> record[r]]
    <2>2. e \in Event /\ Backed(e)
      BY <1>3, <2>1 DEF Event, Backed, RunState, After
    <2> QED
      BY <1>3, <1>5, <2>1, <2>2
  <1>11. CASE CheckpointAccepted(r)
    <2>1. pc[r] = "acceptedRecorded" /\ WriteCheckpoint(r, 0, "accepted") /\ UNCHANGED ledger
      BY <1>11 DEF CheckpointAccepted, Ready
    <2> DEFINE c == [run |-> r, step |-> 0, type |-> "accepted"]
    <2>2. c \in Checkpoint /\ Backed(c)
      BY <1>3, <2>1 DEF Checkpoint, Backed, Outcomes, RunState
    <2> QED
      BY <1>3, <1>6, <2>1, <2>2
  <1>12. CASE StartStep(r)
    <2>1. pc[r] = "loop" /\ current[r] < Steps /\ WriteCheckpoint(r, current[r] + 1, "started") /\ UNCHANGED ledger
      BY <1>12 DEF StartStep, Ready
    <2> DEFINE c == [run |-> r, step |-> current[r] + 1, type |-> "started"]
    <2>2. c \in Checkpoint /\ current[r] + 1 \in 0..Steps
      BY <1>3, <2>1 DEF Checkpoint
    <2>3. Backed(c)
      BY <1>3, <2>1 DEF Backed, RunState, InLoop
    <2> QED
      BY <1>6, <2>1, <2>2, <2>3
  <1>13. CASE CheckpointStep(r)
    <2>1. pc[r] = "stepRecorded" /\ WriteCheckpoint(r, current[r], StatusOf(r, current[r])) /\ UNCHANGED ledger
      BY <1>13 DEF CheckpointStep, Ready
    <2>2. current[r] > 0
      BY <1>3, <2>1 DEF RunState
    <2> DEFINE c == [run |-> r, step |-> current[r], type |-> StatusOf(r, current[r])]
    <2>3. c \in Checkpoint
      BY <1>3, <2>2, StatusIs DEF Checkpoint
    <2>4. Backed(c)
      BY <1>3, <2>2, StatusIs DEF Backed, StepStatuses
    <2> QED
      BY <1>3, <1>6, <2>1, <2>3, <2>4
  <1>14. CASE CheckpointCompleted(r)
    <2>1. pc[r] = "completedRecorded" /\ WriteCheckpoint(r, 0, record[r]) /\ UNCHANGED ledger
      BY <1>14 DEF CheckpointCompleted, Ready
    <2> DEFINE c == [run |-> r, step |-> 0, type |-> record[r]]
    <2>2. c \in Checkpoint /\ Backed(c)
      BY <1>3, <2>1 DEF Checkpoint, Backed, RunState, After
    <2> QED
      BY <1>3, <1>6, <2>1, <2>2
  <1> QED
    BY <1>7, <1>8, <1>9, <1>10, <1>11, <1>12, <1>13, <1>14 DEF RunProceeds

LEMMA EffectsOfBackfill ==
    ASSUME ProgressInvariant, EvidenceInvariant, NEW b \in Backfills, BackfillProceeds(b)
    PROVE  Effects
  <1>1. UNCHANGED <<checkpoints, reported, crashes>>
    BY DEF BackfillProceeds, LoadRuns, LoadSteps, Load, BackfillRow, FinishBackfill, trail, run
  <1>2. reported' \in [Runs -> Nat] /\ crashes' \in Nat
    BY <1>1 DEF EvidenceInvariant
  <1>3. /\ rows \in [Backfills -> SUBSET Row] /\ todo \in [Backfills -> SUBSET Row]
        /\ todo[b] \subseteq rows[b] /\ b \in Writers
        /\ appending \in [Writers -> Event \cup {NoEvent}]
    BY RunsAreWriters DEF EvidenceInvariant, LedgerTypeOK
  <1>4. ASSUME NEW found \in SUBSET Row, \A x \in found : Stored(x), NEW there, Load(b, found, there)
        PROVE  Effects
    <2>1. UNCHANGED ledger
      BY <1>4 DEF Load
    <2>2. /\ rows' = [rows EXCEPT ![b] = rows[b] \cup found] /\ todo' = [todo EXCEPT ![b] = found]
      BY <1>4 DEF Load
    <2>3. rows' \in [Backfills -> SUBSET Row] /\ todo' \in [Backfills -> SUBSET Row]
      BY <1>3, <2>2
    <2>4. \A a \in Backfills : todo'[a] \subseteq rows'[a] /\ \A x \in rows'[a] : x \in rows[a] \/ Stored(x)
      BY <1>3, <1>4, <2>2 DEF EvidenceInvariant
    <2> QED
      BY <1>1, <1>2, <1>3, <2>1, <2>3, <2>4 DEF Effects, ledger
  <1>5. CASE LoadRuns(b)
    <2> DEFINE found == {[run |-> r, step |-> 0] : r \in {r \in Runs : record[r] # "none"}}
    <2>1. found \subseteq Row /\ \A x \in found : Stored(x)
      BY RunAssumption DEF Row, Stored
    <2> QED
      BY <1>4, <1>5, <2>1 DEF LoadRuns
  <1>6. CASE LoadSteps(b)
    <2> DEFINE found == {[run |-> s.run, step |-> s.step] : s \in stepRuns}
    <2>1. \A s \in stepRuns : s.run \in Runs /\ s.step \in 1..Steps
      BY DEF ProgressInvariant, StepRun
    <2>2. found \subseteq Row /\ \A x \in found : Stored(x)
      BY RunAssumption, <2>1 DEF Row, Stored
    <2> QED
      BY <1>4, <1>6, <2>2 DEF LoadSteps
  <1>7. CASE BackfillRow(b)
    <2>1. PICK x \in todo[b] : /\ AppendRead(b, [run |-> x.run, step |-> x.step, type |-> "backfilled"])
                               /\ todo' = [todo EXCEPT ![b] = todo[b] \ {x}]
      BY <1>7 DEF BackfillRow
    <2>2. x \in Row /\ Stored(x) /\ x.run \in Runs /\ x.step \in 0..Steps
      BY <1>3 DEF EvidenceInvariant, Row
    <2> DEFINE e == [run |-> x.run, step |-> x.step, type |-> "backfilled"]
    <2>3. e \in Event
      BY <2>2 DEF Event
    <2>4. Backed(e)
      BY RunAssumption, <2>2 DEF Backed, Stored, Outcomes
    <2>5. rows' = rows
      BY <1>7 DEF BackfillRow
    <2>6. /\ rows' \in [Backfills -> SUBSET Row] /\ todo' \in [Backfills -> SUBSET Row]
          /\ \A a \in Backfills : todo'[a] \subseteq rows'[a] /\ \A y \in rows'[a] : y \in rows[a]
      BY <1>3, <2>1, <2>5 DEF EvidenceInvariant
    <2>7. AppendRead(b, e)
      BY <2>1
    <2> HIDE DEF e
    <2> QED
      BY <1>1, <1>2, <1>3, <2>3, <2>4, <2>6, <2>7, EffectsOfRecord DEF Effects
  <1>8. CASE FinishBackfill(b)
    BY <1>1, <1>2, <1>3, <1>8 DEF FinishBackfill, backfill, ledger, Effects, EvidenceInvariant
  <1> QED
    BY <1>5, <1>6, <1>7, <1>8 DEF BackfillProceeds

LEMMA EffectsOfRest ==
    ASSUME ProgressInvariant, EvidenceInvariant,
           (\E w \in Writers : Commit(w)) \/ Interrupt \/ UNCHANGED vars
    PROVE  Effects
  <1>1. UNCHANGED <<checkpoints, reported, rows, todo>>
    BY DEF Commit, Interrupt, vars, trail, run, backfill
  <1>2. appending \in [Writers -> Event \cup {NoEvent}]
    BY DEF EvidenceInvariant, LedgerTypeOK
  <1>3. ASSUME NEW w \in Writers, Commit(w) PROVE Effects
    <2>1. appending[w] # NoEvent /\ appending' = [appending EXCEPT ![w] = NoEvent] /\ crashes' = crashes
      BY <1>3 DEF Commit, AppendCommit
    <2>2. /\ appending' \in [Writers -> Event \cup {NoEvent}]
          /\ \A v \in Writers : appending'[v] \in {appending[v], NoEvent}
      BY <1>2, <2>1
    <2>3. \/ historyEvents' = historyEvents
          \/ \E e \in Event : Backed(e) /\ ~ Recorded(e) /\ historyEvents' = Append(historyEvents, e)
      BY <1>2, <1>3, <2>1 DEF Commit, AppendCommit, EvidenceInvariant
    <2> QED
      BY <1>1, <2>1, <2>2, <2>3 DEF Effects, EvidenceInvariant
  <1>4. CASE Interrupt
    <2>1. historyEvents' = historyEvents /\ crashes' = crashes + 1
      BY <1>4 DEF Interrupt
    <2>2. PICK gone \in (SUBSET Working) \ {{}} :
             appending' = [w \in Writers |-> IF w \in gone THEN NoEvent ELSE appending[w]]
      BY <1>4 DEF Interrupt
    <2>3. /\ appending' \in [Writers -> Event \cup {NoEvent}]
          /\ \A v \in Writers : appending'[v] \in {appending[v], NoEvent}
      BY <1>2, <2>2
    <2>4. crashes' \in Nat
      BY <2>1 DEF EvidenceInvariant
    <2> QED
      BY <1>1, <2>1, <2>3, <2>4 DEF Effects, EvidenceInvariant
  <1>5. CASE UNCHANGED vars
    BY <1>1, <1>2, <1>5 DEF vars, ledger, Effects, EvidenceInvariant
  <1> QED
    BY <1>3, <1>4, <1>5

LEMMA EvidenceNext ==
    ProgressInvariant /\ EvidenceInvariant /\ [Next]_vars => EvidenceInvariant'
  BY EvidenceKept, EffectsOfRun, EffectsOfBackfill, EffectsOfRest DEF Next, Quiet

LEMMA EvidenceHolds == Spec => []EvidenceInvariant
  BY ProgressHolds, EvidenceInit, EvidenceNext, PTL DEF Spec

\* Every row, event and checkpoint of a run and every row a backfill has
\* loaded is what its type says; a step that is looked up has its row.
THEOREM TypeCorrect == Spec => []TypeOK
  <1>1. ProgressInvariant /\ EvidenceInvariant => TypeOK
    BY DEF ProgressInvariant, EvidenceInvariant, TypeOK, WriterPCs
  <1> QED
    BY <1>1, ProgressHolds, EvidenceHolds, PTL
-----------------------------------------------------------------------------
(* How many checkpoints a run has written *)

Written(r) == {c \in checkpoints : c.run = r}

\* One when it is accepted and one when it ends, two for each step.
Counts(r) ==
    /\ pc[r] \in Before => Written(r) = {}
    /\ pc[r] \in {"loop", "completed", "completedRecorded"} => Cardinality(Written(r)) = 1 + 2 * current[r]
    /\ pc[r] \in {"stepped", "stepRecorded"} => Cardinality(Written(r)) = 2 * current[r]
    /\ pc[r] \in {"executing", "persisting", "returned"} => Cardinality(Written(r)) = 2 + 2 * current[r]
    /\ pc[r] = "returned" => reported[r] = Cardinality(Written(r))

\* What may already be there: so what is written next is not.
Places(r) == \A c \in checkpoints : c.run = r =>
    /\ c.step > 0 /\ c.type = "started" =>
          /\ c.step <= current[r] + 1
          /\ pc[r] \in {"loop", "stepped", "stepRecorded"} => c.step <= current[r]
    /\ c.step > 0 /\ c.type # "started" =>
          /\ c.step <= current[r]
          /\ pc[r] \in {"stepped", "stepRecorded"} => c.step < current[r]
    /\ c.step = 0 /\ c.type \in Outcomes => pc[r] \in {"persisting", "returned", "lost"}

CountInvariant == \A r \in Runs : Counts(r) /\ Places(r)

LEMMA CountInit == Init => CountInvariant
  BY RunsAreWriters DEF Init, CountInvariant, Counts, Places, Written

LEMMA WrittenGrows ==
    ASSUME EvidenceInvariant, NEW r \in Runs, NEW step, NEW type,
           [run |-> r, step |-> step, type |-> type] \notin checkpoints,
           WriteCheckpoint(r, step, type)
    PROVE  /\ Cardinality(Written(r)) \in Nat
           /\ Cardinality(Written(r)') = Cardinality(Written(r)) + 1
           /\ \A w \in Runs \ {r} : Written(w)' = Written(w)
  <1> DEFINE c == [run |-> r, step |-> step, type |-> type]
  <1>1. checkpoints' = checkpoints \cup {c} /\ c \notin checkpoints /\ c.run = r
    BY DEF WriteCheckpoint
  <1> HIDE DEF c
  <1>2. Written(r)' = Written(r) \cup {c} /\ c \notin Written(r)
    BY <1>1 DEF Written
  <1>3. IsFiniteSet(Written(r))
    <2>1. Written(r) \in SUBSET checkpoints
      BY DEF Written
    <2> QED
      BY <2>1, FS_Subset DEF EvidenceInvariant
  <1>4. Cardinality(Written(r)) \in Nat
    BY <1>3, FS_CardinalityType
  <1>5. Cardinality(Written(r)') = Cardinality(Written(r)) + 1
    BY <1>2, <1>3, FS_AddElement
  <1>6. \A w \in Runs \ {r} : Written(w)' = Written(w)
    BY <1>1 DEF Written
  <1> QED
    BY <1>4, <1>5, <1>6

\* A step of one run does not change what the others have written.
LEMMA OthersWriteNothing ==
    ASSUME CountInvariant, NEW r \in Runs,
           \A w \in Runs \ {r} : /\ pc'[w] = pc[w] /\ current'[w] = current[w] /\ reported'[w] = reported[w]
                                 /\ Written(w)' = Written(w),
           Counts(r)', Places(r)'
    PROVE  CountInvariant'
  <1> SUFFICES ASSUME NEW w \in Runs \ {r} PROVE Counts(w)' /\ Places(w)'
    BY DEF CountInvariant
  <1>1. Counts(w) /\ Places(w)
    BY DEF CountInvariant
  <1>2. Counts(w)'
    BY <1>1 DEF Counts
  <1>3. \A c \in checkpoints' : c.run = w => c \in checkpoints
    BY DEF Written
  <1>4. Places(w)'
    BY <1>1, <1>3 DEF Places
  <1> QED
    BY <1>2, <1>4

LEMMA CountRun ==
    ASSUME ProgressInvariant, EvidenceInvariant, CountInvariant, NEW r \in Runs, RunProceeds(r)
    PROVE  CountInvariant'
  <1>1. /\ pc \in [Writers -> WriterPCs] /\ current \in [Runs -> 0..Steps]
        /\ reported \in [Runs -> Nat] /\ Steps \in Nat /\ r \in Writers
    BY RunAssumption, RunsAreWriters DEF ProgressInvariant, EvidenceInvariant
  <1>2. RunState(r) /\ Counts(r) /\ Places(r) /\ current[r] \in Nat
    BY <1>1 DEF ProgressInvariant, CountInvariant
  <1>3. ASSUME NEW there, Goto(r, there)
        PROVE  pc'[r] = there /\ \A w \in Runs \ {r} : pc'[w] = pc[w]
    BY <1>1, <1>3, RunsAreWriters DEF Goto
  <1>4. \A c \in checkpoints : c \in Checkpoint /\ c.step \in Nat /\ c.run \in Runs
    BY RunAssumption DEF EvidenceInvariant, Checkpoint
  <1>5. ASSUME checkpoints' = checkpoints, Counts(r)', Places(r)',
               \A w \in Runs \ {r} : /\ pc'[w] = pc[w] /\ current'[w] = current[w]
                                     /\ reported'[w] = reported[w]
        PROVE  CountInvariant'
    BY <1>5, OthersWriteNothing DEF Written
  <1> USE DEF Before
  <1>6. CASE Accept(r) \/ RecordAccepted(r) \/ RecordStep(r) \/ Complete(r) \/ RecordCompleted(r)
    <2>1. UNCHANGED <<checkpoints, current, reported>>
      BY <1>6 DEF Accept, RecordAccepted, RecordStep, Complete, RecordCompleted, Record, trail, run
    <2>2. /\ \/ pc[r] = "idle" /\ pc'[r] = "accepted"
             \/ pc[r] = "accepted" /\ pc'[r] = "acceptedRecorded"
             \/ pc[r] = "stepped" /\ pc'[r] = "stepRecorded"
             \/ pc[r] = "loop" /\ pc'[r] = "completed"
             \/ pc[r] = "completed" /\ pc'[r] = "completedRecorded"
          /\ \A w \in Runs \ {r} : pc'[w] = pc[w]
      BY <1>3, <1>6 DEF Accept, RecordAccepted, RecordStep, Complete, RecordCompleted, Record, Ready
    <2>3. Counts(r)' /\ Places(r)'
      BY <1>2, <2>1, <2>2 DEF Counts, Places, Written
    <2> QED
      BY <1>5, <2>1, <2>2, <2>3
  <1>7. CASE FinishStep(r)
    <2>1. /\ UNCHANGED <<checkpoints, reported>> /\ current' = [current EXCEPT ![r] = current[r] + 1]
          /\ pc[r] = "executing" /\ pc'[r] = "stepped" /\ \A w \in Runs \ {r} : pc'[w] = pc[w]
      BY <1>3, <1>7 DEF FinishStep, Ready
    <2>2. current'[r] = current[r] + 1 /\ \A w \in Runs \ {r} : current'[w] = current[w]
      BY <1>1, <2>1
    <2>3. Counts(r)'
      <3>1. Written(r)' = Written(r)
        BY <2>1 DEF Written
      <3>2. Cardinality(Written(r)) = 2 * (current[r] + 1)
        BY <1>2, <2>1 DEF Counts
      <3> QED
        BY <2>1, <2>2, <3>1, <3>2 DEF Counts
    <2>4. Places(r)'
      BY <1>2, <1>4, <2>1, <2>2 DEF Places
    <2> QED
      BY <1>5, <2>1, <2>2, <2>3, <2>4
  <1>8. CASE Return(r)
    <2>1. /\ UNCHANGED <<checkpoints, current>> /\ reported' = [reported EXCEPT ![r] = 2 + current[r] * 2]
          /\ pc[r] = "persisting" /\ pc'[r] = "returned" /\ \A w \in Runs \ {r} : pc'[w] = pc[w]
      BY <1>3, <1>8 DEF Return, Ready, trail
    <2>2. reported'[r] = 2 + 2 * current[r] /\ \A w \in Runs \ {r} : reported'[w] = reported[w]
      BY <1>1, <1>2, <2>1
    <2>3. Counts(r)' /\ Places(r)'
      BY <1>2, <2>1, <2>2 DEF Counts, Places, Written
    <2> QED
      BY <1>5, <2>1, <2>2, <2>3
  <1>9. ASSUME NEW step \in Nat, NEW type,
               [run |-> r, step |-> step, type |-> type] \notin checkpoints,
               WriteCheckpoint(r, step, type), UNCHANGED <<current, reported>>,
               \A w \in Runs \ {r} : pc'[w] = pc[w],
               Cardinality(Written(r)') = Cardinality(Written(r)) + 1 => Counts(r)', Places(r)'
        PROVE  CountInvariant'
    BY <1>9, WrittenGrows, OthersWriteNothing
  <1>10. CASE CheckpointAccepted(r)
    <2>1. /\ UNCHANGED <<current, reported>> /\ WriteCheckpoint(r, 0, "accepted")
          /\ pc[r] = "acceptedRecorded" /\ pc'[r] = "loop" /\ \A w \in Runs \ {r} : pc'[w] = pc[w]
      BY <1>3, <1>10 DEF CheckpointAccepted, Ready, run
    <2>2. Written(r) = {} /\ current[r] = 0
      BY <1>2, <2>1 DEF Counts, RunState
    <2>3. [run |-> r, step |-> 0, type |-> "accepted"] \notin checkpoints
      BY <2>2 DEF Written
    <2>4. Cardinality(Written(r)') = Cardinality(Written(r)) + 1 => Counts(r)'
      BY <2>1, <2>2, FS_EmptySet DEF Counts
    <2>5. Places(r)'
      BY <1>2, <2>1, <2>2 DEF Places, WriteCheckpoint, Written, Outcomes
    <2> QED
      BY <1>9, <2>1, <2>3, <2>4, <2>5
  <1>11. CASE StartStep(r)
    <2>1. /\ UNCHANGED <<current, reported>> /\ WriteCheckpoint(r, current[r] + 1, "started")
          /\ pc[r] = "loop" /\ pc'[r] = "executing" /\ \A w \in Runs \ {r} : pc'[w] = pc[w]
      BY <1>3, <1>11 DEF StartStep, Ready
    <2>2. [run |-> r, step |-> current[r] + 1, type |-> "started"] \notin checkpoints
      BY <1>2, <1>4, <2>1 DEF Places
    <2>3. Cardinality(Written(r)') = Cardinality(Written(r)) + 1 => Counts(r)'
      BY <1>2, <2>1 DEF Counts
    <2>4. Places(r)'
      BY <1>2, <1>4, <2>1 DEF Places, WriteCheckpoint
    <2> QED
      BY <1>2, <1>9, <2>1, <2>2, <2>3, <2>4
  <1>12. CASE CheckpointStep(r)
    <2>1. /\ UNCHANGED <<current, reported>> /\ WriteCheckpoint(r, current[r], StatusOf(r, current[r]))
          /\ pc[r] = "stepRecorded" /\ pc'[r] = "loop" /\ \A w \in Runs \ {r} : pc'[w] = pc[w]
      BY <1>3, <1>12 DEF CheckpointStep, Ready, run
    <2>2. current[r] > 0 /\ StatusOf(r, current[r]) # "started"
      <3>1. current[r] > 0
        BY <1>2, <2>1 DEF RunState
      <3> QED
        BY <3>1, StatusIs DEF StepStatuses
    <2>3. [run |-> r, step |-> current[r], type |-> StatusOf(r, current[r])] \notin checkpoints
      BY <1>2, <1>4, <2>1, <2>2 DEF Places
    <2>4. Cardinality(Written(r)') = Cardinality(Written(r)) + 1 => Counts(r)'
      BY <1>2, <2>1 DEF Counts
    <2>5. Places(r)'
      BY <1>2, <1>4, <2>1, <2>2 DEF Places, WriteCheckpoint
    <2> QED
      BY <1>2, <1>9, <2>1, <2>3, <2>4, <2>5
  <1>13. CASE CheckpointCompleted(r)
    <2>1. /\ UNCHANGED <<current, reported>> /\ WriteCheckpoint(r, 0, record[r])
          /\ pc[r] = "completedRecorded" /\ pc'[r] = "persisting" /\ \A w \in Runs \ {r} : pc'[w] = pc[w]
      BY <1>3, <1>13 DEF CheckpointCompleted, Ready, run
    <2>2. record[r] \in Outcomes
      BY <1>2, <2>1 DEF RunState, After
    <2>3. [run |-> r, step |-> 0, type |-> record[r]] \notin checkpoints
      BY <1>2, <2>1, <2>2 DEF Places
    <2>4. Cardinality(Written(r)') = Cardinality(Written(r)) + 1 => Counts(r)'
      BY <1>2, <2>1 DEF Counts
    <2>5. Places(r)'
      BY <1>2, <1>4, <2>1 DEF Places, WriteCheckpoint
    <2> QED
      BY <1>9, <2>1, <2>3, <2>4, <2>5
  <1> QED
    BY <1>6, <1>7, <1>8, <1>10, <1>11, <1>12, <1>13 DEF RunProceeds

LEMMA CountApart ==
    ASSUME CountInvariant, UNCHANGED <<checkpoints, current, reported>>,
           \A r \in Runs : pc'[r] = pc[r] \/ pc'[r] = "lost"
    PROVE  CountInvariant'
  <1> SUFFICES ASSUME NEW r \in Runs PROVE Counts(r)' /\ Places(r)'
    BY DEF CountInvariant
  <1>1. Counts(r) /\ Places(r) /\ Written(r)' = Written(r)
    BY DEF CountInvariant, Written
  <1> QED
    BY <1>1 DEF Counts, Places, Before

LEMMA CountNext ==
    ProgressInvariant /\ EvidenceInvariant /\ CountInvariant /\ [Next]_vars => CountInvariant'
  BY CountRun, CountApart, Apart

\* However runs, backfills and failures interleave, nothing on the ledger or
\* among the checkpoints says more than its row, no event is there twice and
\* the response's checkpoint_count is right (run_orchestration,
\* append_history_event, append_orchestration_checkpoint).
THEOREM EvidenceIsSound == Spec => []EvidenceIsBacked
  <1>1. EvidenceInvariant /\ CountInvariant => EvidenceIsBacked
    BY DEF EvidenceInvariant, CountInvariant, Counts, Written, EvidenceIsBacked
  <1> QED
    BY <1>1, ProgressHolds, EvidenceHolds, CountInit, CountNext, PTL DEF Spec
-----------------------------------------------------------------------------
(* What a run owes the ledger *)

\* The event a run is about to append: that of the row it committed last.
Due(r) ==
    IF pc[r] = "accepted" THEN {[run |-> r, step |-> 0, type |-> "accepted"]}
    ELSE IF pc[r] = "stepped"
    THEN {e \in Event : /\ e.run = r /\ e.step = current[r]
                        /\ [run |-> r, step |-> e.step, status |-> e.type] \in stepRuns}
    ELSE IF pc[r] = "completed" THEN {[run |-> r, step |-> 0, type |-> record[r]]}
    ELSE {appending[r]} \ {NoEvent}

DebtInvariant == \A r \in Runs :
    /\ appending[r] # NoEvent => pc[r] \in {"acceptedRecorded", "stepRecorded", "completedRecorded"}
    /\ pc[r] # "lost" => Owed(r) \subseteq Ledger \cup Due(r)
    /\ pc[r] = "lost" => \E e : Owed(r) \subseteq Ledger \cup {e}

LEMMA DebtInit == Init => DebtInvariant
  <1> SUFFICES ASSUME Init, NEW r \in Runs
               PROVE  appending[r] = NoEvent /\ Owed(r) = {}
    BY DEF DebtInvariant
  <1> QED
    BY RunsAreWriters DEF Init, LedgerInit, Owed, Outcomes

LEMMA OneIsDue ==
    ASSUME ProgressInvariant, NEW r \in Runs
    PROVE  \E e : Due(r) \subseteq {e}
  <1>1. CASE pc[r] = "stepped"
    <2>1. \A e, f \in Due(r) : e = f
      <3> SUFFICES ASSUME NEW e \in Due(r), NEW f \in Due(r) PROVE e = f
        OBVIOUS
      <3>1. /\ e \in Event /\ f \in Event /\ e.run = r /\ f.run = r
            /\ e.step = current[r] /\ f.step = current[r]
            /\ [run |-> r, step |-> e.step, status |-> e.type] \in stepRuns
            /\ [run |-> r, step |-> f.step, status |-> f.type] \in stepRuns
        BY <1>1 DEF Due
      <3>2. e.type = f.type
        BY <3>1 DEF ProgressInvariant, RunRows
      <3> QED
        BY <3>1, <3>2 DEF Event
    <2>2. CASE Due(r) = {}
      BY <2>2
    <2>3. CASE Due(r) # {}
      BY <2>1, <2>3
    <2> QED
      BY <2>2, <2>3
  <1>2. CASE pc[r] # "stepped"
    BY <1>2 DEF Due
  <1> QED
    BY <1>1, <1>2

LEMMA LedgerIsKept ==
    ASSUME EvidenceInvariant, [Next]_vars
    PROVE  Ledger \subseteq Ledger'
  <1>1. historyEvents \in Seq(Event) /\ appending \in [Writers -> Event \cup {NoEvent}]
    BY DEF EvidenceInvariant, LedgerTypeOK
  <1>2. CASE historyEvents' = historyEvents
    BY <1>2 DEF Ledger
  <1>3. ASSUME NEW w \in Writers, Commit(w) PROVE Ledger \subseteq Ledger'
    BY <1>1, <1>2, <1>3, LedgerGrows DEF Commit, AppendCommit
  <1>4. ASSUME NEW r \in Runs, RunProceeds(r) PROVE historyEvents' = historyEvents
    BY <1>4
    DEF RunProceeds, Accept, RecordAccepted, CheckpointAccepted, StartStep, FinishStep, RecordStep, Record,
        CheckpointStep, Complete, RecordCompleted, CheckpointCompleted, Return, AppendRead, ledger
  <1>5. ASSUME NEW b \in Backfills, BackfillProceeds(b) PROVE historyEvents' = historyEvents
    BY <1>5 DEF BackfillProceeds, LoadRuns, LoadSteps, Load, BackfillRow, FinishBackfill, AppendRead, ledger
  <1>6. CASE Interrupt \/ UNCHANGED vars
    BY <1>2, <1>6 DEF Interrupt, vars, ledger
  <1> QED
    BY <1>2, <1>3, <1>4, <1>5, <1>6 DEF Next, Quiet

\* A step of one run leaves the others' debts as they are.
LEMMA OthersOweTheSame ==
    ASSUME DebtInvariant, Ledger \subseteq Ledger', NEW r \in Runs,
           \A w \in Runs \ {r} : /\ pc'[w] = pc[w] /\ record'[w] = record[w] /\ current'[w] = current[w]
                                 /\ appending'[w] = appending[w],
           \A s \in stepRuns' \ stepRuns : s.run = r, stepRuns \subseteq stepRuns',
           appending'[r] # NoEvent => pc'[r] \in {"acceptedRecorded", "stepRecorded", "completedRecorded"},
           pc'[r] # "lost", Owed(r)' \subseteq Ledger' \cup Due(r)'
    PROVE  DebtInvariant'
  <1>1. ASSUME NEW w \in Runs \ {r}
        PROVE  Owed(w)' = Owed(w) /\ Due(w)' = Due(w)
    <2>1. \A step, status : [run |-> w, step |-> step, status |-> status] \in stepRuns'
                              <=> [run |-> w, step |-> step, status |-> status] \in stepRuns
      OBVIOUS
    <2>2. Owed(w)' = Owed(w)
      BY <2>1 DEF Owed
    <2>3. Due(w)' = Due(w)
      BY <2>1 DEF Due
    <2> QED
      BY <2>2, <2>3
  <1>2. ASSUME NEW w \in Runs \ {r}
        PROVE  /\ appending'[w] # NoEvent => pc'[w] \in {"acceptedRecorded", "stepRecorded", "completedRecorded"}
               /\ pc'[w] # "lost" => Owed(w)' \subseteq Ledger' \cup Due(w)'
               /\ pc'[w] = "lost" => \E e : Owed(w)' \subseteq Ledger' \cup {e}
    BY <1>1 DEF DebtInvariant
  <1> QED
    BY <1>2 DEF DebtInvariant

LEMMA DebtRun ==
    ASSUME ProgressInvariant, ProgressInvariant', EvidenceInvariant, DebtInvariant,
           Ledger \subseteq Ledger', NEW r \in Runs, RunProceeds(r)
    PROVE  DebtInvariant'
  <1>1. /\ pc \in [Writers -> WriterPCs] /\ r \in Writers /\ Steps \in Nat
        /\ appending \in [Writers -> Event \cup {NoEvent}]
        /\ record \in [Runs -> {"none", "running"} \cup Outcomes] /\ current \in [Runs -> 0..Steps]
    BY RunAssumption, RunsAreWriters DEF ProgressInvariant, EvidenceInvariant, LedgerTypeOK
  <1>2. /\ RunState(r) /\ RunRows(r)
        /\ pc[r] # "lost" => Owed(r) \subseteq Ledger \cup Due(r)
    BY DEF ProgressInvariant, DebtInvariant
  <1>3. ASSUME NEW there, Goto(r, there)
        PROVE  pc'[r] = there /\ \A w \in Runs \ {r} : pc'[w] = pc[w]
    BY <1>1, <1>3, RunsAreWriters DEF Goto
  <1>4. ASSUME UNCHANGED <<record, stepRuns>> PROVE Owed(r)' = Owed(r)
    BY <1>4 DEF Owed
  \* An event: what was due is on its way, or there.
  <1>5. ASSUME NEW step, NEW type, NEW there \in {"acceptedRecorded", "stepRecorded", "completedRecorded"},
               Record(r, step, type, there), pc[r] # "lost",
               [run |-> r, step |-> step, type |-> type] \in Event,
               Due(r) \subseteq {[run |-> r, step |-> step, type |-> type]}
        PROVE  DebtInvariant'
    <2> DEFINE e == [run |-> r, step |-> step, type |-> type]
    <2>1. e \in Event /\ e # NoEvent
      BY <1>5, RunAssumption
    <2>2. /\ UNCHANGED <<record, stepRuns, current>> /\ AppendRead(r, e)
          /\ pc'[r] = there /\ \A w \in Runs \ {r} : pc'[w] = pc[w]
      BY <1>3, <1>5 DEF Record, trail, run
    <2>3. /\ appending'[r] = IF e \in Ledger THEN NoEvent ELSE e
          /\ \A w \in Runs \ {r} : appending'[w] = appending[w]
      BY <1>1, <2>2, RecordedMeans, RunsAreWriters DEF AppendRead
    <2> HIDE DEF e
    <2>4. Owed(r)' \subseteq Ledger' \cup Due(r)'
      <3>1. Owed(r)' \subseteq Ledger \cup {e}
        BY <1>2, <1>4, <1>5, <2>2 DEF e
      <3>2. e \in Ledger \/ e \in Due(r)'
        BY <2>1, <2>2, <2>3 DEF Due
      <3> QED
        BY <3>1, <3>2
    <2> QED
      BY <2>2, <2>3, <2>4, OthersOweTheSame
  <1>6. CASE RecordAccepted(r)
    <2>1. pc[r] = "accepted" /\ Record(r, 0, "accepted", "acceptedRecorded")
      BY <1>6 DEF RecordAccepted, Ready
    <2>2. [run |-> r, step |-> 0, type |-> "accepted"] \in Event
      BY <1>1 DEF Event
    <2>3. Due(r) \subseteq {[run |-> r, step |-> 0, type |-> "accepted"]}
      BY <2>1 DEF Due
    <2> QED
      BY <1>5, <2>1, <2>2, <2>3
  <1>7. CASE RecordStep(r)
    <2>1. pc[r] = "stepped" /\ Record(r, current[r], StatusOf(r, current[r]), "stepRecorded")
      BY <1>7 DEF RecordStep, Ready
    <2> DEFINE e == [run |-> r, step |-> current[r], type |-> StatusOf(r, current[r])]
    <2>2. current[r] > 0
      BY <1>2, <2>1 DEF RunState
    <2>3. e \in Event
      BY <1>1, <2>2, StatusIs DEF Event
    <2>4. e \in Due(r)
      BY <2>1, <2>2, <2>3, StatusIs DEF Due
    <2>5. Due(r) \subseteq {e}
      BY <2>4, OneIsDue
    <2> QED
      BY <1>5, <2>1, <2>3, <2>5
  <1>8. CASE RecordCompleted(r)
    <2>1. pc[r] = "completed" /\ Record(r, 0, record[r], "completedRecorded")
      BY <1>8 DEF RecordCompleted, Ready
    <2>2. [run |-> r, step |-> 0, type |-> record[r]] \in Event
      BY <1>1, <1>2, <2>1 DEF Event, RunState, After
    <2>3. Due(r) \subseteq {[run |-> r, step |-> 0, type |-> record[r]]}
      BY <2>1 DEF Due
    <2> QED
      BY <1>5, <2>1, <2>2, <2>3
  \* Nothing is due: what is owed is there.
  <1>9. ASSUME pc[r] \notin {"accepted", "stepped", "completed", "lost"}, appending[r] = NoEvent
        PROVE  Owed(r) \subseteq Ledger
    BY <1>2, <1>9 DEF Due
  <1>10. CASE CheckpointAccepted(r) \/ StartStep(r) \/ CheckpointStep(r) \/ CheckpointCompleted(r) \/ Return(r)
    <2>1. /\ UNCHANGED <<record, stepRuns, current, appending>> /\ appending[r] = NoEvent
          /\ pc[r] \notin {"accepted", "stepped", "completed", "lost"}
          /\ pc'[r] # "lost" /\ \A w \in Runs \ {r} : pc'[w] = pc[w]
      BY <1>3, <1>10 DEF CheckpointAccepted, StartStep, CheckpointStep, CheckpointCompleted, Return, Ready,
                         trail, run, ledger
    <2>2. Owed(r)' \subseteq Ledger'
      BY <1>4, <1>9, <2>1
    <2> QED
      BY <2>1, <2>2, OthersOweTheSame
  <1>11. CASE Accept(r)
    <2>1. /\ UNCHANGED <<stepRuns, current, appending>> /\ appending[r] = NoEvent
          /\ pc[r] = "idle" /\ pc'[r] = "accepted" /\ \A w \in Runs \ {r} : pc'[w] = pc[w]
          /\ record'[r] = "running" /\ \A w \in Runs \ {r} : record'[w] = record[w]
      BY <1>1, <1>3, <1>11 DEF Accept, Ready, run, ledger
    <2>2. \A s \in stepRuns : s.run # r
      BY <1>2, <2>1 DEF RunRows, RunState, Before, ProgressInvariant, StepRun
    <2>3. Owed(r)' \subseteq {[run |-> r, step |-> 0, type |-> "accepted"]}
      BY <2>1, <2>2 DEF Owed, Event, Outcomes
    <2>4. Owed(r)' \subseteq Ledger' \cup Due(r)'
      BY <2>1, <2>3 DEF Due
    <2> QED
      BY <2>1, <2>4, OthersOweTheSame
  <1>12. CASE FinishStep(r)
    <2>1. /\ UNCHANGED <<record, appending>> /\ appending[r] = NoEvent /\ current' = [current EXCEPT ![r] = @ + 1]
          /\ pc[r] = "executing" /\ pc'[r] = "stepped" /\ \A w \in Runs \ {r} : pc'[w] = pc[w]
      BY <1>3, <1>12 DEF FinishStep, Ready, ledger
    <2>2. current'[r] = current[r] + 1 /\ \A w \in Runs \ {r} : current'[w] = current[w]
      BY <1>1, <2>1
    <2>3. PICK status \in StepStatuses :
             stepRuns' = stepRuns \cup {[run |-> r, step |-> current[r] + 1, status |-> status]}
      BY <1>12 DEF FinishStep, StepStatuses
    <2>4. \A e \in Owed(r)' : e \in Owed(r) \/ e \in Due(r)'
      <3> SUFFICES ASSUME NEW e \in Owed(r)', e \notin Owed(r) PROVE e \in Due(r)'
        OBVIOUS
      <3>1. /\ e \in Event /\ e.run = r
            /\ [run |-> r, step |-> e.step, status |-> e.type] \in stepRuns' \ stepRuns
        BY <2>1 DEF Owed
      <3>2. e.step = current'[r]
        BY <2>2, <2>3, <3>1
      <3> QED
        BY <2>1, <3>1, <3>2 DEF Due
    <2>5. Owed(r)' \subseteq Ledger' \cup Due(r)'
      BY <1>9, <2>1, <2>4
    <2>6. stepRuns \subseteq stepRuns' /\ \A s \in stepRuns' \ stepRuns : s.run = r
      BY <2>3
    <2> QED
      BY <2>1, <2>2, <2>5, <2>6, OthersOweTheSame
  <1>13. CASE Complete(r)
    <2>1. /\ UNCHANGED <<stepRuns, current, appending>> /\ appending[r] = NoEvent
          /\ pc[r] = "loop" /\ pc'[r] = "completed" /\ \A w \in Runs \ {r} : pc'[w] = pc[w]
          /\ record'[r] = Outcome(r) /\ \A w \in Runs \ {r} : record'[w] = record[w]
      BY <1>1, <1>3, <1>13 DEF Complete, Ready, run, ledger
    <2>2. record[r] = "running" /\ Outcome(r) \in Outcomes
      BY <1>2, <2>1 DEF RunState, InLoop, Outcome, Outcomes
    <2>3. Owed(r)' \subseteq Owed(r) \cup {[run |-> r, step |-> 0, type |-> record'[r]]}
      BY <2>1, <2>2 DEF Owed, Event, Outcomes
    <2>4. Due(r)' = {[run |-> r, step |-> 0, type |-> record'[r]]}
      BY <2>1 DEF Due
    <2>5. Owed(r)' \subseteq Ledger' \cup Due(r)'
      BY <1>9, <2>1, <2>3, <2>4
    <2> QED
      BY <2>1, <2>5, OthersOweTheSame
  <1> QED
    BY <1>6, <1>7, <1>8, <1>10, <1>11, <1>12, <1>13 DEF RunProceeds

LEMMA DebtApart ==
    ASSUME ProgressInvariant, EvidenceInvariant, DebtInvariant, Ledger \subseteq Ledger',
           [Next]_vars, ~ \E r \in Runs : RunProceeds(r)
    PROVE  DebtInvariant'
  <1>1. /\ UNCHANGED <<record, stepRuns, current>>
        /\ \A r \in Runs : pc'[r] = pc[r] \/ (pc'[r] = "lost" /\ pc[r] # "idle")
    BY Apart
  <1>2. appending \in [Writers -> Event \cup {NoEvent}] /\ historyEvents \in Seq(Event)
    BY DEF EvidenceInvariant, LedgerTypeOK
  <1>3. ASSUME NEW r \in Runs
        PROVE  \/ pc'[r] = pc[r] /\ appending'[r] = appending[r]
               \/ pc'[r] = pc[r] /\ appending'[r] = NoEvent /\ appending[r] \in Ledger'
               \/ pc'[r] = "lost" /\ appending'[r] = NoEvent
    <2>1. ASSUME NEW b \in Backfills, BackfillProceeds(b)
          PROVE  pc'[r] = pc[r] /\ appending'[r] = appending[r]
      <3>1. b # r /\ r \in Writers /\ pc \in [Writers -> WriterPCs]
        BY RunAssumption, RunsAreWriters DEF ProgressInvariant
      <3> QED
        BY <1>2, <2>1, <3>1
        DEF BackfillProceeds, LoadRuns, LoadSteps, Load, BackfillRow, FinishBackfill, AppendRead, ledger, Goto
    <2>2. ASSUME NEW w \in Writers, Commit(w)
          PROVE  /\ pc'[r] = pc[r]
                 /\ \/ appending'[r] = appending[r]
                    \/ appending'[r] = NoEvent /\ appending[r] \in Ledger'
      <3>1. /\ appending[w] # NoEvent /\ appending' = [appending EXCEPT ![w] = NoEvent] /\ pc' = pc
            /\ historyEvents' = IF Recorded(appending[w]) THEN historyEvents
                                ELSE Append(historyEvents, appending[w])
        BY <2>2 DEF Commit, AppendCommit
      <3>2. CASE w # r
        BY <1>2, <3>1, <3>2, RunsAreWriters
      <3>3. CASE w = r
        <4>1. appending[r] \in Event /\ appending'[r] = NoEvent
          BY <1>2, <3>1, <3>3
        <4>2. CASE Recorded(appending[r])
          BY <3>1, <4>1, <4>2, RecordedMeans
        <4>3. CASE ~ Recorded(appending[r])
          BY <1>2, <3>1, <3>3, <4>1, <4>3, LedgerGrows
        <4> QED
          BY <3>1, <4>1, <4>2, <4>3
      <3> QED
        BY <3>2, <3>3
    <2>3. CASE Interrupt
      <3>1. PICK gone \in (SUBSET Working) \ {{}} :
               /\ pc' = [w \in Writers |-> IF w \in gone THEN "lost" ELSE pc[w]]
               /\ appending' = [w \in Writers |-> IF w \in gone THEN NoEvent ELSE appending[w]]
        BY <2>3 DEF Interrupt
      <3> QED
        BY <3>1, RunsAreWriters
    <2>4. CASE UNCHANGED vars
      BY <2>4 DEF vars, ledger
    <2> QED
      BY <2>1, <2>2, <2>3, <2>4 DEF Next, Quiet
  <1>4. \A r \in Runs : Owed(r)' = Owed(r)
    BY <1>1 DEF Owed
  <1> SUFFICES ASSUME NEW r \in Runs
               PROVE  /\ appending'[r] # NoEvent => pc'[r] \in {"acceptedRecorded", "stepRecorded", "completedRecorded"}
                      /\ pc'[r] # "lost" => Owed(r)' \subseteq Ledger' \cup Due(r)'
                      /\ pc'[r] = "lost" => \E e : Owed(r)' \subseteq Ledger' \cup {e}
    BY DEF DebtInvariant
  <1>5. CASE pc'[r] = pc[r] /\ appending'[r] = appending[r]
    <2>1. Due(r)' = Due(r)
      BY <1>1, <1>5 DEF Due
    <2> QED
      BY <1>4, <1>5, <2>1 DEF DebtInvariant
  <1>6. CASE pc'[r] = pc[r] /\ appending'[r] = NoEvent /\ appending[r] \in Ledger'
    <2>1. Due(r) \subseteq Due(r)' \cup {appending[r]}
      BY <1>1, <1>6 DEF Due
    <2> QED
      BY <1>4, <1>6, <2>1 DEF DebtInvariant
  <1>7. CASE pc'[r] = "lost" /\ appending'[r] = NoEvent
    <2>1. PICK e : Due(r) \subseteq {e}
      BY OneIsDue
    <2>2. \E f : Owed(r)' \subseteq Ledger' \cup {f}
      BY <1>4, <2>1 DEF DebtInvariant
    <2> QED
      BY <1>7, <2>2
  <1> QED
    BY <1>3, <1>5, <1>6, <1>7

LEMMA DebtNext ==
    ProgressInvariant /\ ProgressInvariant' /\ EvidenceInvariant /\ DebtInvariant /\ [Next]_vars
        => DebtInvariant'
  BY LedgerIsKept, DebtRun, DebtApart DEF Next

\* Whatever interrupts a run, it leaves at most one of its rows without an
\* event, the last; a run that returned leaves none (run_orchestration).
THEOREM DebtIsSmall == Spec => []AtMostOneEventIsOwed
  <1>1. ASSUME ProgressInvariant, DebtInvariant PROVE AtMostOneEventIsOwed
    <2> SUFFICES ASSUME NEW r \in Runs
                 PROVE  /\ Cardinality(Owed(r) \ Ledger) <= 1
                        /\ pc[r] = "returned" => Owed(r) \ Ledger = {}
      BY DEF AtMostOneEventIsOwed
    <2>1. PICK e : Owed(r) \subseteq Ledger \cup {e}
      <3>1. CASE pc[r] = "lost"
        BY <1>1, <3>1 DEF DebtInvariant
      <3>2. CASE pc[r] # "lost"
        <4>1. PICK e : Due(r) \subseteq {e}
          BY <1>1, OneIsDue
        <4> QED
          BY <1>1, <3>2, <4>1 DEF DebtInvariant
      <3> QED
        BY <3>1, <3>2
    <2>2. Cardinality(Owed(r) \ Ledger) <= 1
      <3>1. IsFiniteSet({e}) /\ Cardinality({e}) = 1
        BY FS_Singleton
      <3>2. (Owed(r) \ Ledger) \in SUBSET {e}
        BY <2>1
      <3> QED
        BY <3>1, <3>2, FS_Subset
    <2>3. pc[r] = "returned" => Owed(r) \ Ledger = {}
      BY <1>1 DEF DebtInvariant, Due
    <2> QED
      BY <2>2, <2>3
  <1> QED
    BY <1>1, ProgressHolds, EvidenceHolds, DebtInit, DebtNext, PTL DEF Spec
-----------------------------------------------------------------------------
(* What a backfill leaves *)

Note(x) == [run |-> x.run, step |-> x.step, type |-> "backfilled"]

\* A row a backfill has loaded has its event, is about to get it, or has yet
\* to be come to.
BackfillInvariant == \A b \in Backfills :
    /\ pc[b] = "returned" => todo[b] = {} /\ appending[b] = NoEvent
    /\ pc[b] # "lost" =>
          \A x \in rows[b] : Note(x) \in Ledger \/ Note(x) = appending[b] \/ x \in todo[b]

LEMMA BackfillInit == Init => BackfillInvariant
  BY RunsAreWriters DEF Init, BackfillInvariant

LEMMA NotesAreEvents ==
    ASSUME EvidenceInvariant, NEW b \in Backfills, NEW x \in rows[b]
    PROVE  Note(x) \in Event /\ Note(x) # NoEvent
  <1>1. x \in Row
    BY DEF EvidenceInvariant
  <1> QED
    BY <1>1, RunAssumption DEF Row, Note, Event

LEMMA BackfillProceedsWell ==
    ASSUME ProgressInvariant, EvidenceInvariant, BackfillInvariant, Ledger \subseteq Ledger',
           NEW b \in Backfills, BackfillProceeds(b)
    PROVE  BackfillInvariant'
  <1>1. /\ pc \in [Writers -> WriterPCs] /\ appending \in [Writers -> Event \cup {NoEvent}]
        /\ rows \in [Backfills -> SUBSET Row] /\ todo \in [Backfills -> SUBSET Row]
        /\ b \in Writers /\ Backfills \subseteq Writers /\ todo[b] \subseteq rows[b]
    BY RunsAreWriters DEF ProgressInvariant, EvidenceInvariant, LedgerTypeOK
  <1>2. \A a \in Backfills \ {b} :
           /\ pc'[a] = pc[a] /\ todo'[a] = todo[a] /\ rows'[a] = rows[a] /\ appending'[a] = appending[a]
    BY <1>1
    DEF BackfillProceeds, LoadRuns, LoadSteps, Load, BackfillRow, FinishBackfill, AppendRead, ledger,
        backfill, Goto
  <1>3. pc[b] # "lost" =>
           \A x \in rows[b] : Note(x) \in Ledger \/ Note(x) = appending[b] \/ x \in todo[b]
    BY DEF BackfillInvariant
  <1>4. ASSUME pc'[b] # "returned",
               \A x \in rows'[b] : Note(x) \in Ledger' \/ Note(x) = appending'[b] \/ x \in todo'[b]
        PROVE  BackfillInvariant'
    BY <1>2, <1>4 DEF BackfillInvariant
  <1>5. ASSUME NEW found, NEW there \in {"runs", "steps"}, Load(b, found, there),
               pc[b] # "lost", appending[b] = NoEvent
        PROVE  BackfillInvariant'
    <2>1. /\ todo[b] = {} /\ UNCHANGED ledger /\ pc'[b] = there
          /\ rows'[b] = rows[b] \cup found /\ todo'[b] = found
      BY <1>1, <1>5 DEF Load, Goto
    <2>2. \A x \in rows[b] : Note(x) \in Ledger'
      BY <1>3, <1>5, <2>1, NotesAreEvents
    <2> QED
      BY <1>4, <2>1, <2>2
  <1>6. CASE LoadRuns(b) \/ LoadSteps(b)
    BY <1>5, <1>6 DEF LoadRuns, LoadSteps, Ready
  <1>7. CASE BackfillRow(b)
    <2>1. PICK x \in todo[b] : AppendRead(b, Note(x)) /\ todo' = [todo EXCEPT ![b] = @ \ {x}]
      BY <1>7 DEF BackfillRow, Note
    <2>2. /\ pc[b] \in {"runs", "steps"} /\ appending[b] = NoEvent /\ pc' = pc /\ rows' = rows
      BY <1>7 DEF BackfillRow, Ready
    <2>3. todo'[b] = todo[b] \ {x} /\ appending'[b] = IF Note(x) \in Ledger THEN NoEvent ELSE Note(x)
      BY <1>1, <2>1, RecordedMeans DEF AppendRead
    <2>4. \A y \in rows[b] : Note(y) \in Ledger \/ y \in todo[b]
      BY <1>3, <2>2, NotesAreEvents
    <2>5. \A y \in rows'[b] : Note(y) \in Ledger' \/ Note(y) = appending'[b] \/ y \in todo'[b]
      <3> SUFFICES ASSUME NEW y \in rows[b]
                   PROVE  Note(y) \in Ledger' \/ Note(y) = appending'[b] \/ y \in todo'[b]
        BY <2>2
      <3>1. CASE y = x
        BY <2>3, <3>1
      <3>2. CASE y # x
        BY <2>3, <2>4, <3>2
      <3> QED
        BY <3>1, <3>2
    <2> QED
      BY <1>4, <2>2, <2>5
  <1>8. CASE FinishBackfill(b)
    <2>1. /\ todo[b] = {} /\ appending[b] = NoEvent /\ pc[b] = "steps" /\ UNCHANGED <<backfill, ledger>>
      BY <1>8 DEF FinishBackfill, Ready
    <2>2. todo'[b] = {} /\ appending'[b] = NoEvent /\ rows'[b] = rows[b]
      BY <2>1 DEF backfill, ledger
    <2>3. \A x \in rows[b] : Note(x) \in Ledger'
      BY <1>3, <2>1, NotesAreEvents
    <2> QED
      BY <1>2, <2>2, <2>3 DEF BackfillInvariant
  <1> QED
    BY <1>6, <1>7, <1>8 DEF BackfillProceeds

LEMMA BackfillNext ==
    ProgressInvariant /\ EvidenceInvariant /\ BackfillInvariant /\ [Next]_vars => BackfillInvariant'
  <1> SUFFICES ASSUME ProgressInvariant, EvidenceInvariant, BackfillInvariant, [Next]_vars
               PROVE  BackfillInvariant'
    OBVIOUS
  <1>1. /\ pc \in [Writers -> WriterPCs] /\ appending \in [Writers -> Event \cup {NoEvent}]
        /\ historyEvents \in Seq(Event) /\ Backfills \subseteq Writers
    BY RunsAreWriters DEF ProgressInvariant, EvidenceInvariant, LedgerTypeOK
  <1>2. Ledger \subseteq Ledger'
    BY LedgerIsKept
  <1>3. ASSUME UNCHANGED backfill,
               \A b \in Backfills :
                  \/ pc'[b] = pc[b] /\ appending'[b] = appending[b]
                  \/ pc'[b] = pc[b] /\ appending'[b] = NoEvent /\ appending[b] \in Ledger'
                  \/ pc'[b] = "lost"
        PROVE  BackfillInvariant'
    <2> SUFFICES ASSUME NEW b \in Backfills
                 PROVE  /\ pc'[b] = "returned" => todo'[b] = {} /\ appending'[b] = NoEvent
                        /\ pc'[b] # "lost" =>
                              \A x \in rows'[b] :
                                 Note(x) \in Ledger' \/ Note(x) = appending'[b] \/ x \in todo'[b]
      BY DEF BackfillInvariant
    <2>1. /\ pc[b] = "returned" => todo[b] = {} /\ appending[b] = NoEvent
          /\ pc[b] # "lost" =>
                \A x \in rows[b] : Note(x) \in Ledger \/ Note(x) = appending[b] \/ x \in todo[b]
      BY DEF BackfillInvariant
    <2> QED
      BY <1>2, <1>3, <2>1 DEF backfill
  <1>4. ASSUME NEW r \in Runs, RunProceeds(r) PROVE BackfillInvariant'
    <2>1. UNCHANGED backfill
      BY <1>4
      DEF RunProceeds, Accept, RecordAccepted, CheckpointAccepted, StartStep, FinishStep, RecordStep, Record,
          CheckpointStep, Complete, RecordCompleted, CheckpointCompleted, Return
    <2>2. \E there : Goto(r, there)
      BY <1>4
      DEF RunProceeds, Accept, RecordAccepted, CheckpointAccepted, StartStep, FinishStep, RecordStep, Record,
          CheckpointStep, Complete, RecordCompleted, CheckpointCompleted, Return
    <2>3. appending' = appending \/ \E e : AppendRead(r, e)
      BY <1>4
      DEF RunProceeds, Accept, RecordAccepted, CheckpointAccepted, StartStep, FinishStep, RecordStep, Record,
          CheckpointStep, Complete, RecordCompleted, CheckpointCompleted, Return, ledger
    <2>4. r \notin Backfills
      BY RunAssumption
    <2>5. \A b \in Backfills : pc'[b] = pc[b] /\ appending'[b] = appending[b]
      BY <1>1, <2>2, <2>3, <2>4 DEF Goto, AppendRead
    <2> QED
      BY <1>3, <2>1, <2>5
  <1>5. ASSUME NEW w \in Writers, Commit(w) PROVE BackfillInvariant'
    <2>1. /\ appending[w] # NoEvent /\ appending' = [appending EXCEPT ![w] = NoEvent]
          /\ UNCHANGED <<pc, backfill>>
          /\ historyEvents' = IF Recorded(appending[w]) THEN historyEvents
                              ELSE Append(historyEvents, appending[w])
      BY <1>5 DEF Commit, AppendCommit
    <2>2. appending[w] \in Ledger'
      <3>1. CASE Recorded(appending[w])
        BY <1>2, <3>1, RecordedMeans
      <3>2. CASE ~ Recorded(appending[w])
        BY <1>1, <2>1, <3>2, LedgerGrows
      <3> QED
        BY <3>1, <3>2
    <2>3. \A v \in Writers : IF v = w THEN appending'[v] = NoEvent ELSE appending'[v] = appending[v]
      BY <1>1, <2>1
    <2> QED
      BY <1>1, <1>3, <2>1, <2>2, <2>3
  <1>6. CASE Interrupt
    <2>1. PICK gone \in (SUBSET Working) \ {{}} :
             /\ pc' = [w \in Writers |-> IF w \in gone THEN "lost" ELSE pc[w]]
             /\ appending' = [w \in Writers |-> IF w \in gone THEN NoEvent ELSE appending[w]]
      BY <1>6 DEF Interrupt
    <2>2. UNCHANGED backfill
      BY <1>6 DEF Interrupt
    <2> QED
      BY <1>1, <1>3, <2>1, <2>2
  <1>7. CASE UNCHANGED vars
    BY <1>3, <1>7 DEF vars, ledger
  <1> QED
    BY <1>2, <1>4, <1>5, <1>6, <1>7, BackfillProceedsWell DEF Next, Quiet

\* A backfill that ends has left no row it loaded without an event, however
\* many run at once and whoever inserts first (backfill_history_events).
THEOREM BackfillsCover == Spec => []BackfillCovers
  <1>1. ASSUME BackfillInvariant, EvidenceInvariant PROVE BackfillCovers
    <2> SUFFICES ASSUME NEW b \in Backfills, pc[b] = "returned", NEW x \in rows[b]
                 PROVE  Note(x) \in Ledger
      BY DEF BackfillCovers, Note
    <2> QED
      BY <1>1, NotesAreEvents DEF BackfillInvariant
  <1> QED
    BY <1>1, ProgressHolds, EvidenceHolds, BackfillInit, BackfillNext, PTL DEF Spec
=============================================================================
