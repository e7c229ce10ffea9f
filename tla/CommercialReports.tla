-------------------------- MODULE CommercialReports --------------------------
(***************************************************************************)
(* What get_commercial_metrics and get_pilot_readiness_report say of the   *)
(* orchestrations in a window, while runs end, jobs are retried, templates *)
(* are edited, requests are blocked and time passes.  Runs, checkpoints    *)
(* and logs are written by other components and appear here complete.      *)
(*                                                                         *)
(* A report is an operator on the state, for one subject or for all: its   *)
(* queries and its generated_at are taken to be one instant, so a midnight *)
(* or a write between them is left out.  Time is in ticks, several to a    *)
(* day.  Policies come from the template as it is now, or from the request *)
(* of a run that has none.                                                 *)
(***************************************************************************)
EXTENDS Integers, Sequences, FiniteSetsExt

CONSTANTS
    Templates,      \* ids, positive
    Policies,       \* what a template may say: set of [units, risk, approval]
    Kinds,          \* how runs may end: set of [template, steps, status, decision, risks,
                    \* scenario, metadata, conclusion, ledger], template 0 for none
    Scenarios,      \* the pilot pack, in order; the code's has five
    Subjects, Jobs, NoJob, Everyone,
    TopLimit,       \* how many templates are listed, 5
    Days,           \* the window, 7 or 30
    TicksPerDay,
    MaxTime, MaxRuns, MaxBlocks     \* bounds

RiskLevels == {"low", "medium", "high", "critical"}
BlockReasons == {"quota_exceeded", "other"}

ASSUME ReportsAssumption ==
    /\ Templates \subseteq Nat \ {0} /\ TopLimit \in Nat \ {0}
    /\ Policies \subseteq [units : Nat, risk : RiskLevels, approval : BOOLEAN]
    /\ \A kind \in Kinds : /\ kind.template \in Templates \cup {0}
                            /\ kind.steps \in Nat /\ kind.risks \in Nat /\ kind.metadata \in 0..4
    /\ Scenarios \in Seq(STRING) /\ Scenarios # <<>>
    /\ \A i, j \in DOMAIN Scenarios : Scenarios[i] = Scenarios[j] => i = j
    /\ Days \in Nat \ {0} /\ TicksPerDay \in Nat \ {0}
    /\ MaxTime \in Nat /\ Days * TicksPerDay <= MaxTime
    /\ MaxRuns \in Nat /\ MaxBlocks \in Nat
    /\ Everyone \notin Subjects /\ NoJob \notin Jobs

VARIABLES
    now,
    template,       \* policy of each template
    runs,           \* workflow_orchestrations: a kind, created and by whose job
    link,           \* orchestration_id of each queue job, 0 for none
    checkpoints,    \* set of [id, run, job], run 0 and NoJob for none
    usageLogs,      \* set of [subject, run, job, created]
    blockLogs       \* sequence of [subject, reason, created]

vars == <<now, template, runs, link, checkpoints, usageLogs, blockLogs>>
-----------------------------------------------------------------------------
Init ==
    /\ now = Days * TicksPerDay
    /\ template \in [Templates -> Policies]
    /\ runs = <<>> /\ link = [j \in Jobs |-> 0]
    /\ checkpoints = {} /\ usageLogs = {} /\ blockLogs = <<>>

Checkpoint(run, job) == [id |-> Cardinality(checkpoints) + 1, run |-> run, job |-> job]
Ended(kind, job) == Append(runs, [kind |-> kind, created |-> now, job |-> job])

\* A run at once: its usage is logged with its id.
RunAtOnce(kind, subject) ==
    /\ Len(runs) < MaxRuns
    /\ runs' = Ended(kind, NoJob)
    /\ checkpoints' = checkpoints \cup {Checkpoint(Len(runs'), NoJob)}
    /\ usageLogs' = usageLogs \cup
           {[subject |-> subject, run |-> Len(runs'), job |-> NoJob, created |-> now]}
    /\ UNCHANGED <<now, template, link, blockLogs>>

\* An accepted job: its usage is logged with the id of the job, which has
\* no run yet.
Enqueue(job, subject) ==
    /\ ~\E log \in usageLogs : log.job = job
    /\ checkpoints' = checkpoints \cup {Checkpoint(0, job)}
    /\ usageLogs' = usageLogs \cup {[subject |-> subject, run |-> 0, job |-> job, created |-> now]}
    /\ UNCHANGED <<now, template, runs, link, blockLogs>>

\* The job's first attempt, or a retry: its start still names the run it was
\* linked to, its end the new one.
RunJob(job, kind) ==
    /\ Len(runs) < MaxRuns /\ \E log \in usageLogs : log.job = job
    /\ runs' = Ended(kind, job)
    /\ link' = [link EXCEPT ![job] = Len(runs')]
    /\ checkpoints' = checkpoints \cup
           {[id |-> Cardinality(checkpoints) + 1, run |-> link[job], job |-> job],
            [id |-> Cardinality(checkpoints) + 2, run |-> Len(runs'), job |-> NoJob],
            [id |-> Cardinality(checkpoints) + 3, run |-> Len(runs'), job |-> job]}
    /\ UNCHANGED <<now, template, usageLogs, blockLogs>>

EditTemplate(t, policy) ==
    /\ template[t] # policy
    /\ template' = [template EXCEPT ![t] = policy]
    /\ UNCHANGED <<now, runs, link, checkpoints, usageLogs, blockLogs>>

Block(subject, reason) ==
    /\ Len(blockLogs) < MaxBlocks
    /\ blockLogs' = Append(blockLogs, [subject |-> subject, reason |-> reason, created |-> now])
    /\ UNCHANGED <<now, template, runs, link, checkpoints, usageLogs>>

Tick ==
    /\ now < MaxTime
    /\ now' = now + 1
    /\ UNCHANGED <<template, runs, link, checkpoints, usageLogs, blockLogs>>

Next ==
    \/ \E kind \in Kinds, subject \in Subjects : RunAtOnce(kind, subject)
    \/ \E job \in Jobs, subject \in Subjects : Enqueue(job, subject)
    \/ \E job \in Jobs, kind \in Kinds : RunJob(job, kind)
    \/ \E t \in Templates, policy \in Policies : EditTemplate(t, policy)
    \/ \E subject \in Subjects, reason \in BlockReasons : Block(subject, reason)
    \/ Tick

Spec == Init /\ [][Next]_vars
-----------------------------------------------------------------------------
(* What the reports select *)

InWindow(time) == time >= now - Days * TicksPerDay
Date(time) == time \div TicksPerDay

Concerns(log, subject) == subject = Everyone \/ log.subject = subject

\* Only a usage log with the id of a run says whose run it was.
RunsOf(subject) ==
    {r \in DOMAIN runs :
        /\ InWindow(runs[r].created)
        /\ subject # Everyone =>
              \E log \in usageLogs : /\ Concerns(log, subject) /\ InWindow(log.created)
                                     /\ log.run = r}

Audited(records) == {r \in records : runs[r].kind.status \in {"success", "partial_success"}}

\* Mutant: without the filter on queue_job_id.
CountedForTheirRun(run) == {c \in checkpoints : c.run = run}

OwnCheckpoints(run) == {c \in checkpoints : c.run = run /\ c.job = NoJob}
JobCheckpoints(run) == {c \in checkpoints : c.job # NoJob /\ link[c.job] = run}

\* summarize_checkpoint_counts
CheckpointCount(run) == Cardinality(OwnCheckpoints(run)) + Cardinality(JobCheckpoints(run))

\* list_checkpoints_for_orchestration
ListedCheckpoints(run) ==
    {c \in checkpoints : c.run = run \/ (c.job # NoJob /\ link[c.job] = run)}
-----------------------------------------------------------------------------
(* Commercial metrics *)

AtLeastOne(n) == IF n < 1 THEN 1 ELSE n

\* Mutant: what a template does not say counts as none.
StatedPolicy(run) ==
    LET kind == runs[run].kind
    IN  IF kind.template # 0 THEN template[kind.template]
        ELSE [units |-> AtLeastOne(kind.steps), risk |-> "medium", approval |-> FALSE]

PolicyForRecord(run) ==
    LET kind == runs[run].kind
    IN  IF kind.template # 0
        THEN [template[kind.template] EXCEPT !.units = IF @ = 0 THEN 1 ELSE @]
        ELSE [units |-> AtLeastOne(kind.steps), risk |-> "medium", approval |-> FALSE]

Units(records) == SumFunction([r \in records |-> PolicyForRecord(r).units])

\* compute_workflow_roi_evidence; the value of a blocked risk by its level.
RiskValue == [low |-> 250, medium |-> 1000, high |-> 5000, critical |-> 15000]

RoiEvidence(run) ==
    LET kind == runs[run].kind
        policy == PolicyForRecord(run)
        review == policy.units * 6 + (IF policy.approval THEN 15 ELSE 5)
        audit == policy.units * 3 + Min({20, 2 * CheckpointCount(run)}) + 10
        named == IF kind.decision = "block" THEN Max({kind.risks, 1}) ELSE kind.risks
        blocked == IF named = 0 /\ policy.approval /\ policy.risk \in {"high", "critical"}
                   THEN 1 ELSE named
    IN  [minutes |-> review + audit, blocked |-> blocked, units |-> policy.units,
         value |-> blocked * RiskValue[policy.risk] + (5 * (review + audit) + 1) \div 2]

RoiSummary(records) ==
    LET audited == Audited(records)
    IN  [runs  |-> Cardinality(audited),
         units |-> SumFunction([r \in audited |-> RoiEvidence(r).units]),
         value |-> SumFunction([r \in audited |-> RoiEvidence(r).value])]

\* The listed templates: the most units first, then the highest id.
RunsOfTemplate(records, t) == {r \in records : runs[r].kind.template = t}
TopTemplates(records) ==
    LET used == {t \in Templates \cup {0} : RunsOfTemplate(records, t) # {}}
        units(t) == Units(RunsOfTemplate(records, t))
        ahead(s, t) == units(s) > units(t) \/ (units(s) = units(t) /\ s > t)
    IN  {t \in used : Cardinality({s \in used : ahead(s, t)}) < TopLimit}

\* The total that is reported is that of the listed templates.
BillableTotal(records) ==
    SumFunction([t \in TopTemplates(records) |-> Units(RunsOfTemplate(records, t))])

BlocksOf(subject) ==
    {b \in DOMAIN blockLogs : InWindow(blockLogs[b].created) /\ Concerns(blockLogs[b], subject)}

\* Mutant: the dates begin where the window does.
DatesOfWindow == (Date(now) - Days)..Date(now)

\* _date_keys
DateKeys == (Date(now) - Days + 1)..Date(now)

Trend(subject) ==
    [date \in DateKeys |->
        LET records == {r \in RunsOf(subject) : Date(runs[r].created) = date}
        IN  [units   |-> Units(records),
             audited |-> Cardinality(Audited(records)),
             blocks  |-> Cardinality({b \in BlocksOf(subject) : Date(blockLogs[b].created) = date})]]

UsageCount(subject) ==
    Cardinality({log \in usageLogs : InWindow(log.created) /\ Concerns(log, subject)})

Hints(subject, active) ==
    {h \in {"quota_exceeded", "policy_blocks_high", "no_billable_activity"} :
        CASE h = "quota_exceeded" ->
                 \E b \in BlocksOf(subject) : blockLogs[b].reason = "quota_exceeded"
          [] h = "policy_blocks_high" ->
                 Cardinality(BlocksOf(subject)) >= Max({3, UsageCount(subject)})
          [] OTHER -> active /\ BillableTotal(RunsOf(subject)) = 0}
-----------------------------------------------------------------------------
(* Pilot readiness *)

HasEvidence(run) == runs[run].kind.conclusion \/ CheckpointCount(run) > 0
LedgerValid(run) == runs[run].kind.ledger = "valid"
Checkpointed(run) == CheckpointCount(run) > 0
HasMetadata(run) == runs[run].kind.metadata = 4

Exportable(records) == {r \in records : HasEvidence(r)}
Verified(records) == {r \in records : LedgerValid(r)}
WithCheckpoints(records) == {r \in records : Checkpointed(r)}

ScenarioRuns(records, s) == {r \in records : runs[r].kind.scenario = s}

\* Each kind of evidence counts, whichever run of the scenario has it.
ScenarioStatus(records, s) ==
    LET own == ScenarioRuns(records, s)
    IN  IF own = {} THEN "missing"
        ELSE IF /\ Exportable(own) # {} /\ Verified(own) # {}
                /\ WithCheckpoints(own) # {} /\ \E r \in own : HasMetadata(r)
             THEN "completed" ELSE "needs evidence"

Pack == {Scenarios[i] : i \in DOMAIN Scenarios}
Completed(records) == {s \in Pack : ScenarioStatus(records, s) = "completed"}

NextScenario(records) ==
    LET first(status) == {i \in DOMAIN Scenarios : ScenarioStatus(records, Scenarios[i]) = status}
    IN  IF first("missing") # {} THEN Scenarios[Min(first("missing"))]
        ELSE IF first("needs evidence") # {} THEN Scenarios[Min(first("needs evidence"))]
        ELSE "none"

\* Mutant: the fields of all runs over those of one run of each scenario.
CompletenessOfPack(records) ==
    LET present == SumFunction([r \in records |-> runs[r].kind.metadata])
    IN  (100 * present) \div (4 * Cardinality(Pack))

\* In percent: four fields a run, rounded to two decimals.
Completeness(records) ==
    LET present == SumFunction([r \in records |-> runs[r].kind.metadata])
        total == 4 * Cardinality(records)
    IN  IF total = 0 THEN 0 ELSE (200 * present + total) \div (2 * total)

ReadyForBuyerReview(records) ==
    LET pack == Cardinality(Pack)
    IN  /\ pack > 0 /\ Completed(records) = Pack
        /\ \A shown \in {Exportable(records), Verified(records), WithCheckpoints(records)} :
              Cardinality(shown) >= pack
        /\ Completeness(records) >= 80

ReadinessStatus(records) ==
    IF Completeness(records) < 80 /\ records # {} THEN "needs approval metadata"
    ELSE IF /\ ReadyForBuyerReview(records)
            /\ Cardinality(records) >= Cardinality(Pack) THEN "ready"
    ELSE "needs evidence"

\* The recommendations: what is left to do, nothing when replay is advised.
Recommendations(records) ==
    LET short(shown) == Cardinality(shown) < Max({Cardinality(records), Cardinality(Pack)})
    IN  {todo \in {"next scenario", "complete pack", "run pack", "export evidence",
                   "verify ledger", "confirm checkpoints", "fill metadata"} :
            CASE todo = "next scenario"       -> NextScenario(records) # "none"
              [] todo = "complete pack"       -> Completed(records) # Pack
              [] todo = "run pack"            -> Cardinality(records) < Cardinality(Pack)
              [] todo = "export evidence"     -> short(Exportable(records))
              [] todo = "verify ledger"       -> short(Verified(records))
              [] todo = "confirm checkpoints" -> short(WithCheckpoints(records))
              [] todo = "fill metadata"       -> Completeness(records) < 80}

PilotRecords(subject) == Audited(RunsOf(subject))
-----------------------------------------------------------------------------
(* Properties *)

Scopes == Subjects \cup {Everyone}

TypeOK ==
    /\ now \in 0..MaxTime
    /\ template \in [Templates -> Policies]
    /\ \A r \in DOMAIN runs : /\ runs[r].kind \in Kinds /\ runs[r].created \in 0..now
                              /\ runs[r].job \in Jobs \cup {NoJob}
    /\ link \in [Jobs -> 0..Len(runs)]
    /\ \A c \in checkpoints : c.run \in 0..Len(runs) /\ c.job \in Jobs \cup {NoJob}
    /\ \A r \in DOMAIN runs : RoiEvidence(r).value \in Nat
    /\ \A subject \in Scopes : Completeness(PilotRecords(subject)) \in 0..100

\* However often a job is retried, a checkpoint is counted for one run at
\* most, and only for one whose page lists it; every run has its own.
CheckpointsCountOnce ==
    /\ SumFunction([r \in DOMAIN runs |-> CheckpointCount(r)]) <= Cardinality(checkpoints)
    /\ \A r \in DOMAIN runs :
          /\ CheckpointCount(r) <= Cardinality(ListedCheckpoints(r))
          /\ CheckpointCount(r) > 0

\* The figures of one report agree, for everyone and for each subject: the
\* trend and the oldest, partial day of the window add up to all units, the
\* total misses at most what the list of templates leaves out and is nothing
\* only when nothing ran, and ROI is of the audited runs.
TotalsAgree ==
    \A subject \in Scopes :
        LET records == RunsOf(subject)
            oldest == {r \in records : Date(runs[r].created) = Date(now) - Days}
            oldestBlocks == {b \in BlocksOf(subject) : Date(blockLogs[b].created) = Date(now) - Days}
            trend == Trend(subject)
        IN  /\ SumFunction([d \in DateKeys |-> trend[d].units]) + Units(oldest) = Units(records)
            /\ SumFunction([d \in DateKeys |-> trend[d].audited])
                   + Cardinality(Audited(oldest)) = RoiSummary(records).runs
            /\ SumFunction([d \in DateKeys |-> trend[d].blocks])
                   + Cardinality(oldestBlocks) = Cardinality(BlocksOf(subject))
            /\ BillableTotal(records) <= Units(records)
            /\ Cardinality(TopTemplates(records)) < TopLimit => BillableTotal(records) = Units(records)
            /\ "no_billable_activity" \in Hints(subject, TRUE) <=> records = {}
            /\ RoiSummary(records).units <= Units(records)

\* A pilot is ready only with at least one run of every scenario, for each of
\* them every kind of evidence and as many runs with it as the pack is long;
\* and replay is advised to nobody whose pilot is not ready.
ReadyIsEarned ==
    \A subject \in Scopes :
        LET records == PilotRecords(subject)
        IN  /\ ReadinessStatus(records) = "ready" =>
                  /\ \A s \in Pack : \E a, b, c \in ScenarioRuns(records, s) :
                         LedgerValid(a) /\ Checkpointed(b) /\ HasMetadata(c)
                  /\ Cardinality(Verified(records)) >= Len(Scenarios)
            /\ Recommendations(records) = {} => ReadinessStatus(records) = "ready"
=============================================================================
