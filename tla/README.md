# Formal model of the DevOps Agent Control Plane

TLA+ specifications of the backend (`backend/app`), their TLC configurations
and TLAPS proofs. Paths below are relative to the repository; `S` stands for
`backend/app/services/orchestration_queue_service.py`, `O` for
`orchestration_service.py`, `H` for `history_ledger.py`, `C` for
`workflow_checkpoints.py`, `MS` for `monetization_service.py`, `E` for
`evaluation_service.py` and `L` for `llm_provider.py`, all in
`backend/app/services/`.

    tlc -workers 2 -config QueueRaces.cfg MCOrchestrationQueue
    tlapm OrchestrationQueueProofs.tla
    tlapm QueueLifecycleProofs.tla
    tlapm OrchestrationRunProofs.tla
    tlapm UsageMeteringProofs.tla
    tlapm RunAdmissionProofs.tla
    tlapm BackendProofs.tla
    tlapm EvaluationRunsProofs.tla
    tlapm CommercialReportsProofs.tla

`PROJECT.json` lists every run, its properties, the source lines of every
definition, and for every property a mutant of the model that breaks it. The
mutants are in the modules, before the definition they replace.

## 1. The system

A FastAPI process serves the API over one relational database (PostgreSQL in
deployments). Handlers are synchronous functions, so FastAPI runs each on a
thread of its pool, with a SQLAlchemy session of its own (`autoflush=False`,
`database.py:11`). Background tasks run on the same pool after the response
has been sent and exist in the memory of the process only. No query locks a
row (`SELECT ... FOR UPDATE`), no table has a version column: two sessions
meet only in the database, through commits. The Kubernetes manifest asks for
one replica but for rolling updates, so an old and a new process overlap
(`k8s/backend.yaml:45-49`). The tests drive the API through `TestClient`,
where a background task has ended before the call returns; nothing below that
involves two sessions at once is exercised by them.

| Component | State | Operations | Talks to |
|---|---|---|---|
| Orchestration queue (`S`) | `workflow_queue_jobs`, `workflow_queue_events`, tasks in memory | enqueue, retry, cancel, `_process_queue_job` | runs, ledger, checkpoints, usage metering |
| Orchestration runs (`O`) | `workflow_orchestrations`, `workflow_step_runs` | `run_orchestration`, history, metrics, exports | ledger, checkpoints, metering, the queue's `should_cancel` |
| History ledger (`H`) | `history_events` (unique `event_uid`) | append, startup backfill, verify | everything that writes evidence |
| Checkpoints (`C`) | `workflow_checkpoints` (unique `checkpoint_uid`) | append, list, count | runs, queue |
| Quota and usage metering (`O`, `MS`) | `usage_counters`, usage logs in `agent_run_logs` | quota check, record, counter backfill | queue, runs, reports |
| Subscriptions and tokens (`MS`, `entitlement_service.py`) | `subscription_profiles`, signed tokens held by clients | checkout, cancel, reactivate, issue a token | metering, policy gate |
| Templates and policy gate (`O`) | `workflow_templates`, policy in tags | create, update, import, admit a run | runs, queue |
| Rate limiter (`main.py`) | buckets of request times, under a lock | admit or answer 429 | every request |
| Startup (`db_migration.py`, `db_bootstrap.py`, `alembic/`) | schema, `alembic_version` | stamp, upgrade, create tables, backfills | ledger, metering |
| Evaluation (`E`, `L`) | evaluation runs, results, invocations, feedback | run an evaluation, call the provider, give and summarize feedback | an external model provider |
| Reports (`MS`, `roi_service.py`) | none | commercial metrics, pilot readiness, closeout | read everything; backfill the counters |
| Workspace (plans, reflections, notes, prompt templates, analyses, tasks, profile) | one table each | create, read, update, delete | agent logs |
| Frontend | view state | polling, retries of reads | the API |

What makes each of them correct, and what is hard about it:

- **Queue.** A job follows the documented lifecycle; none is forgotten while
  queued or running; attempts respect the limit; a cancel that is acknowledged
  counts; a succeeded job links the run that made it succeed. Hard: every
  transition is a read and a later write in different sessions, a write
  contains only the columns the session changed, and the worker works on a job
  for as long as its run takes.
- **Runs.** A reported success is a whole run; evidence matches rows. Hard:
  each row, event and checkpoint is a commit of its own, and a run may end
  between any two.
- **Ledger.** An event is there once; nothing on it is untrue; the backfill
  covers what died. Hard: look up first, insert later; overlapping backfills.
- **Checkpoints.** One for every event; each counted for one run, and only for
  one that lists it. Hard: two queries decide by different columns, and a
  retry links the job to another run.
- **Metering.** Used equals recorded runs; quota is not exceeded. Hard: three
  transactions per call, a counter read and written back, a backfill triggered
  by reads that counts the same runs.
- **Subscriptions.** One profile per subject; a tier a token carries was paid
  for. Hard: operations that overlap, tokens that outlive a change.
- **Templates and gate.** An edit of steps keeps the declared policy, and it is
  clear which edit of tags does not; what is executed passed the gate or is
  within the tier. Hard: the policy is encoded in tags, the template is read
  again at execution, perhaps much later and after a retry that passes no gate.
- **Startup.** A process that serves has its tables; the revision claims no
  more than was done; a crash anywhere is made up for. Hard: five kinds of
  commit, two dialects, databases of every earlier release with and without a
  revision, data migrations that rely on names nothing keeps unique.
- **Rate limiter.** A client that waits as told, alone on its key, gets through. Hard: a window
  closed at both ends, seconds cut off.
- **Evaluation.** A run that ended has a result for each case and counters
  that match; a run ends. Hard: results wait in a session that the provider's
  code commits.
- **Reports.** The figures of one report agree; "ready" means something. Hard:
  totals, trend and lists select by different conditions, from policies that
  change.

`PROJECT.json`, "hazards", names the line at which each of these bites and the
properties that cover it, or why none does.

## 2. Plan

| Order | Module | Content | State |
|---|---|---|---|
| 1 | `QueueLifecycle` | abstract: the lifecycle of `docs/architecture.md`, atomic transitions | done |
| 2 | `OrchestrationQueue` | handlers and tasks over rows, every read and commit | done, proved (section 5) |
| 3 | `HistoryLedger`, `OrchestrationRun` | run evidence, backfills, interruptions | done, proved |
| 4 | `UsageMetering` | quota check, usage log, counter and its backfill | done, proved |
| 5 | `TemplatePolicy`, `Subscription`, composed in `RunAdmission` | policy in tags, paid tiers and tokens, gate at admission against execution | done, proved |
| 6 | `SchemaMigration`, `RateLimiter`, composed in `Backend` | startup with crashes, the serving process | done, proved but for liveness |
| 7 | `EvaluationRuns` | evaluation, provider, feedback | done, proved but for liveness |
| 8 | `CommercialReports` | checkpoint queries, commercial metrics, pilot readiness | done, proved |
| 9 | `OrchestrationQueueProofs`, `OrchestrationRunProofs`, `UsageMeteringProofs`, `RunAdmissionProofs`, `BackendProofs`, `EvaluationRunsProofs`, `CommercialReportsProofs` | every invariant the runs check (section 5) | done |
| 10 | `QueueLifecycleProofs` | refinement of `QueueLifecycle` by `SequentialSpec` | done |
| 11 | abstract ledger and abstract counter | what `HistoryLedger` promises its callers, and what a metered period promises when sessions do not overlap, as specifications that the detailed ones implement | later |

Each component module takes its sizes and bounds as CONSTANTS, has one action
per database step of the code, and uses no recursive operator, so that it can
be proved about as it is.

## 3. Modules

### OrchestrationQueue

A *request* is one API call on one job (`target`): its handler and, if it
queues the job, the background task it leaves behind. `pc` is where that
thread is; `loaded` is its session's copy of the job row, `AbsentRow` when the
session has none; `job` holds the committed rows, reduced to the columns that
decide anything (`status`, `attempts`, `cancel_requested`,
`orchestration_id`; `max_attempts` is the same for all jobs, texts and times
are left out). `run` and `step` stand for the orchestration row the task
creates and its progress, `curtailed` remembers that the run skipped a step on
a cancel request. `events` and `checkpoints` are sets of rows, identified by
request and type: a request writes each type at most once.

Correspondence of steps:

| Action | Code |
|---|---|
| `Enqueue`, `AddTask` | `S:26-81`; insert, event, ledger in one commit, then the task |
| `RetryRead`, `RetryCommit` | `S:130-160`; the checks on the copy, then the write |
| `CancelRead`, `CancelCommit` | `S:163-195` |
| `TaskRead`, `TaskStart`, `TaskCancelBeforeStart` | `S:198-229` |
| `TaskRefresh` | `S:230-234` |
| `RunAccept`, `RunRefuse`, `RunStep`, `RunComplete` | `run_orchestration`, as far as the queue can see it |
| `FinishRead`, `FinishCommit` | `S:247-274` |
| `RunRaise`, `FailCommit` | `S:275-289` |
| `WriteCheckpoint` | the rest of `_append_queue_event`, `S:337-346` |
| `SessionFailure`, `ProcessCrash` | the except branch's query failing, the process dying |

Three facts about SQLAlchemy carry the model. A row already in the session
and not expired is not read again by a query for it, so the copy of one read
is used until the session's next commit (`Expire`). A flush updates the
columns whose value differs from the loaded one and no others (`Flush`): a
retry that loaded `cancel_requested = False` does not write it. And
`append_history_event` commits (`H:102`), which commits the job columns and
the event flushed before it, while the checkpoint that follows is a second
commit (`CommitWithEvent`, `WriteCheckpoint`). The ledger entry of a queue
event cannot collide, its uid contains the id of the row just inserted.
Between the flush and that commit the database holds a lock on the row, and no
other session is involved: the two are one step.

`Steps` may be 0: a template can be updated to have no enabled step
(`WorkflowTemplateUpdate`, `schemas.py:436-442`, checks nothing) after a job
that names it was accepted.

`QueueOvertaken` adds one history variable, the requests whose copy of the job
was out of date while they were deciding on it, and two properties: only those
take a job beyond its limit of attempts (`OverrunsAreOvertaken`), and until
there is one the end of a job stands (`EndingsStand`).

`SequentialSpec` restricts the same actions to behaviours in which no request
is between its read and its write of a job while another is
(`OneDecides`). That is what the tests exercise and what a row lock would
enforce. Runs still overlap with handlers in it.

### QueueLifecycle

The abstract specification: `status`, `attempts` and `cancelRequested` of each
job with the transitions of `docs/architecture.md`, "Queue Lifecycle", each in
one step, under the conditions of the code. `OrchestrationQueue` instantiates
it as `Lifecycle` with the committed columns as refinement mapping and states
`KeepsLifecycle`.

### HistoryLedger and OrchestrationRun

`HistoryLedger` is `append_history_event`: `AppendRead` looks for the uid,
`AppendCommit` inserts or, on the unique constraint, takes the row that is
there. `OrchestrationRun` instantiates it and adds its callers: a run
(`O:128-391`) whose row, step rows, events and checkpoints are one commit
each, and startup backfills (`H:216-233`), each loading first all runs and
then all steps and appending one event for each row. `Interrupt` ends any set
of runs and backfills between two steps. Whether a cancel is requested and how
a step ends are choices of the environment. Checkpoint uids are unique to a
run and a step (`O:157`, `O:199`, `O:239`), so their lookup never finds one.
The backfills of queue rows and agent logs are loops of the same shape over
other tables and are not repeated.

### UsageMetering

One subject, one metric (workflow runs or queued runs; they share no row) and
one billing period. A *call* is the quota check of
`enforce_monetization_policy_for_run` (`O:465-561`), the run or the enqueue
(`Execute`), and `_write_monetization_event` with `record_plan_usage`
(`O:1661-1695`, `MS:96-147`); a *refresh* is
`backfill_current_period_usage_counters` (`MS:179-206`), executed at startup
and by every read of usage or commercial metrics. `present`, `used` and
`lastId` are the counter rows of the period, `copy` what a session has read of
the newest. `_upsert_current_period_counters` always changes `updated_at`, so
its flush updates the row and, in PostgreSQL, locks it until the commit
(`Flush`, `Locked`); the value of `used` was read before and is not read
again. In a call nothing happens between flush and commit that another session
could notice, a refresh counts the logs there: its two steps. A subject
without an active profile (`subscribed` false) is checked against its logs
(`CheckLogs`); when that query fails `_count_usage_events` answers 0 and the
call goes on as if nothing had been used (`CountFails`, `O:1715-1731`).

The history variable `raced` is the set of sessions that were at work while
another was, and `overlapped` says that there are any. Properties that begin
with `~overlapped` are about calls one after the other, which is what the
tests exercise; failures are part of those behaviours. `RacesOverrunAlone` and
`RacesLoseTheirOwn` are about behaviours with races and speak of the sessions
outside of them.

### TemplatePolicy, Subscription and RunAdmission

`TemplatePolicy` is one row of `workflow_templates`. Its policy has no columns:
`_tags_with_policy` (`O:1128-1152`) spells it out in tags and
`_template_policy_from_tags` reads it back, with a default for each part the
tags do not mention (the price is then the number of enabled steps). An update
derives the policy from the request's tags when it has any and no policy
(`O:921-929`), so tags that name only a part of a policy, or none, replace the
stored ones and with them the parts they do not name. The variables `declared`
and `dropped` are history: for each part of the policy what a request last
said of it, and whether tags that were silent about it were sent since. A
creation and an import are whole templates, what they leave out has its
default.

`Subscription` is the rows of `subscription_profiles` of one subject:
`OperationRead` is the query every operation begins with, `OperationCommit`
what a checkout, a cancellation or a reactivation makes of its copy
(`MS:548-721`), writing the columns that differ. `raced` is the operations
that overlapped another, `paid` the tiers of the checkouts one of which is the
last: one checkout, when it was made alone, or those that raced since then. A cancellation only sets a
flag, nothing ends a profile but its date, and a new checkout within a period
keeps that period's end. `IssueRead` and `IssueSign` are
`GET /monetization/entitlement`; a token is its tier and its expiry.

`RunAdmission` composes the two with the requests between them: `Arrive` is
the context (a valid token, or what the settings allow instead) and the policy
gate (`O:1023-1102`), `CheckSteps` the capability check (the template is read
again if the approval's event was committed in between), `Execute` what
`run_orchestration` does with the template it then finds, `Retry` the retry of
a failed job, which passes no gate.

### SchemaMigration, RateLimiter and Backend

`SchemaMigration` is `run_startup_migrations`. The schema is a set of *parts*:
a table, or a group of columns or indexes that one revision adds to one. Each
of the nineteen revisions is a sequence of statements that create a part, with
or without looking whether it is there (`Create`, `CreateOnce`), or change
data. `db` is what is committed, `work` what the upgrade's connection sees. On
PostgreSQL they meet when the whole upgrade commits (`UpgradeCommit`), on
SQLite every DDL statement stays (`Stays`) and the revision is committed with
its last statement. The initial states are the databases a start can meet:
empty, migrated by the release of any revision, or created by the models of
any revision without Alembic, and in each of these that has templates the name
of a built-in one may occur twice (`origin.twice`): names are not unique, and
an import duplicates them (`O:979`). Revisions 13, 14, 15 and 17 look
templates up by name with `scalar_one_or_none`, which then raises
(`Ambiguous`), at this start and at every later one. `ensure_core_tables` is `create_all`, which adds
tables and never columns. Of data the model keeps whether a record and its
ledger event hold the term revision 0019 replaces, and which text the event's
hash was taken of.

`RateLimiter` is the middleware's deque for one key, with a client that waits
as `Retry-After` says and is the only one on its key (`main.py` keys by
address, method and path). `Backend` composes the two as the container does:
migrations, then serving, from the start again after a crash, which empties
the limiter.

### EvaluationRuns

`RequestRun` is the secret, the selection of cases and the commit of the row
as `running` (`E:59-87`). A case is scored by rules, or by an answer of the
provider: any member of `Replies`, `"none"` for a failure, a timeout or an
answer that is not the JSON agreed. `invoke_release_gate_model` commits the
invocation in the same session and with it the results that wait there
(`ResultsAfterInvocation`); in deterministic mode they wait for `Finish`. A
case asked for twice violates the unique constraint at that commit; the error
leaves the endpoint and nothing ends the run (`Abandon`). So does an
invocation that the database refuses for a text it cannot store: the except
branch commits in the same session, which raises again (`InvocationRefused`). Feedback is appended
and `FeedbackSummary` reads the newest entry of each result.

### CommercialReports

Runs, checkpoints, usage logs and blocked requests are appended as other
components write them, complete; the reports are operators on that state:
`RunsOf` and `InWindow` select records (`MS:773-799`, `MS:1124-1136`), `PolicyForRecord`,
`Units`, `TopTemplates` and `Trend` are the commercial metrics
(`MS:257-390`), `RoiEvidence` is `roi_service.py`, `CheckpointCount` and
`ListedCheckpoints` the two queries of `C`, and `ScenarioStatus`,
`Completeness`, `ReadinessStatus` and `Recommendations` the pilot readiness
report (`MS:393-525`, `MS:724-890`). A template's policy is the one it has now, not the one
a run was admitted under. Time is in ticks so that a window can begin in the
middle of a day.

## 4. Runs

| Run | Instance | Shows |
|---|---|---|
| `queue_races` | 3 requests, 1 job, limit 2, 1 step, 1 failure | all interleavings: types, no queued job without a task, no running job without a worker that will settle it, sound and permanent links, events checkpointed |
| `queue_sequential` | 4 requests, 1 job, limit 2, 1 step, 1 failure, `SequentialSpec` | `KeepsLifecycle`; a succeeded job had a whole run and one worker |
| `queue_liveness` | 3 requests, 1 job, limit 2, no failure, `HistorySpec` of `QueueOvertaken` | every accepted job settles; attempts exceed the limit by at most one for each request that was overtaken, and an ended job changes only by a retry or after one was |
| `queue_double_run` | 3 requests | finding: enqueue, cancel, retry execute a job twice at once |
| `run_trail` | 1 run of 2 steps, 2 backfills, 1 interruption | events unique and backed by rows, counts right, success whole, at most one event owed, backfills complete |
| `metering` | 3 calls, 2 refreshes, limit 1, 1 failure | all interleavings: the counter is ahead by one unit a run at most; what races overrun or lose is their own; one at a time: exact quota, refresh repairs |
| `metering_double_count` | 1 call, 1 refresh | finding: a refresh and the call's own recording bill the same run |
| `admission` | 1 run, 2 executions, 2 template edits, 2 subscription operations, 3 units of time | executions are within the tier, and within the policy unless it was edited since; a signed tier was paid for; each part of a policy is what was last said of it, but for those that silent tags dropped, and what these become; the newest profile has the tier of the last checkout or of one that raced with it |
| `startup` | databases of all 19 revisions, 1 record, 2 crashes; 2 requests in 2 seconds | a serving process has its tables; the revision is honest; on PostgreSQL a start succeeds in the end, or never, according to the database it found; nobody who waits is refused more than twice |
| `ledger_rewritten` | 1 record, no crash | finding: revision 0019 makes recorded events invalid |
| `evaluation` | 2 runs at once, 3 cases, 3 kinds of answer, 1 crash, 2 entries of feedback | an ended run is whole, answers and results agree also while feedback is given, runs end |
| `reports` | 3 runs, 1 job, 1 template, a window of one day, 2 scenarios | a checkpoint counts once; totals, trend and ROI agree |

**Why the bounds are enough.** Jobs do not interact: no action of a request
touches a row other than its target, so one job is checked and the theorems
cover any number. A race takes two sessions and a third to have put the job in
the state they race in; that gives three requests, and the fourth of
`queue_sequential` gives room for enqueue, failure, retry and a cancel or
another retry at the limit. `max_attempts` is 3 in the code (`S:43`); with 2
the limit is reached with one request less, and nothing in the code depends on
the number otherwise; an execution, a retry and a retry overtaken by it exceed
it. One workflow step is enough to be canceled before and
after; the run without steps is that of the liveness and violation runs. One
failure takes any set of threads at any point, and a second adds nothing that
properties over `crashes = 0` or `lost` requests distinguish. In `run_trail`
two steps give every combination of a failed, skipped and successful step, and
two backfills every overlap; runs meet only in the ledger, where their events
differ.

In `metering` two calls race for a unit and a third finds the result; the
second refresh sees what the first one wrote. With a limit of 1 the third call
of a sequential behaviour is refused after one regular one, or after one that
failed before its recording and one more. Three calls also are two that race
and one before or after them, which is what the properties about races speak
of.

In `admission` one edit creates the template and the other changes it between
any two reads of the run, to none, to few or to too many steps (0, 2, 4
against a limit of 1 or 3), with tags and with a policy that disagree; requests
do not touch each other's rows. Two operations are a checkout and anything
else, before it, after it or at the same time; a period of 1, a token life of
2 and three units of time let a profile end while its token is valid and the
token expire before a later request.

The tags spell a whole policy or name no part of one: a declared policy that
an edit of steps keeps and one that silent tags drop are two writes each. Tags
that name a part only, longer sequences of edits, and a race of checkouts
followed by one made alone are beyond these bounds; the theorems
`PolicySurvivesEdits` and `LastCheckoutCounts` cover them.

In `startup` the code's own nineteen revisions are executed from every
database an earlier one can have left, and two crashes let a restart be
interrupted again. With half seconds as ticks the truncation of `Retry-After`
loses one tick; a limit of two requests lets two be of different ages.

In `evaluation` two live runs share the table of invocations; three cases, one
of each expected decision, give results before, at and after the failing
commit. In `reports` three runs let a job be retried beside a run at once; a
list of one template shorter than what was used stands for the code's five,
a pack of two scenarios for its five; ticks of half a day put runs on both
sides of the window's beginning within one date.

Bounds on behaviours are `MaxCrashes`, the numbers of requests, operations,
runs and executions, `MaxEdits`, `MaxFeedback`, `MaxBlocks` and the clocks'
`MaxTime`.

**Fairness.** `Fairness` of the queue asks for weak fairness of what a request
does on its own after it has arrived (`Proceed`): the operating system
schedules the pool's threads, each step is a database call that returns.
Arrivals are not fair. `EveryJobSettles` is checked without crashes, which
nothing in the code repairs: see the hazards at `S:80` and `S:277`. In
`EvaluationRuns` the same holds for `Score`: a handler's thread goes on, and
the provider is called with a timeout (`L:92`); a request is not fair, and
a crash or a case asked for twice excuses the run. In `Backend` the startup is
fair because the container is restarted whenever its process ends
(`docker-compose.server.yml`, `restart: unless-stopped`, and the default policy of a
Kubernetes pod); serving and crashing are not.

**Findings.** The violation runs each refute one sentence of the
documentation, two by a race of two or three ordinary calls, one by an upgrade.
What the races refute holds when nothing overlaps (for the queue in
`KeepsLifecycle` and in the second conjunct of `SucceededRunIsWhole`, for the
counter in the theorem `CounterIsInStep`), and `OverrunsAreOvertaken`, `EndingsStand` and
`BilledTwiceAtMost` bound the damage when something does. The first two say by
what they except where the code falls short of `docs/architecture.md:50-51`: a
retry that was overtaken starts a job beyond its limit of attempts, and a
cancel that was overtaken replaces the end a job has reached where the document
promises a conflict. Taking the row's lock with the read, or checking the
status in the UPDATE, would be enough to keep all three.

The conditions under which a property holds say what the code does not do:

- The queue's properties assume that the process lives (`crashes = 0`), or
  excuse the requests that died: nothing in the code looks for queued or
  running jobs at startup (`S:80`), and the except branch of a task whose
  session is broken raises too (`S:277`). An acknowledged cancel counts, and a
  succeeded job had a whole run, only for requests that decide one at a time.
- `RevisionIsHonest` excepts stamped databases. `StartsEventually` names the
  databases no start can bring up (`NeverStarts`) and says of them that none
  does: those that the models of revisions 6 to 15 created without Alembic,
  whose tables lack columns of revision 16, which the stamp at head hides from
  all but the ledger backfill; and those at a revision before 15 with two
  templates of one built-in name, or before 17 with two of the release gate's
  name. `docs/architecture.md:15` describes
  stamping as covering such schemas, and the loud failure it promises is that
  of the backfill. On SQLite a crash inside a revision that creates tables
  without looking (0001 to 0005, 0018) has the same effect.
- `GateHoldsUnlessEdited` is silent about a template that was edited after the
  gate: approval and tier are not asked again, only the number of steps is.
- `DeclaredPolicyHolds` is silent about the units of a template whose last tags
  named none, and says of its tier and approval only what the loss makes them:
  `pro` and none. No document says what such tags should do.
- `CheckoutsTakeEffect` says what races leave: two first checkouts at once
  leave two profiles, and either of them may be the newest.
- `RefusedTwiceAtMost` is about a client alone on its key: another sender
  behind its address can take the place it waits for.
- `EventsAreCheckpointed` excuses the one event of a request that died between
  its two commits (`S:336`).
- `TotalsAgree` adds the oldest, partial day of the window to the trend and
  allows the billable total to miss what the list of templates leaves out.
- `ReadyIsEarned`, a theorem, does not say that one run of each scenario has all evidence,
  nor that no counted run has an invalid ledger: readiness counts each kind of
  evidence by itself. `README.md:71` reads stronger than that.

**Deadlock** is checked in the queue, run and metering modules, where `Quiet`
is the end of a behaviour in which all requests have been made and have ended,
and in `ledger_rewritten`. `Admission.cfg`, `Backend.cfg`, `Evaluation.cfg` and `Reports.cfg` switch it off: there nobody waits for anybody, a behaviour
stops when its clock and its bounds are used up.

## 5. Proofs

`OrchestrationQueueProofs` proves for all values of the constants that satisfy
`QueueAssumption` (the limit is positive, the other bounds are natural, the
null link is no request):

| Theorem | Property | Strengthening |
|---|---|---|
| `TypeCorrect` | `TypeOK` | inductive as it is |
| `LinksAreSound` | `LinkedRunEnded` | `LinkInvariant`: the run's status follows the thread (`RunFollowsTask`), and a copy with a link is one of a row with a link (`LoadedLinkIsKept`) |
| `LinksAreKept` | `LinkIsKept` | the same; no session ever assigns a null link over another |
| `QueuedJobsHaveTasks` | `QueuedJobHasTask` | `QueuedInvariant`: a task starts a job only on a copy that says queued, so its write changes the status |
| `RunningJobsHaveWorkers` | `RunningJobHasWorker` | inductive: `WillSettle` already looks at the copies, because an ending whose copy holds the status it assigns writes nothing |
| `AttemptsAreShown` | `AttemptsAreOnTimeline` | `AttemptInvariant`: copies do not run ahead of the timeline, and a task before its start has no started event |
| `TrailIsComplete` | `EventsAreCheckpointed` | `TrailInvariant`: what is due is on the timeline |

Each follows the same argument. `CommitColumns` says which columns a commit
writes, `AssignedColumns` what each action assigns; for each invariant one
lemma treats commits, one reads and one crashes, and the step theorem splits
on the disjuncts of `Next`.

`OrchestrationRunProofs` proves all invariants of its run under
`RunAssumption` (runs and backfills are different sessions, the numbers are
natural, the null event is no event):

| Theorem | Property | Strengthening |
|---|---|---|
| `TypeCorrect` | `TypeOK` | `EvidenceInvariant`, which needs `ProgressInvariant`: the status a step's event carries is looked up, and the row must be there |
| `SuccessesAreWhole` | `SuccessIsWhole` | `ProgressInvariant`: where a run is fixes its status (`RunState`); it has one row for each step behind it, a skipped one last, and then it is stopped (`RunRows`) |
| `EvidenceIsSound` | `EvidenceIsBacked` | `EvidenceInvariant`: what is on its way to the ledger and what a backfill has loaded is backed as well. `CountInvariant`: the checkpoints written so far are counted by place and step, and `Places` bounds those that exist, so each write is a new one |
| `DebtIsSmall` | `AtMostOneEventIsOwed` | `DebtInvariant`: a run owes at most what it is about to append (`Due`), and that is one event, because rows are unique |
| `BackfillsCover` | `BackfillCovers` | `BackfillInvariant`: a loaded row has its event, is being appended, or is still to come |

`Effects` says what a step may do to evidence; one lemma shows it for runs,
one for backfills, one for commits and failures, and `BackedStays` that rows
only ever confirm what was said of them. `Apart` is what steps that are no
run's leave alone.

`UsageMeteringProofs`, under `MeteringAssumption` (finite, disjoint sets of
sessions, at least one call, a positive limit):

| Theorem | Property | Strengthening |
|---|---|---|
| `TypeCorrect` | `TypeOK` | `MeteringInvariant`: ids given out are no more than the sessions that will insert no more (`Settled`), which is why a row's id is at most the number of sessions |
| `RunsAreBilledTwiceAtMost` | `BilledTwiceAtMost` | `BillingInvariant`: the bound holds for copies and counts too, because a session writes what it read long before; a call that billed is done, so the total rises with each recording |
| `QuotaIsKept` | `QuotaIsExact` | `SequentialInvariant` (of this module): until sessions overlap one works at a time, there is one counter row, what the session has read is it (`Current`), and counter, logs, executed runs and failures differ by what the session still has to do (`Counts`) |
| `CounterIsInStep` | `CounterFollowsLogs` | the same |
| `RefreshMakesGood` | `RefreshRepairs` | the same, as an action property: only the refresh that commits is concerned |

`RunAdmissionProofs`, under `TemplateAssumption`, `SubscriptionAssumption` and
`AdmissionAssumption` (the choices are well typed and none of them stands for
"not given", operations are finitely many, periods and token lives are
positive, a request may be executed at least once):

| Theorem | Property | Strengthening |
|---|---|---|
| `TypeCorrect` | `TypeOK` | `TemplateInvariant`, `SubscriptionInvariant`, `RunInvariant`; the newest profile exists because `<` is well founded |
| `PolicySurvivesEdits` | `DeclaredPolicyHolds` | `TemplateInvariant`: a template that exists spells its policy out in its tags, so an edit of its steps derives the same one, and a part that was dropped stays at its default until something is said of it |
| `GateHoldsUntilEdited` | `GateHoldsUnlessEdited` | `GateInvariant`: a request remembers the version it was admitted under, every write takes the next version, so equal versions mean an equal policy |
| `ExecutionsFitTheirTier` | `StepsWithinTier` | inductive with the types |
| `SignedTiersWereInForce` | `TierWasInForce` | `TokenInvariant`: a token, and the profile one is about to be signed from, is of a tier in force within a token's life |
| `LastCheckoutCounts` | `CheckoutsTakeEffect` | `ProfileInvariant`: in every row and every copy the entitlements are the tier's (`RowsAgree`, `CopiesAgree`); two operations at work have both raced, and so have two rows (`RacesNoted`); an operation that has not raced holds a true copy of the row it found (`FoundRow`), and if it found none there is none (`FoundNothing`); a row whose tier counts no more is older than one that counts (`PaidIsLatest`) |

`QueueLifecycleProofs` is about `SequentialSpec`, under `QueueAssumption`:

| Theorem | Property | Strengthening |
|---|---|---|
| `SucceededRunsAreWhole` | `SucceededRunIsWhole` | `SequentialInvariant`: what a request at its decision has loaded is the row (`DecidesOnRow`), and one request at most executes a job |
| `QueueKeepsLifecycle` | `KeepsLifecycle` | the same: `Flush` of a decision on the row as it is is the decision (`FlushOfRow`), so each commit is a transition of `QueueLifecycle` or leaves its variables alone; the run's steps and crashes stutter |

`BackendProofs`, under `LimiterAssumption` (window, limit and second are
positive) and `MigrationAssumption` (finitely many records). The nineteen
revisions are a constant of the model; their number and the length of each
are computed in the proofs from their definitions:

| Theorem | Property | Strengthening |
|---|---|---|
| `BackendTyped` | `TypeOK` | `MigrationInvariant`, `LimiterInvariant` |
| `ServedTablesExist` | `ServesAllTables` | no table is missing from the backfill on |
| `RevisionKeepsItsWord` | `RevisionIsHonest` | `UpgradeInvariant`: the upgrade's connection sees what is committed, all of the revisions behind it and the statements done of the one it is at; on SQLite what stays is part of that |
| `SecondWaitSuffices` | `RefusedTwiceAtMost` | `LimiterInvariant`: a client that was refused once comes back less than a second too early, one that was refused twice after the oldest entry of the bucket has left the window |

`EvaluationRunsProofs`, under `EvaluationAssumption` (the dataset's cases have
distinct ids; requests ask for ids in any sequence, also twice and unknown):

| Theorem | Property | Strengthening |
|---|---|---|
| `EvaluationTyped` | `TypeOK` | `TypeInvariant` and what waits in a session (`ScoringInvariant`) |
| `EndedRunsAreWhole` | `FinishedRunIsWhole` | `RunInvariant`, for each run: while it is scored, its committed and waiting rows are those of the cases behind it, and its counters count them (`ScoringInvariant`); `OthersKept`: what another run commits leaves its rows alone |
| `ResultsAreTraced` | `AnswersAreScored` | `RunInvariant`: a live run has as many invocations as results, counting the one that waits (`ScoringInvariant`), so one is left over when it dies between them |
| `LastWordIsKept` | `LastWordCounts` | no invariant but the types; the newest entry of each result is found by `<` being well founded, and the summary's sets gain or lose the one result |

`CommercialReportsProofs`, under `ReportsAssumption` (policies and kinds of
runs are well typed, a run has at most its four fields of metadata, the
scenarios of the pack are distinct and there is one, the list of templates has
room for one):

| Theorem | Property | Argument |
|---|---|---|
| `ReportsTyped` | `TypeOK` | `TypeInvariant`, in which every run has a checkpoint of its own; a run's fields are pairs of the run and a number up to four |
| `NoCheckpointCountsTwice` | `CheckpointsCountOnce` | the two queries select disjoint checkpoints (`CountedOf`), and so do two runs |
| `FiguresAgree` | `TotalsAgree` | `DaysAddUp`: the dates of the trend and the oldest day divide the window (`DatesAreOfTheWindow`); `ListIsFilled`: the first template that is left out has all those ahead of it on the list, so a list that is not full has them all |
| `ReadinessIsEarned` | `ReadyIsEarned` | `PackIsAsLong`, and completeness being a number |

`TypeInvariant` is the inductive part of these; the rest follows in each
state. Sums are where an induction over data seems to be needed, since
`SumFunction` is a fold. `SumOfSizes` avoids it: the sizes of disjoint sets
obey the equation of the fold with the size of their union in place of the
sum, and the equation has one solution (`FoldIsUnique`, by a least
counterexample). A sum of units is then the size of a set, the pile of one
pair for each unit of each run (`UnitPile`), and sums are compared as sets.

**Only model-checked.** `EveryJobSettles`, `StartsEventually` and `RunsEnd`:
liveness under fairness is out of the prover's reach. `RacesOverrunAlone`,
`RacesLoseTheirOwn`, `OverrunsAreOvertaken` and `EndingsStand` are checked and
not proved.
Every other property of the passing runs is a theorem.

The violation runs need no proof: each shows its behaviour.

**Only proved.** `AttemptsAreOnTimeline`, `CounterFollowsLogs`,
`LastWordCounts` and `ReadyIsEarned` are theorems that no run repeats; TLC
confirmed them on the instances above before they were proved.

## 6. Not modelled

- Texts: step outputs, summaries, audits, error messages, redaction, markdown
  exports. No property is about them.
- Read-only views of histories, metrics of orchestrations, evidence bundles;
  of the reports the profile and counter summaries, the team filter, the Power
  upgrade signals and the commercial events.
- In metering: the rollover of the period or the expiry of a profile between
  a call's check and its recording.
- In templates: two edits of one template at once, and the rows an import with
  duplicate names leaves; the model has one row and writes it in one step.
- In reports: writes and midnights between `generated_at` and the report's
  queries; a report is taken at one instant.
- In subscriptions: the public bootstrap token, which involves no row, and the
  counter that a checkout opens (its lookup is `UsageMetering`'s). A token's
  signature is taken to do its work: the set `tokens` is what was signed.
- In evaluation: pilot measurements and their comparison, cost and latency.
  The provider is external: any reply at any time.
- Downgrades of the schema, which no code runs; data of other tables than
  those the ledger is built from.
- The order and the hash chain of ledger events: stored, never relied on.
- `agent_run_logs`: inserts nobody acts on except metering and reports.
- The workspace (plans, notes, prompt templates, tasks, profile), configuration,
  frontend, manifests and the promotional video, for the reasons given in
  `PROJECT.json`.
- The database and SQLAlchemy themselves: what is assumed of them is stated in
  section 3, and definitions that stand for them are marked external.
