--------------------------- MODULE SchemaMigration ---------------------------
(***************************************************************************)
(* run_startup_migrations, which every start of the backend executes       *)
(* before it serves: stamp a schema that has no Alembic revision, upgrade  *)
(* to the head, create the core tables that are missing, backfill the      *)
(* ledger.  The process can die at any point and is started again.         *)
(*                                                                         *)
(* The schema is a set of parts: <<table, "table">> and the groups of      *)
(* columns and indexes that later revisions add to it.  PostgreSQL runs    *)
(* the whole upgrade in one transaction; on SQLite a DDL statement stays,  *)
(* and the data and the revision are committed at the end of a revision.   *)
(* Downgrades, which no code of the program runs, are left out, and the    *)
(* last step, the backfill of the usage counters, is in UsageMetering.     *)
(***************************************************************************)
EXTENDS Naturals, Sequences, FiniteSets

CONSTANTS Records,      \* workflow_orchestrations rows from before
          MaxCrashes    \* bound

ASSUME MigrationAssumption == IsFiniteSet(Records) /\ MaxCrashes \in Nat

VARIABLES
    dialect,    \* "postgresql" or "sqlite"
    db,         \* what is committed
    work,       \* what the upgrade's connection sees
    at,         \* next statement of the revision under way
    pc,         \* where the process is
    crashes,
    origin,     \* what created the database, and whose name two templates have
    stamped     \* history: "no", or what was stamped, "whole" or "part"

migrationVars == <<dialect, db, work, at, pc, crashes, origin, stamped>>
-----------------------------------------------------------------------------
(* The revisions *)

Create(t)     == [table |-> t, part |-> "table", once |-> FALSE]
CreateOnce(t) == [table |-> t, part |-> "table", once |-> TRUE]
Add(t, p)     == [table |-> t, part |-> p, once |-> FALSE]
AddOnce(t, p) == [table |-> t, part |-> p, once |-> TRUE]
Fill(fact)    == [table |-> "data", part |-> fact, once |-> TRUE]

InitialSchema == <<Create("user_profiles"), Create("tasks"), Create("reflection_entries"),
                   Create("agent_run_logs")>>
DailyPlans == <<Create("daily_plans")>>
ReflectionWorkflowFields == <<Add("reflection_entries", "workflow")>>
TechnicalAnalyses == <<Create("technical_analyses")>>
KnowledgeAndTemplates == <<Create("note_entries"), Create("prompt_templates")>>
OrchestrationWorkflow == <<CreateOnce("workflow_orchestrations"), CreateOnce("workflow_step_runs"),
                           CreateOnce("workflow_templates")>>
QueueJobs == <<CreateOnce("workflow_queue_jobs")>>
QueueEvents == <<CreateOnce("workflow_queue_events")>>
MonetizationTables == <<CreateOnce("subscription_profiles"), CreateOnce("usage_counters"),
                        CreateOnce("monetization_events")>>
HistoryEvents == <<CreateOnce("history_events")>>
BusinessTimeMetadata == <<AddOnce("daily_plans", "business time"),
    AddOnce("reflection_entries", "business time"), AddOnce("technical_analyses", "business time"),
    Fill("business dates")>>
QueryIndexes == <<AddOnce("workflow_orchestrations", "indexes"), AddOnce("workflow_step_runs", "indexes"),
    AddOnce("workflow_queue_jobs", "indexes"), AddOnce("workflow_queue_events", "indexes"),
    AddOnce("agent_run_logs", "indexes"), AddOnce("history_events", "indexes")>>
SeedWorkflowTemplates == <<Fill("template pack")>>
RefreshTemplatePatterns == <<Fill("template pack")>>
RefreshTemplatePolicies == <<Fill("template pack")>>
TeamTrustCheckpoints == <<AddOnce("workflow_orchestrations", "trust"),
    AddOnce("workflow_queue_jobs", "trust"), CreateOnce("workflow_checkpoints")>>
ReleaseGateTemplate == <<Fill("release gate template")>>
LlmEvaluationFeedback == <<Create("llm_invocations"), Create("evaluation_runs"),
    Create("evaluation_case_results"), Create("decision_feedback"), Create("pilot_measurements")>>
QualityEvidenceSubject == <<Fill("neutral text")>>

Revisions == <<InitialSchema, DailyPlans, ReflectionWorkflowFields, TechnicalAnalyses,
    KnowledgeAndTemplates, OrchestrationWorkflow, QueueJobs, QueueEvents, MonetizationTables,
    HistoryEvents, BusinessTimeMetadata, QueryIndexes, SeedWorkflowTemplates,
    RefreshTemplatePatterns, RefreshTemplatePolicies, TeamTrustCheckpoints, ReleaseGateTemplate,
    LlmEvaluationFeedback, QualityEvidenceSubject>>

HeadRevision == Len(Revisions)

Statements(n) == UNION {{Revisions[r][i] : i \in DOMAIN Revisions[r]} : r \in 1..n}
PartsUpTo == [n \in 0..HeadRevision |->
                 {<<s.table, s.part>> : s \in {x \in Statements(n) : x.table # "data"}}]
FactsUpTo == [n \in 0..HeadRevision |->
                 {s.part : s \in {x \in Statements(n) : x.table = "data"}}]

Has(schema, table) == <<table, "table">> \in schema

\* CORE_TABLES and the models name the tables of the head.
CoreTables == {p[1] : p \in PartsUpTo[HeadRevision]}
-----------------------------------------------------------------------------
(* The databases a start can meet: none, one that an earlier release has    *)
(* migrated to its head, or one that its models created without Alembic.    *)
(* Records may hold the term that revision 19 replaces; an event holds the  *)
(* text of its record and the text its hash was taken of.                   *)

Event(text) == [text |-> text, hashed |-> text]

CreatedBy(kind, n) ==
    {[schema |-> PartsUpTo[n], revision |-> IF kind = "alembic" THEN n ELSE 0,
      facts  |-> IF kind = "alembic" THEN FactsUpTo[n] ELSE {},
      record |-> [r \in rows |-> IF n = HeadRevision THEN "neutral" ELSE "legacy"],
      ledger |-> [r \in logged |-> Event(IF n = HeadRevision THEN "neutral" ELSE "legacy")]] :
        rows   \in IF n >= 6 THEN SUBSET Records ELSE {{}},
        logged \in IF n >= 10 THEN SUBSET Records ELSE {{}}}

\* The name of a built-in template that two rows of workflow_templates have:
\* names are not unique, and nothing keeps a client or an import from it.
BuiltinNames == {"none", "release gate", "another"}

MigrationInit ==
    /\ dialect \in {"postgresql", "sqlite"}
    /\ \E kind \in {"alembic", "models"}, n \in 0..HeadRevision :
        /\ origin \in [kind : {kind}, head : {n}, twice : IF n >= 6 THEN BuiltinNames ELSE {"none"}]
        /\ db \in {d \in CreatedBy(kind, n) : DOMAIN d.ledger \subseteq DOMAIN d.record}
    /\ work = db /\ at = 1
    /\ pc = "down" /\ crashes = 0 /\ stamped = "no"

Goto(there) == pc' = there

\* Mutant: a schema without a revision is left to the upgrade.
ShouldStampNothing == FALSE

\* should_stamp_existing_schema
ShouldStamp == db.revision = 0 /\ \E t \in CoreTables : Has(db.schema, t)

Start ==
    /\ pc = "down"
    /\ Goto(IF ShouldStamp THEN "stamping" ELSE "upgrading")
    /\ work' = db /\ at' = 1
    /\ UNCHANGED <<dialect, db, crashes, origin, stamped>>

StampAtHead ==
    /\ pc = "stamping"
    /\ db' = [db EXCEPT !.revision = HeadRevision]
    /\ work' = db'
    /\ stamped' = IF PartsUpTo[HeadRevision] \subseteq db.schema THEN "whole" ELSE "part"
    /\ Goto("upgrading")
    /\ UNCHANGED <<dialect, at, crashes, origin>>

Revision == Revisions[work.revision + 1]
Statement == Revision[at]
Upgrading == pc = "upgrading" /\ work.revision < HeadRevision

\* DDL outside a transaction stays.
Stays(schema) == IF dialect = "sqlite" THEN [db EXCEPT !.schema = schema] ELSE db

ChangeSchema ==
    LET part == <<Statement.table, Statement.part>>
        exists == part \in work.schema
        possible == /\ Statement.part # "table" => Has(work.schema, Statement.table)
                    /\ exists => Statement.once
    IN  /\ Upgrading /\ at <= Len(Revision) /\ Statement.table # "data"
        /\ IF possible
           THEN /\ work' = [work EXCEPT !.schema = @ \cup {part}]
                /\ db' = Stays(work'.schema)
                /\ at' = at + 1
                /\ UNCHANGED pc
           ELSE Goto("failed") /\ UNCHANGED <<db, work, at>>
        /\ UNCHANGED <<dialect, crashes, origin, stamped>>

\* Revision 19 replaces a term in every text column of every table, the
\* ledger's payload_json among them.
NeutralLedger(ledger) == [r \in DOMAIN ledger |-> [ledger[r] EXCEPT !.text = "neutral"]]

\* Revisions 13, 14, 15 and 17 look templates up by name, all of the pack or
\* one, with scalar_one_or_none, which raises when it finds two.
Ambiguous(fact) ==
    \/ fact = "template pack" /\ origin.twice # "none"
    \/ fact = "release gate template" /\ origin.twice = "release gate"

ChangeData ==
    /\ Upgrading /\ at <= Len(Revision) /\ Statement.table = "data"
    /\ IF Ambiguous(Statement.part) THEN Goto("failed") /\ UNCHANGED <<work, at>>
       ELSE /\ work' = IF Statement.part = "neutral text"
                       THEN [work EXCEPT !.facts = @ \cup {Statement.part},
                                         !.record = [r \in DOMAIN @ |-> "neutral"],
                                         !.ledger = NeutralLedger(@)]
                       ELSE [work EXCEPT !.facts = @ \cup {Statement.part}]
            /\ at' = at + 1
            /\ UNCHANGED pc
    /\ UNCHANGED <<dialect, db, crashes, origin, stamped>>

\* Mutant: the revision is written before the last statement.
CompleteEarly ==
    /\ Upgrading /\ at >= Len(Revision)
    /\ work' = [work EXCEPT !.revision = @ + 1] /\ at' = 1
    /\ db' = IF dialect = "sqlite" THEN work' ELSE db
    /\ UNCHANGED <<dialect, pc, crashes, origin, stamped>>

CompleteRevision ==
    /\ Upgrading /\ at > Len(Revision)
    /\ work' = [work EXCEPT !.revision = @ + 1] /\ at' = 1
    /\ db' = IF dialect = "sqlite" THEN work' ELSE db
    /\ UNCHANGED <<dialect, pc, crashes, origin, stamped>>

UpgradeCommit ==
    /\ pc = "upgrading" /\ work.revision = HeadRevision
    /\ db' = work
    /\ Goto("ensuring")
    /\ UNCHANGED <<dialect, work, at, crashes, origin, stamped>>

MissingTables == {t \in CoreTables : ~Has(db.schema, t)}
PartsOf(tables) == {p \in PartsUpTo[HeadRevision] : p[1] \in tables}

\* Mutant: what is missing is reported and not created.
EnsureTablesOnly ==
    /\ pc = "ensuring"
    /\ Goto("backfilling")
    /\ UNCHANGED <<dialect, db, work, at, crashes, origin, stamped>>

\* ensure_core_tables: create_all, in one transaction or table by table, in
\* some fixed order.
EnsureTables ==
    /\ pc = "ensuring"
    /\ IF MissingTables = {} THEN Goto("backfilling") /\ UNCHANGED db
       ELSE /\ db' = [db EXCEPT !.schema = @ \cup PartsOf(
                         IF dialect = "sqlite" THEN {CHOOSE t \in MissingTables : TRUE}
                         ELSE MissingTables)]
            /\ UNCHANGED pc
    /\ UNCHANGED <<dialect, work, at, crashes, origin, stamped>>

\* backfill_history_events selects every column of the tables it reads.
ReadableByBackfill ==
    {<<"workflow_orchestrations", "trust">>, <<"workflow_queue_jobs", "trust">>} \subseteq db.schema

Backfilled(record, ledger) ==
    [r \in DOMAIN record |-> IF r \in DOMAIN ledger THEN ledger[r] ELSE Event(record[r])]

BackfillLedger ==
    /\ pc = "backfilling"
    /\ IF ReadableByBackfill
       THEN /\ db' = [db EXCEPT !.ledger = Backfilled(db.record, @)]
            /\ Goto("serving")
       ELSE Goto("failed") /\ UNCHANGED db
    /\ UNCHANGED <<dialect, work, at, crashes, origin, stamped>>

\* The container is started again whenever its process ends.
Restart ==
    /\ pc = "failed"
    /\ Goto("down")
    /\ UNCHANGED <<dialect, db, work, at, crashes, origin, stamped>>

Crash ==
    /\ pc # "down" /\ crashes < MaxCrashes
    /\ crashes' = crashes + 1
    /\ Goto("down")
    /\ UNCHANGED <<dialect, db, work, at, origin, stamped>>

StartupStep ==
    \/ Start
    \/ StampAtHead
    \/ ChangeSchema
    \/ ChangeData
    \/ CompleteRevision
    \/ UpgradeCommit
    \/ EnsureTables
    \/ BackfillLedger
    \/ Restart
-----------------------------------------------------------------------------
(* Properties *)

Database == [schema : SUBSET (PartsUpTo[HeadRevision]), revision : 0..HeadRevision, facts : SUBSET FactsUpTo[HeadRevision],
             record : UNION {[R -> {"legacy", "neutral"}] : R \in SUBSET Records},
             ledger : UNION {[R -> [text : {"legacy", "neutral"}, hashed : {"legacy", "neutral"}]] :
                                 R \in SUBSET Records}]
=============================================================================
