------------------------------ MODULE Backend ------------------------------
(***************************************************************************)
(* The backend container: python -m app.db_migration, then uvicorn, again  *)
(* after every crash.  Requests reach the rate limiter of a process that   *)
(* serves; a new process starts with an empty one.                         *)
(***************************************************************************)
EXTENDS SchemaMigration, RateLimiter

vars == <<migrationVars, limiterVars>>
-----------------------------------------------------------------------------
Init == MigrationInit /\ LimiterInit

Serve == pc = "serving" /\ (Request \/ Tick) /\ UNCHANGED migrationVars

Next ==
    \/ StartupStep /\ UNCHANGED limiterVars
    \/ Crash /\ Forget
    \/ Serve

\* restart: unless-stopped, and Kubernetes' restart policy: a start goes on
\* and an ended process is started again.
Spec == Init /\ [][Next]_vars /\ WF_vars(StartupStep /\ UNCHANGED limiterVars)
-----------------------------------------------------------------------------
(* Properties *)

TypeOK ==
    /\ dialect \in {"postgresql", "sqlite"}
    /\ db \in Database /\ work \in Database
    /\ at \in 1..7
    /\ pc \in {"down", "stamping", "upgrading", "ensuring", "backfilling", "serving", "failed"}
    /\ crashes \in 0..MaxCrashes
    /\ stamped \in {"no", "part", "whole"}
    /\ LimiterTypeOK

\* A process that serves finds every core table, whatever created the
\* database and wherever earlier starts died.
ServesAllTables == pc = "serving" => MissingTables = {}

\* The revision never claims more than was done: everything up to it is in
\* the schema and in the data, at every moment, unless the database was
\* stamped; stamping skips the data, and the columns when the schema it
\* found was not whole.
RevisionIsHonest ==
    /\ stamped # "part" => PartsUpTo[db.revision] \subseteq db.schema
    /\ stamped = "no" => FactsUpTo[db.revision] \subseteq db.facts

\* Databases no start can bring up.  The tables that the models of revisions
\* 6 to 15 created lack columns the backfill selects, and stamping hides it.
\* When two templates have the name of a built-in one, a revision still to
\* come that looks it up raises.
NeverStarts ==
    \/ origin.kind = "models" /\ origin.head \in 6..15
    \/ origin.kind = "alembic" /\ origin.head \in 6..14 /\ origin.twice # "none"
    \/ origin.kind = "alembic" /\ origin.head \in 6..16 /\ origin.twice = "release gate"

\* On PostgreSQL the backend comes to serve after the last crash, from any
\* database but these; and from these it never does, however often it is
\* started.
StartsEventually ==
    /\ dialect = "postgresql" /\ ~NeverStarts => <>[](pc = "serving")
    /\ NeverStarts => [](pc # "serving")

\* README.md, "inspect immutable ledger events": an event still verifies,
\* its payload hashes to what was recorded.
LedgerStaysValid == \A r \in DOMAIN db.ledger : db.ledger[r].text = db.ledger[r].hashed
=============================================================================
