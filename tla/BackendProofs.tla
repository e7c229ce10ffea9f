---------------------------- MODULE BackendProofs ----------------------------
EXTENDS Backend, SequenceTheorems, WellFoundedInduction, TLAPS

(* The rate limiter *)

\* What popleft leaves: the loop stops at the first entry that is not stale,
\* or at the end.
LEMMA SomeNumberIsPopped ==
    ASSUME NEW times \in Seq(Nat)
    PROVE  \E n \in 0..Len(times) : /\ \A i \in 1..n : Stale(times[i])
                                    /\ n < Len(times) => ~Stale(times[n + 1])
  <1> DEFINE fresh == {i \in 1..Len(times) : ~Stale(times[i])}
  <1>1. Len(times) \in Nat /\ fresh \subseteq Nat
    OBVIOUS
  <1>2. CASE fresh = {}
    <2>1. \A i \in 1..Len(times) : Stale(times[i])
      BY <1>2
    <2> QED
      BY <1>1, <2>1
  <1>3. CASE fresh # {}
    <2>1. PICK first \in fresh : \A i \in fresh : ~ (<<i, first>> \in OpToRel(<, Nat))
      <3> HIDE DEF fresh
      <3> QED
        BY <1>1, <1>3, NatLessThanWellFounded, WFMin, Zenon
    <2>2. \A i \in fresh : ~ (i < first)
      BY <1>1, <2>1 DEF OpToRel
    <2>3. first - 1 \in 0..Len(times) /\ ~Stale(times[(first - 1) + 1])
      BY <1>1
    <2>4. \A i \in 1..(first - 1) : Stale(times[i])
      BY <1>1, <2>2
    <2> QED
      BY <2>3, <2>4
  <1> QED
    BY <1>2, <1>3

LEMMA PrunedTimes ==
    ASSUME NEW times \in Seq(Nat), NEW S, \A i \in 1..Len(times) : times[i] \in S
    PROVE  /\ Pruned(times) \in Seq(S)
           /\ Len(Pruned(times)) <= Len(times)
           /\ Pruned(times) # <<>> => ~Stale(Head(Pruned(times)))
           /\ times # <<>> /\ Stale(Head(times)) => Len(Pruned(times)) < Len(times)
           /\ times # <<>> /\ ~Stale(Head(times)) => Pruned(times) = times
  <1> DEFINE n == Popped(times)
  <1>1. /\ n \in 0..Len(times)
        /\ \A i \in 1..n : Stale(times[i])
        /\ n < Len(times) => ~Stale(times[n + 1])
    BY SomeNumberIsPopped DEF Popped
  <1>2. Len(times) \in Nat
    OBVIOUS
  <1> HIDE DEF n
  <1>3. Pruned(times) = SubSeq(times, n + 1, Len(times))
    BY DEF Pruned, n
  <1>4. /\ Pruned(times) \in Seq(S)
        /\ Len(Pruned(times)) = Len(times) - n
        /\ \A i \in 1..(Len(times) - n) : Pruned(times)[i] = times[n + i]
    BY <1>1, <1>2, <1>3, SubSeqProperties
  <1>5. Pruned(times) # <<>> => ~Stale(Head(Pruned(times)))
    BY <1>1, <1>2, <1>4
  <1>6. ASSUME times # <<>>, Stale(Head(times)) PROVE n # 0
    BY <1>1, <1>2, <1>6
  <1>7. ASSUME times # <<>>, ~Stale(Head(times)) PROVE n = 0
    BY <1>1, <1>2, <1>7
  <1>8. n = 0 => Pruned(times) = times
    BY <1>2, <1>3, SubSeqFull
  <1> QED
    BY <1>1, <1>2, <1>4, <1>5, <1>6, <1>7, <1>8

\* A wait ends at most a second before the oldest entry leaves the window,
\* and never before the next second.
LEMMA Waits ==
    ASSUME LimiterAssumption, now \in Nat, NEW first \in Nat, ~Stale(first)
    PROVE  /\ RetryAfter(first) * Second \in Nat
           /\ RetryAfter(first) * Second >= Second
           /\ first + Window * Second < now + RetryAfter(first) * Second + Second
  <1> DEFINE left == first + Window * Second - now
             seconds == left \div Second
  <1>1. Second \in Nat \ {0} /\ Window * Second \in Nat
    BY DEF LimiterAssumption
  <1>2. left \in Nat
    BY <1>1 DEF Stale
  <1> HIDE DEF left
  <1>3. seconds \in Nat /\ left < seconds * Second + Second
    BY <1>1, <1>2
  <1>4. RetryAfter(first) = IF seconds < 1 THEN 1 ELSE seconds
    BY DEF RetryAfter, left
  <1> HIDE DEF seconds
  <1>5. seconds >= 1 => seconds * Second \in Nat /\ seconds * Second >= Second
    BY <1>1, <1>3
  <1>6. CASE seconds < 1
    <2>1. RetryAfter(first) = 1 /\ seconds = 0
      BY <1>3, <1>4, <1>6
    <2>2. 1 * Second = Second /\ seconds * Second = 0
      BY <1>1, <2>1
    <2> QED
      BY <1>1, <1>2, <1>3, <2>1, <2>2 DEF left
  <1>7. CASE ~ (seconds < 1)
    <2>1. RetryAfter(first) = seconds /\ seconds >= 1
      BY <1>3, <1>4, <1>7
    <2> QED
      BY <1>1, <1>2, <1>3, <1>5, <2>1 DEF left
  <1> QED
    BY <1>6, <1>7

\* A client that was refused once comes back less than a second too early,
\* one that was refused twice comes back when the oldest entry is gone.
LimiterInvariant ==
    /\ LimiterTypeOK
    /\ refusals <= 2
    /\ refusals = 1 /\ bucket # <<>> =>
           Head(bucket) + Window * Second < notBefore + Second
    /\ refusals = 2 /\ bucket # <<>> =>
           Head(bucket) + Window * Second < notBefore

LEMMA RequestKeepsLimiter == LimiterAssumption /\ LimiterInvariant /\ Request => LimiterInvariant'
  <1> SUFFICES ASSUME LimiterAssumption, LimiterInvariant, Request PROVE LimiterInvariant'
    OBVIOUS
  <1> DEFINE rest == Pruned(bucket)
  <1>1. /\ now \in 0..MaxTime /\ now \in Nat /\ now' = now
        /\ bucket \in Seq(0..now) /\ bucket \in Seq(Nat) /\ Len(bucket) <= MaxRequests
        /\ MaxRequests \in Nat \ {0} /\ notBefore \in Nat /\ refusals \in 0..2 /\ now >= notBefore
        /\ Window * Second \in Nat /\ Second \in Nat \ {0}
    BY DEF LimiterInvariant, LimiterTypeOK, LimiterAssumption, Request
  <1>2. /\ rest \in Seq(0..now)
        /\ Len(rest) <= Len(bucket)
        /\ rest # <<>> => ~Stale(Head(rest))
        /\ bucket # <<>> /\ Stale(Head(bucket)) => Len(rest) < Len(bucket)
        /\ bucket # <<>> /\ ~Stale(Head(bucket)) => rest = bucket
    <2>1. \A i \in 1..Len(bucket) : bucket[i] \in 0..now
      BY <1>1
    <2> QED
      BY <1>1, <2>1, PrunedTimes
  <1> HIDE DEF rest
  <1>3. Len(rest) \in Nat
    BY <1>2
  <1>4. CASE Len(rest) < MaxRequests
    <2>1. bucket' = Append(rest, now) /\ notBefore' = now /\ refusals' = 0
      BY <1>1, <1>3, <1>4 DEF Request, Count, rest
    <2>2. bucket' \in Seq(0..now) /\ Len(bucket') <= MaxRequests
      BY <1>1, <1>2, <1>3, <1>4, <2>1
    <2> QED
      BY <1>1, <2>1, <2>2 DEF LimiterInvariant, LimiterTypeOK
  <1>5. CASE Len(rest) >= MaxRequests
    <2> DEFINE first == Head(rest)
               wait == RetryAfter(first) * Second
    <2>1. /\ bucket' = rest
          /\ notBefore' = now + wait
          /\ refusals' = refusals + 1
      BY <1>1, <1>3, <1>5 DEF Request, Count, rest
    <2>2. bucket # <<>> /\ rest = bucket /\ rest # <<>>
      BY <1>1, <1>2, <1>3, <1>5
    <2>3. first \in Nat /\ ~Stale(first)
      BY <1>1, <1>2, <2>2
    <2>4. wait \in Nat /\ wait >= Second /\ first + Window * Second < now + wait + Second
      BY <1>1, <2>3, Waits
    <2> HIDE DEF wait
    <2>5. now <= first + Window * Second
      BY <1>1, <2>3 DEF Stale
    <2>6. refusals # 2
      BY <1>1, <2>2, <2>3, <2>5 DEF LimiterInvariant
    <2>7. refusals = 1 => first + Window * Second < now + wait
      BY <1>1, <2>2, <2>3, <2>4 DEF LimiterInvariant
    <2> QED
      BY <1>1, <1>2, <2>1, <2>2, <2>3, <2>4, <2>6, <2>7 DEF LimiterInvariant, LimiterTypeOK
  <1> QED
    BY <1>1, <1>3, <1>4, <1>5

LEMMA LimiterStep ==
    LimiterAssumption /\ LimiterInvariant /\ (Request \/ Tick \/ Forget \/ UNCHANGED limiterVars)
        => LimiterInvariant'
  <1> SUFFICES ASSUME LimiterAssumption, LimiterInvariant,
                      Request \/ Tick \/ Forget \/ UNCHANGED limiterVars
               PROVE  LimiterInvariant'
    OBVIOUS
  <1>1. CASE Request
    BY <1>1, RequestKeepsLimiter
  <1>2. CASE Tick
    <2>1. 0..now \subseteq 0..(now + 1) /\ now + 1 \in 0..MaxTime
      BY <1>2 DEF LimiterInvariant, LimiterTypeOK, LimiterAssumption, Tick
    <2>2. bucket \in Seq(0..(now + 1))
      BY <2>1 DEF LimiterInvariant, LimiterTypeOK
    <2> QED
      BY <1>2, <2>1, <2>2 DEF LimiterInvariant, LimiterTypeOK, Tick
  <1>3. CASE Forget
    BY <1>3 DEF LimiterInvariant, LimiterTypeOK, LimiterAssumption, Forget
  <1>4. CASE UNCHANGED limiterVars
    BY <1>4 DEF LimiterInvariant, LimiterTypeOK, limiterVars
  <1> QED
    BY <1>1, <1>2, <1>3, <1>4

LEMMA LimiterInitially == LimiterAssumption /\ LimiterInit => LimiterInvariant
  BY DEF LimiterAssumption, LimiterInit, LimiterInvariant, LimiterTypeOK

LEMMA LimiterHolds == Spec => []LimiterInvariant
  <1>1. Init => LimiterInvariant
    BY LimiterAssumption, LimiterInitially DEF Init
  <1>2. LimiterInvariant /\ [Next]_vars => LimiterInvariant'
    BY LimiterAssumption, LimiterStep DEF Next, Serve, vars, limiterVars
  <1> QED
    BY <1>1, <1>2, PTL DEF Spec

\* However the clock, the limit and the waits fall, and whenever the process
\* is replaced: a client that waits as Retry-After tells it is refused at
\* most twice in a row.
THEOREM SecondWaitSuffices == Spec => []RefusedTwiceAtMost
  <1>1. LimiterInvariant => RefusedTwiceAtMost
    BY DEF LimiterInvariant, RefusedTwiceAtMost
  <1> QED
    BY <1>1, LimiterHolds, PTL
-----------------------------------------------------------------------------
(* The revisions *)

LEMMA NineteenRevisions == HeadRevision = 19
  BY DEF HeadRevision, Revisions

\* No revision has more than six statements: what bounds the position at.
LEMMA RevisionsAreShort ==
    ASSUME NEW r \in 1..HeadRevision
    PROVE  /\ Len(Revisions[r]) \in 0..6
           /\ DOMAIN Revisions[r] = 1..Len(Revisions[r])
  <1> DEFINE Short(s) == Len(s) \in 0..6 /\ DOMAIN s = 1..Len(s)
  <1>1. /\ Short(InitialSchema) /\ Short(DailyPlans) /\ Short(ReflectionWorkflowFields)
        /\ Short(TechnicalAnalyses) /\ Short(KnowledgeAndTemplates)
    BY DEF InitialSchema, DailyPlans, ReflectionWorkflowFields, TechnicalAnalyses,
           KnowledgeAndTemplates
  <1>2. /\ Short(OrchestrationWorkflow) /\ Short(QueueJobs) /\ Short(QueueEvents)
        /\ Short(MonetizationTables) /\ Short(HistoryEvents)
    BY DEF OrchestrationWorkflow, QueueJobs, QueueEvents, MonetizationTables, HistoryEvents
  <1>3. /\ Short(BusinessTimeMetadata) /\ Short(QueryIndexes) /\ Short(SeedWorkflowTemplates)
        /\ Short(RefreshTemplatePatterns) /\ Short(RefreshTemplatePolicies)
    BY DEF BusinessTimeMetadata, QueryIndexes, SeedWorkflowTemplates, RefreshTemplatePatterns,
           RefreshTemplatePolicies
  <1>4. /\ Short(TeamTrustCheckpoints) /\ Short(ReleaseGateTemplate)
        /\ Short(LlmEvaluationFeedback) /\ Short(QualityEvidenceSubject)
    BY DEF TeamTrustCheckpoints, ReleaseGateTemplate, LlmEvaluationFeedback,
           QualityEvidenceSubject
  <1> HIDE DEF Short
  <1>5. r \in 1..19
    BY NineteenRevisions
  <1>6. Short(Revisions[r])
    BY <1>1, <1>2, <1>3, <1>4, <1>5 DEF Revisions
  <1> QED
    BY <1>6 DEF Short

LEMMA StatementsAreTheirs ==
    ASSUME NEW n, NEW x
    PROVE  x \in Statements(n) <=> \E r \in 1..n : \E i \in DOMAIN Revisions[r] : x = Revisions[r][i]
  BY DEF Statements

\* A revision adds its own parts and facts to those before it, and no other.
LEMMA PartsBeforeTheFirst == PartsUpTo[0] = {} /\ FactsUpTo[0] = {}
  <1>1. Statements(0) = {}
    BY DEF Statements
  <1> QED
    BY <1>1, NineteenRevisions DEF PartsUpTo, FactsUpTo

LEMMA PartsOfStatement ==
    ASSUME NEW n \in 0..HeadRevision, NEW r \in 1..n, NEW i \in 1..Len(Revisions[r])
    PROVE  /\ Revisions[r][i].table # "data" =>
                  <<Revisions[r][i].table, Revisions[r][i].part>> \in PartsUpTo[n]
           /\ Revisions[r][i].table = "data" => Revisions[r][i].part \in FactsUpTo[n]
  <1>1. r \in 1..HeadRevision
    BY NineteenRevisions
  <1>2. Revisions[r][i] \in Statements(n)
    BY <1>1, RevisionsAreShort, StatementsAreTheirs
  <1> QED
    BY <1>2 DEF PartsUpTo, FactsUpTo

LEMMA PartsOfRevision ==
    ASSUME NEW n \in 0..HeadRevision, n < HeadRevision, NEW parts, NEW facts,
           \A i \in 1..Len(Revisions[n + 1]) :
               IF Revisions[n + 1][i].table = "data"
               THEN Revisions[n + 1][i].part \in facts
               ELSE <<Revisions[n + 1][i].table, Revisions[n + 1][i].part>> \in parts
    PROVE  /\ PartsUpTo[n] \subseteq parts => PartsUpTo[n + 1] \subseteq parts
           /\ FactsUpTo[n] \subseteq facts => FactsUpTo[n + 1] \subseteq facts
  <1>1. n \in Nat /\ n + 1 \in 0..HeadRevision /\ n + 1 \in 1..HeadRevision
    BY NineteenRevisions
  <1>2. DOMAIN Revisions[n + 1] = 1..Len(Revisions[n + 1])
    BY <1>1, RevisionsAreShort
  <1>3. ASSUME NEW x \in Statements(n + 1)
        PROVE  x \in Statements(n) \/ \E i \in 1..Len(Revisions[n + 1]) : x = Revisions[n + 1][i]
    <2>1. PICK r \in 1..(n + 1) : \E i \in DOMAIN Revisions[r] : x = Revisions[r][i]
      BY <1>3, StatementsAreTheirs
    <2>2. r \in 1..n \/ r = n + 1
      BY <1>1
    <2> QED
      BY <1>2, <2>1, <2>2, StatementsAreTheirs
  <1>4. ASSUME PartsUpTo[n] \subseteq parts, NEW p \in PartsUpTo[n + 1] PROVE p \in parts
    <2>1. PICK x \in Statements(n + 1) : x.table # "data" /\ p = <<x.table, x.part>>
      BY <1>1, <1>4 DEF PartsUpTo
    <2>2. CASE x \in Statements(n)
      <3>1. p \in PartsUpTo[n]
        BY <2>1, <2>2 DEF PartsUpTo
      <3> QED
        BY <1>4, <3>1
    <2>3. CASE \E i \in 1..Len(Revisions[n + 1]) : x = Revisions[n + 1][i]
      BY <2>1, <2>3
    <2> QED
      BY <1>3, <2>2, <2>3
  <1>5. ASSUME FactsUpTo[n] \subseteq facts, NEW f \in FactsUpTo[n + 1] PROVE f \in facts
    <2>1. PICK x \in Statements(n + 1) : x.table = "data" /\ f = x.part
      BY <1>1, <1>5 DEF FactsUpTo
    <2>2. CASE x \in Statements(n)
      <3>1. f \in FactsUpTo[n]
        BY <2>1, <2>2 DEF FactsUpTo
      <3> QED
        BY <1>5, <3>1
    <2>3. CASE \E i \in 1..Len(Revisions[n + 1]) : x = Revisions[n + 1][i]
      BY <2>1, <2>3
    <2> QED
      BY <1>3, <2>2, <2>3
  <1> QED
    BY <1>4, <1>5

LEMMA PartsGrow ==
    ASSUME NEW m \in 0..HeadRevision, NEW n \in m..HeadRevision
    PROVE  PartsUpTo[m] \subseteq PartsUpTo[n] /\ FactsUpTo[m] \subseteq FactsUpTo[n]
  <1>1. n \in 0..HeadRevision /\ 1..m \subseteq 1..n
    BY NineteenRevisions
  <1>2. Statements(m) \subseteq Statements(n)
    BY <1>1, StatementsAreTheirs
  <1> QED
    BY <1>1, <1>2 DEF PartsUpTo, FactsUpTo
-----------------------------------------------------------------------------
(* The migration *)

\* The data: one row for each of some records.
Kept(T) == UNION {[R -> T] : R \in SUBSET Records}

LEMMA KeptRows ==
    ASSUME NEW T, NEW f
    PROVE  f \in Kept(T) <=> DOMAIN f \subseteq Records /\ f \in [DOMAIN f -> T]
  BY DEF Kept

Texts  == {"legacy", "neutral"}
Events == [text : Texts, hashed : Texts]

LEMMA DatabaseFields ==
    ASSUME NEW d
    PROVE  d \in Database <=>
               d \in [schema : SUBSET (PartsUpTo[HeadRevision]), revision : 0..HeadRevision,
                      facts : SUBSET FactsUpTo[HeadRevision], record : Kept(Texts),
                      ledger : Kept(Events)]
  BY DEF Database, Kept, Texts, Events

\* What the revision under way has done.
StatementsDone ==
    \A i \in 1..(at - 1) :
        IF Revision[i].table = "data"
        THEN Revision[i].part \in work.facts
        ELSE <<Revision[i].table, Revision[i].part>> \in work.schema

\* The upgrade's connection sees what is committed, and as much as the
\* revision it has reached says.
UpgradeInvariant ==
    /\ db.schema \subseteq work.schema
    /\ stamped # "part" => PartsUpTo[work.revision] \subseteq work.schema
    /\ stamped = "no" => FactsUpTo[work.revision] \subseteq work.facts
    /\ work.revision < HeadRevision => at <= Len(Revision) + 1 /\ StatementsDone

MigrationTypeOK ==
    /\ dialect \in {"postgresql", "sqlite"}
    /\ db \in Database /\ work \in Database
    /\ at \in 1..7
    /\ pc \in {"down", "stamping", "upgrading", "ensuring", "backfilling", "serving", "failed"}
    /\ crashes \in 0..MaxCrashes
    /\ stamped \in {"no", "part", "whole"}

MigrationInvariant ==
    /\ MigrationTypeOK
    /\ pc = "upgrading" => UpgradeInvariant
    /\ pc \in {"backfilling", "serving"} => MissingTables = {}
    /\ RevisionIsHonest

LEMMA MigrationInitially == MigrationAssumption /\ MigrationInit => MigrationInvariant
  <1> SUFFICES ASSUME MigrationAssumption, MigrationInit PROVE MigrationInvariant
    OBVIOUS
  <1>1. PICK kind \in {"alembic", "models"}, n \in 0..HeadRevision : db \in CreatedBy(kind, n)
    BY DEF MigrationInit
  <1> DEFINE Created(rows, logged) ==
                 [schema |-> PartsUpTo[n], revision |-> IF kind = "alembic" THEN n ELSE 0,
                  facts  |-> IF kind = "alembic" THEN FactsUpTo[n] ELSE {},
                  record |-> [r \in rows |-> IF n = HeadRevision THEN "neutral" ELSE "legacy"],
                  ledger |-> [r \in logged |->
                                  Event(IF n = HeadRevision THEN "neutral" ELSE "legacy")]]
  <1>2. PICK rows \in SUBSET Records, logged \in SUBSET Records : db = Created(rows, logged)
    <2> DEFINE Before == IF n >= 6 THEN SUBSET Records ELSE {{}}
               Told   == IF n >= 10 THEN SUBSET Records ELSE {{}}
    <2>1. Before \subseteq SUBSET Records /\ Told \subseteq SUBSET Records
      OBVIOUS
    <2>2. db \in {Created(rows, logged) : rows \in Before, logged \in Told}
      BY <1>1 DEF CreatedBy
    <2> HIDE DEF Before, Told, Created
    <2>3. \E rows \in Before, logged \in Told : db = Created(rows, logged)
      BY <2>2
    <2> QED
      BY <2>1, <2>3
  <1>3. n \in 0..HeadRevision /\ HeadRevision \in n..HeadRevision /\ 0 \in 0..HeadRevision
    BY NineteenRevisions
  <1>4. PartsUpTo[n] \subseteq PartsUpTo[HeadRevision] /\ FactsUpTo[n] \subseteq FactsUpTo[HeadRevision]
    BY <1>3, PartsGrow
  <1>5. db.record \in Kept(Texts) /\ db.ledger \in Kept(Events)
    BY <1>2, KeptRows DEF Event, Texts, Events
  <1>6. db \in Database
    <2>1. /\ db.schema = PartsUpTo[n] /\ db.revision \in 0..HeadRevision
          /\ db.facts \subseteq FactsUpTo[HeadRevision]
      BY <1>2, <1>3, <1>4
    <2> QED
      BY <1>2, <1>4, <1>5, <2>1, DatabaseFields
  <1>7. PartsUpTo[db.revision] \subseteq db.schema /\ FactsUpTo[db.revision] \subseteq db.facts
    BY <1>2, PartsBeforeTheFirst
  <1> QED
    BY <1>6, <1>7 DEF MigrationInit, MigrationAssumption, MigrationInvariant, MigrationTypeOK,
                      RevisionIsHonest

LEMMA StartKeepsMigration == MigrationInvariant /\ Start => MigrationInvariant'
  <1> SUFFICES ASSUME MigrationInvariant, Start PROVE MigrationInvariant'
    OBVIOUS
  <1>1. /\ pc' \in {"stamping", "upgrading"} /\ at' = 1
        /\ db' = db /\ work' = db /\ stamped' = stamped
        /\ UNCHANGED <<dialect, crashes>>
    BY DEF Start, Goto
  <1>2. MigrationTypeOK'
    BY <1>1 DEF MigrationInvariant, MigrationTypeOK
  <1>3. RevisionIsHonest'
    BY <1>1 DEF MigrationInvariant, RevisionIsHonest
  <1>4. db.revision \in 0..HeadRevision
    BY DatabaseFields DEF MigrationInvariant, MigrationTypeOK
  <1>5. ASSUME db.revision < HeadRevision PROVE Len(Revisions[db.revision + 1]) \in 0..6
    <2>1. db.revision + 1 \in 1..HeadRevision
      BY <1>4, <1>5, NineteenRevisions
    <2> QED
      BY <2>1, RevisionsAreShort
  <1>6. UpgradeInvariant'
    BY <1>1, <1>3, <1>5 DEF UpgradeInvariant, StatementsDone, RevisionIsHonest, Revision
  <1> QED
    BY <1>1, <1>2, <1>3, <1>6 DEF MigrationInvariant

LEMMA StampKeepsMigration == MigrationInvariant /\ StampAtHead => MigrationInvariant'
  <1> SUFFICES ASSUME MigrationInvariant, StampAtHead PROVE MigrationInvariant'
    OBVIOUS
  <1>1. /\ db' = [db EXCEPT !.revision = HeadRevision] /\ work' = db'
        /\ stamped' = IF PartsUpTo[HeadRevision] \subseteq db.schema THEN "whole" ELSE "part"
        /\ pc' = "upgrading" /\ at' = at /\ UNCHANGED <<dialect, crashes>>
    BY DEF StampAtHead, Goto
  <1>2. db \in Database /\ HeadRevision \in 0..HeadRevision
    BY NineteenRevisions DEF MigrationInvariant, MigrationTypeOK
  <1>3. /\ db' \in Database /\ db'.schema = db.schema /\ db'.revision = HeadRevision
    BY <1>1, <1>2, DatabaseFields
  <1>4. MigrationTypeOK'
    BY <1>1, <1>3 DEF MigrationInvariant, MigrationTypeOK
  <1>5. RevisionIsHonest'
    BY <1>1, <1>3 DEF RevisionIsHonest
  <1>6. UpgradeInvariant'
    BY <1>1, <1>3, <1>5, NineteenRevisions DEF UpgradeInvariant, RevisionIsHonest
  <1> QED
    BY <1>1, <1>4, <1>5, <1>6 DEF MigrationInvariant

\* The revision under way is one of the nineteen, and at is a statement of it
\* or just behind its last.
LEMMA UnderWay ==
    ASSUME MigrationInvariant, Upgrading
    PROVE  /\ work \in Database /\ db \in Database
           /\ work.revision \in 0..HeadRevision /\ work.revision + 1 \in 1..HeadRevision
           /\ Len(Revision) \in 0..6 /\ at \in 1..7
           /\ UpgradeInvariant
  <1>1. /\ work \in Database /\ db \in Database /\ work.revision < HeadRevision
        /\ at \in 1..7 /\ UpgradeInvariant
    BY DEF Upgrading, MigrationInvariant, MigrationTypeOK
  <1>2. work.revision \in 0..HeadRevision
    BY <1>1, DatabaseFields
  <1>3. work.revision + 1 \in 1..HeadRevision
    BY <1>1, <1>2, NineteenRevisions
  <1> QED
    BY <1>1, <1>2, <1>3, RevisionsAreShort DEF Revision

LEMMA ChangeSchemaKeepsMigration == MigrationInvariant /\ ChangeSchema => MigrationInvariant'
  <1> SUFFICES ASSUME MigrationInvariant, ChangeSchema PROVE MigrationInvariant'
    OBVIOUS
  <1> DEFINE part == <<Statement.table, Statement.part>>
  <1>1. /\ Upgrading /\ at <= Len(Revision) /\ Statement.table # "data"
        /\ UNCHANGED <<dialect, crashes, stamped>>
        /\ \/ /\ work' = [work EXCEPT !.schema = @ \cup {part}]
              /\ db' = Stays(work'.schema)
              /\ at' = at + 1 /\ pc' = pc
           \/ pc' = "failed" /\ UNCHANGED <<db, work, at>>
    BY DEF ChangeSchema, Goto
  <1>2. /\ work \in Database /\ db \in Database
        /\ work.revision \in 0..HeadRevision /\ work.revision + 1 \in 1..HeadRevision
        /\ Len(Revision) \in 0..6 /\ at \in 1..7 /\ UpgradeInvariant
    BY <1>1, UnderWay
  <1>3. CASE pc' = "failed" /\ UNCHANGED <<db, work, at>>
    <2>1. MigrationTypeOK' /\ RevisionIsHonest'
      BY <1>1, <1>3 DEF MigrationInvariant, MigrationTypeOK, RevisionIsHonest
    <2> QED
      BY <1>3, <2>1 DEF MigrationInvariant
  <1>4. CASE /\ work' = [work EXCEPT !.schema = @ \cup {part}]
             /\ db' = Stays(work'.schema)
             /\ at' = at + 1 /\ pc' = pc
    <2>1. part \in PartsUpTo[HeadRevision]
      <3>1. at \in 1..Len(Revisions[work.revision + 1]) /\ HeadRevision \in 0..HeadRevision
        BY <1>1, <1>2, NineteenRevisions DEF Revision
      <3> QED
        BY <1>1, <1>2, <3>1, PartsOfStatement DEF Statement, Revision
    <2>2. /\ work' \in Database /\ work'.schema = work.schema \cup {part}
          /\ work'.revision = work.revision /\ work'.facts = work.facts
      <3>1. work.schema \cup {part} \in SUBSET (PartsUpTo[HeadRevision])
        BY <1>2, <2>1, DatabaseFields
      <3> QED
        BY <1>2, <1>4, <3>1, DatabaseFields
    <2>3. /\ db' \in Database /\ db'.revision = db.revision /\ db'.facts = db.facts
          /\ db.schema \subseteq db'.schema /\ db'.schema \subseteq work'.schema
      <3>1. db.schema \subseteq work'.schema /\ work'.schema \in SUBSET (PartsUpTo[HeadRevision])
        BY <1>2, <2>2, DatabaseFields DEF UpgradeInvariant
      <3>2. CASE dialect = "sqlite"
        BY <1>2, <1>4, <3>1, <3>2, DatabaseFields DEF Stays
      <3>3. CASE dialect # "sqlite"
        BY <1>2, <1>4, <3>1, <3>3 DEF Stays
      <3> QED
        BY <3>2, <3>3
    <2>4. at' \in 1..7 /\ at' <= Len(Revision) + 1
      <3> DEFINE length == Len(Revision)
      <3>1. length \in 0..6 /\ at \in 1..7 /\ at <= length /\ at' = at + 1
        BY <1>1, <1>2, <1>4
      <3> HIDE DEF length
      <3>2. at' \in 1..7 /\ at' <= length + 1
        BY <3>1
      <3> QED
        BY <3>2 DEF length
    <2>5. MigrationTypeOK'
      BY <1>1, <1>4, <2>2, <2>3, <2>4 DEF MigrationInvariant, MigrationTypeOK
    <2>6. RevisionIsHonest'
      BY <1>1, <2>3 DEF MigrationInvariant, RevisionIsHonest
    <2>7. StatementsDone'
      <3>1. Revision' = Revision
        BY <2>2 DEF Revision
      <3> SUFFICES ASSUME NEW i \in 1..(at' - 1)
                   PROVE  IF Revision[i].table = "data" THEN Revision[i].part \in work'.facts
                          ELSE <<Revision[i].table, Revision[i].part>> \in work'.schema
        BY <3>1 DEF StatementsDone
      <3>2. CASE i = at
        BY <1>1, <2>2, <3>2 DEF Statement
      <3>3. CASE i # at
        <4>1. i \in 1..(at - 1)
          BY <1>2, <1>4, <3>3
        <4>2. StatementsDone
          BY <1>1, <1>2 DEF UpgradeInvariant, Upgrading
        <4> QED
          BY <2>2, <4>1, <4>2 DEF StatementsDone
      <3> QED
        BY <3>2, <3>3
    <2>8. UpgradeInvariant'
      <3>1. Revision' = Revision
        BY <2>2 DEF Revision
      <3> QED
        BY <1>1, <1>2, <2>2, <2>3, <2>4, <2>7, <3>1 DEF UpgradeInvariant
    <2> QED
      BY <1>1, <1>4, <2>5, <2>6, <2>8 DEF MigrationInvariant, Upgrading
  <1> QED
    BY <1>1, <1>3, <1>4

\* A data statement that finds one row where its lookup expects one.
LEMMA FillKeepsMigration ==
  ASSUME MigrationInvariant, ChangeData, ~Ambiguous(Statement.part)
  PROVE  MigrationInvariant'
  <1>1. /\ Upgrading /\ at <= Len(Revision) /\ Statement.table = "data"
        /\ at' = at + 1 /\ UNCHANGED <<dialect, db, pc, crashes, stamped>>
    BY DEF ChangeData
  <1>2. /\ work \in Database /\ db \in Database
        /\ work.revision \in 0..HeadRevision /\ work.revision + 1 \in 1..HeadRevision
        /\ Len(Revision) \in 0..6 /\ at \in 1..7 /\ UpgradeInvariant
    BY <1>1, UnderWay
  <1>3. Statement.part \in FactsUpTo[HeadRevision]
    <2>1. at \in 1..Len(Revisions[work.revision + 1]) /\ HeadRevision \in 0..HeadRevision
      BY <1>1, <1>2, NineteenRevisions DEF Revision
    <2> QED
      BY <1>1, <1>2, <2>1, PartsOfStatement DEF Statement, Revision
  <1>4. work.facts \cup {Statement.part} \in SUBSET FactsUpTo[HeadRevision]
    BY <1>2, <1>3, DatabaseFields
  <1>5. /\ work' \in Database /\ work'.schema = work.schema
        /\ work'.revision = work.revision /\ work'.facts = work.facts \cup {Statement.part}
    <2>1. CASE Statement.part = "neutral text"
      <3> DEFINE texts == [r \in DOMAIN work.record |-> "neutral"]
                 events == NeutralLedger(work.ledger)
      <3>1. work' = [work EXCEPT !.facts = @ \cup {Statement.part},
                                 !.record = texts, !.ledger = events]
        BY <2>1 DEF ChangeData
      <3>2. work.record \in Kept(Texts) /\ work.ledger \in Kept(Events)
        BY <1>2, DatabaseFields
      <3>3. texts \in Kept(Texts)
        BY <3>2, KeptRows DEF Texts
      <3>4. events \in Kept(Events)
        <4>1. DOMAIN work.ledger \subseteq Records /\ work.ledger \in [DOMAIN work.ledger -> Events]
          BY <3>2, KeptRows
        <4>2. events \in [DOMAIN work.ledger -> Events]
          BY <4>1 DEF NeutralLedger, Events, Texts
        <4>3. DOMAIN events = DOMAIN work.ledger
          BY DEF NeutralLedger
        <4> QED
          BY <4>1, <4>2, <4>3, KeptRows
      <3> HIDE DEF texts, events
      <3>5. work \in [schema : SUBSET (PartsUpTo[HeadRevision]), revision : 0..HeadRevision,
                      facts : SUBSET FactsUpTo[HeadRevision], record : Kept(Texts),
                      ledger : Kept(Events)]
        BY <1>2, DatabaseFields
      <3>6. work' = [schema |-> work.schema, revision |-> work.revision,
                     facts |-> work.facts \cup {Statement.part},
                     record |-> texts, ledger |-> events]
        BY <3>1, <3>5
      <3>7. work' \in Database
        BY <1>4, <3>3, <3>4, <3>5, <3>6, DatabaseFields
      <3> QED
        BY <3>6, <3>7
    <2>2. CASE Statement.part # "neutral text"
      <3>1. work' = [work EXCEPT !.facts = @ \cup {Statement.part}]
        BY <2>2 DEF ChangeData
      <3> QED
        BY <1>2, <1>4, <3>1, DatabaseFields
    <2> QED
      BY <2>1, <2>2
  <1>6. at' \in 1..7 /\ at' <= Len(Revision) + 1
    <2> DEFINE length == Len(Revision)
    <2>1. length \in 0..6 /\ at \in 1..7 /\ at <= length /\ at' = at + 1
      BY <1>1, <1>2
    <2> HIDE DEF length
    <2>2. at' \in 1..7 /\ at' <= length + 1
      BY <2>1
    <2> QED
      BY <2>2 DEF length
  <1>7. MigrationTypeOK'
    BY <1>1, <1>5, <1>6 DEF MigrationInvariant, MigrationTypeOK
  <1>8. RevisionIsHonest'
    BY <1>1 DEF MigrationInvariant, RevisionIsHonest
  <1>9. Revision' = Revision
    BY <1>5 DEF Revision
  <1>10. StatementsDone'
    <2> SUFFICES ASSUME NEW i \in 1..(at' - 1)
                 PROVE  IF Revision[i].table = "data" THEN Revision[i].part \in work'.facts
                        ELSE <<Revision[i].table, Revision[i].part>> \in work'.schema
      BY <1>9 DEF StatementsDone
    <2>1. CASE i = at
      BY <1>1, <1>5, <2>1 DEF Statement
    <2>2. CASE i # at
      <3>1. i \in 1..(at - 1)
        BY <1>1, <1>2, <2>2
      <3>2. StatementsDone
        BY <1>1, <1>2 DEF UpgradeInvariant, Upgrading
      <3> QED
        BY <1>5, <3>1, <3>2 DEF StatementsDone
    <2> QED
      BY <2>1, <2>2
  <1>11. UpgradeInvariant'
    BY <1>1, <1>2, <1>5, <1>6, <1>9, <1>10 DEF UpgradeInvariant
  <1> QED
    BY <1>1, <1>7, <1>8, <1>11 DEF MigrationInvariant, Upgrading

LEMMA ChangeDataKeepsMigration == MigrationInvariant /\ ChangeData => MigrationInvariant'
  <1> SUFFICES ASSUME MigrationInvariant, ChangeData PROVE MigrationInvariant'
    OBVIOUS
  <1>1. CASE Ambiguous(Statement.part)
    <2>1. pc' = "failed" /\ UNCHANGED <<dialect, db, work, at, crashes, stamped>>
      BY <1>1 DEF ChangeData, Goto
    <2>2. MigrationTypeOK' /\ RevisionIsHonest'
      BY <2>1 DEF MigrationInvariant, MigrationTypeOK, RevisionIsHonest
    <2> QED
      BY <2>1, <2>2 DEF MigrationInvariant
  <1>2. CASE ~Ambiguous(Statement.part)
    BY <1>2, FillKeepsMigration
  <1> QED
    BY <1>1, <1>2

LEMMA CompleteKeepsMigration == MigrationInvariant /\ CompleteRevision => MigrationInvariant'
  <1> SUFFICES ASSUME MigrationInvariant, CompleteRevision PROVE MigrationInvariant'
    OBVIOUS
  <1> DEFINE n == work.revision
             length == Len(Revision)
  <1>1. /\ Upgrading /\ at > length
        /\ work' = [work EXCEPT !.revision = n + 1] /\ at' = 1
        /\ db' = IF dialect = "sqlite" THEN work' ELSE db
        /\ UNCHANGED <<dialect, pc, crashes, stamped>>
    BY DEF CompleteRevision
  <1>2. /\ work \in Database /\ db \in Database
        /\ n \in 0..HeadRevision /\ n + 1 \in 1..HeadRevision
        /\ length \in 0..6 /\ at \in 1..7 /\ UpgradeInvariant
    BY <1>1, UnderWay
  <1>3. n < HeadRevision /\ n + 1 \in 0..HeadRevision
    BY <1>1, <1>2, NineteenRevisions DEF Upgrading
  <1>4. /\ work' \in Database /\ work'.schema = work.schema
        /\ work'.revision = n + 1 /\ work'.facts = work.facts
    BY <1>1, <1>2, <1>3, DatabaseFields
  <1>5. \A i \in 1..Len(Revisions[n + 1]) :
            IF Revisions[n + 1][i].table = "data"
            THEN Revisions[n + 1][i].part \in work.facts
            ELSE <<Revisions[n + 1][i].table, Revisions[n + 1][i].part>> \in work.schema
    <2>1. StatementsDone
      BY <1>2, <1>3 DEF UpgradeInvariant
    <2>2. 1..length \subseteq 1..(at - 1)
      <3> HIDE DEF length
      <3> QED
        BY <1>1, <1>2
    <2> QED
      BY <2>1, <2>2 DEF StatementsDone, Revision
  <1>6. /\ PartsUpTo[n] \subseteq work.schema => PartsUpTo[n + 1] \subseteq work.schema
        /\ FactsUpTo[n] \subseteq work.facts => FactsUpTo[n + 1] \subseteq work.facts
    BY <1>2, <1>3, <1>5, PartsOfRevision
  <1>7. /\ stamped # "part" => PartsUpTo[work'.revision] \subseteq work'.schema
        /\ stamped = "no" => FactsUpTo[work'.revision] \subseteq work'.facts
    BY <1>2, <1>4, <1>6 DEF UpgradeInvariant
  <1>8. db' \in Database /\ db'.schema \subseteq work'.schema
    BY <1>1, <1>2, <1>4 DEF UpgradeInvariant
  <1>9. MigrationTypeOK'
    BY <1>1, <1>4, <1>8 DEF MigrationInvariant, MigrationTypeOK
  <1>10. RevisionIsHonest'
    BY <1>1, <1>7 DEF MigrationInvariant, RevisionIsHonest
  <1>11. work'.revision < HeadRevision => at' <= Len(Revision') + 1 /\ StatementsDone'
    <2> SUFFICES ASSUME n + 1 < HeadRevision PROVE at' <= Len(Revision') + 1 /\ StatementsDone'
      BY <1>4
    <2>1. (n + 1) + 1 \in 1..HeadRevision
      BY <1>3, NineteenRevisions
    <2>2. Revision' = Revisions[(n + 1) + 1]
      BY <1>4 DEF Revision
    <2>3. Len(Revision') \in 0..6
      BY <2>1, <2>2, RevisionsAreShort
    <2> QED
      BY <1>1, <2>3 DEF StatementsDone
  <1>12. UpgradeInvariant'
    BY <1>1, <1>7, <1>8, <1>11 DEF UpgradeInvariant
  <1> QED
    BY <1>1, <1>9, <1>10, <1>12 DEF MigrationInvariant, Upgrading

LEMMA CommitKeepsMigration == MigrationInvariant /\ UpgradeCommit => MigrationInvariant'
  <1> SUFFICES ASSUME MigrationInvariant, UpgradeCommit PROVE MigrationInvariant'
    OBVIOUS
  <1>1. MigrationTypeOK'
    BY DEF UpgradeCommit, Goto, MigrationInvariant, MigrationTypeOK
  <1>2. RevisionIsHonest'
    BY DEF UpgradeCommit, MigrationInvariant, UpgradeInvariant, RevisionIsHonest
  <1> QED
    BY <1>1, <1>2 DEF UpgradeCommit, Goto, MigrationInvariant

LEMMA EnsureKeepsMigration == MigrationInvariant /\ EnsureTables => MigrationInvariant'
  <1> SUFFICES ASSUME MigrationInvariant, EnsureTables PROVE MigrationInvariant'
    OBVIOUS
  <1>1. CASE MissingTables = {} /\ Goto("backfilling") /\ UNCHANGED db
    <2>1. MigrationTypeOK' /\ RevisionIsHonest' /\ MissingTables' = {}
      BY <1>1 DEF EnsureTables, Goto, MissingTables, MigrationInvariant, MigrationTypeOK,
                  RevisionIsHonest
    <2> QED
      BY <1>1, <2>1 DEF EnsureTables, Goto, MigrationInvariant
  <1>2. CASE MissingTables # {}
    <2>1. PICK tables : db' = [db EXCEPT !.schema = @ \cup PartsOf(tables)]
      BY <1>2 DEF EnsureTables
    <2>2. pc' = pc /\ pc = "ensuring" /\ UNCHANGED <<dialect, work, at, crashes, stamped>>
      BY <1>2 DEF EnsureTables
    <2>3. db \in Database /\ PartsOf(tables) \subseteq PartsUpTo[HeadRevision]
      BY DEF MigrationInvariant, MigrationTypeOK, PartsOf
    <2>4. /\ db' \in Database /\ db.schema \subseteq db'.schema
          /\ db'.revision = db.revision /\ db'.facts = db.facts
      <3>1. db.schema \cup PartsOf(tables) \in SUBSET (PartsUpTo[HeadRevision])
        BY <2>3, DatabaseFields
      <3> QED
        BY <2>1, <2>3, <3>1, DatabaseFields
    <2>5. MigrationTypeOK' /\ RevisionIsHonest'
      BY <2>2, <2>4 DEF MigrationInvariant, MigrationTypeOK, RevisionIsHonest
    <2> QED
      BY <2>2, <2>5 DEF MigrationInvariant
  <1> QED
    BY <1>1, <1>2 DEF EnsureTables

LEMMA BackfillKeepsMigration == MigrationInvariant /\ BackfillLedger => MigrationInvariant'
  <1> SUFFICES ASSUME MigrationInvariant, BackfillLedger PROVE MigrationInvariant'
    OBVIOUS
  <1>1. /\ pc = "backfilling" /\ pc' \in {"serving", "failed"}
        /\ UNCHANGED <<dialect, work, at, crashes, stamped>>
        /\ db' = db \/ db' = [db EXCEPT !.ledger = Backfilled(db.record, @)]
    BY DEF BackfillLedger, Goto
  <1>2. db \in Database /\ db.record \in Kept(Texts) /\ db.ledger \in Kept(Events)
    BY DatabaseFields DEF MigrationInvariant, MigrationTypeOK
  <1> DEFINE filled == Backfilled(db.record, db.ledger)
  <1>3. filled \in Kept(Events)
    <2>1. /\ DOMAIN db.record \subseteq Records /\ db.record \in [DOMAIN db.record -> Texts]
          /\ db.ledger \in [DOMAIN db.ledger -> Events]
      BY <1>2, KeptRows
    <2>2. \A text \in Texts : Event(text) \in Events
      BY DEF Event, Events
    <2>3. filled \in [DOMAIN db.record -> Events] /\ DOMAIN filled = DOMAIN db.record
      BY <2>1, <2>2 DEF Backfilled
    <2> QED
      BY <2>1, <2>3, KeptRows
  <1> HIDE DEF filled
  <1>4. /\ db' \in Database /\ db'.schema = db.schema
        /\ db'.revision = db.revision /\ db'.facts = db.facts
    <2>1. CASE db' = db
      BY <1>2, <2>1
    <2>2. CASE db' = [db EXCEPT !.ledger = filled]
      BY <1>2, <1>3, <2>2, DatabaseFields
    <2> QED
      BY <1>1, <2>1, <2>2 DEF filled
  <1>5. MigrationTypeOK' /\ RevisionIsHonest' /\ MissingTables' = MissingTables
    BY <1>1, <1>4 DEF MigrationInvariant, MigrationTypeOK, RevisionIsHonest, MissingTables
  <1> QED
    BY <1>1, <1>5 DEF MigrationInvariant

LEMMA MigrationStep ==
    /\ MigrationAssumption /\ MigrationInvariant
    /\ StartupStep \/ Crash \/ UNCHANGED migrationVars
    => MigrationInvariant'
  <1> SUFFICES ASSUME MigrationAssumption, MigrationInvariant,
                      StartupStep \/ Crash \/ UNCHANGED migrationVars
               PROVE  MigrationInvariant'
    OBVIOUS
  <1>1. CASE Restart
    <2>1. MigrationTypeOK' /\ RevisionIsHonest' /\ pc' = "down"
      BY <1>1 DEF Restart, Goto, MigrationInvariant, MigrationTypeOK, RevisionIsHonest
    <2> QED
      BY <2>1 DEF MigrationInvariant
  <1>2. CASE Crash
    <2>1. MigrationTypeOK' /\ RevisionIsHonest' /\ pc' = "down"
      BY <1>2 DEF Crash, Goto, MigrationAssumption, MigrationInvariant, MigrationTypeOK,
                  RevisionIsHonest
    <2> QED
      BY <2>1 DEF MigrationInvariant
  <1>3. CASE UNCHANGED migrationVars
    <2>1. /\ MigrationTypeOK' /\ RevisionIsHonest' /\ MissingTables' = MissingTables
          /\ UpgradeInvariant' = UpgradeInvariant /\ pc' = pc
      BY <1>3 DEF migrationVars, MigrationInvariant, MigrationTypeOK, RevisionIsHonest,
                  MissingTables, UpgradeInvariant, StatementsDone, Revision
    <2> QED
      BY <2>1 DEF MigrationInvariant
  <1> QED
    BY <1>1, <1>2, <1>3, StartKeepsMigration, StampKeepsMigration, ChangeSchemaKeepsMigration,
       ChangeDataKeepsMigration, CompleteKeepsMigration, CommitKeepsMigration,
       EnsureKeepsMigration, BackfillKeepsMigration DEF StartupStep

LEMMA MigrationHolds == Spec => []MigrationInvariant
  <1>1. Init => MigrationInvariant
    BY MigrationAssumption, MigrationInitially DEF Init
  <1>2. MigrationInvariant /\ [Next]_vars => MigrationInvariant'
    <2> SUFFICES ASSUME MigrationInvariant, [Next]_vars PROVE MigrationInvariant'
      OBVIOUS
    <2>1. StartupStep \/ Crash \/ UNCHANGED migrationVars
      BY DEF Next, Serve, vars
    <2> QED
      BY <2>1, MigrationAssumption, MigrationStep
  <1> QED
    BY <1>1, <1>2, PTL DEF Spec
-----------------------------------------------------------------------------
(* Theorems *)

\* Every variable keeps its type, whatever database a start meets: no
\* statement is outside its revision, no bucket is longer than the limit.
THEOREM BackendTyped == Spec => []TypeOK
  <1>1. MigrationInvariant /\ LimiterInvariant => TypeOK
    BY DEF MigrationInvariant, MigrationTypeOK, LimiterInvariant, TypeOK
  <1> QED
    BY <1>1, MigrationHolds, LimiterHolds, PTL

\* A process that serves finds every core table, however many crashes went
\* before, at whatever statement.
THEOREM ServedTablesExist == Spec => []ServesAllTables
  <1>1. MigrationInvariant => ServesAllTables
    BY DEF MigrationInvariant, ServesAllTables
  <1> QED
    BY <1>1, MigrationHolds, PTL

\* A revision is only written when all up to it was done, in the schema and
\* in the data, unless a schema without one was stamped.
THEOREM RevisionKeepsItsWord == Spec => []RevisionIsHonest
  <1>1. MigrationInvariant => RevisionIsHonest
    BY DEF MigrationInvariant
  <1> QED
    BY <1>1, MigrationHolds, PTL
=============================================================================
