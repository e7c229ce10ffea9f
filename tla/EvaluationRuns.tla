--------------------------- MODULE EvaluationRuns ---------------------------
(***************************************************************************)
(* run_evaluation, the model provider it asks in live mode, and the        *)
(* feedback on its results.  The run row is committed as "running" first;  *)
(* a result waits in the session for the next commit: that of the next     *)
(* invocation, in live mode, or that of the end.  Two results for one case *)
(* violate the unique constraint at that commit, the session is lost with  *)
(* what waited in it, and no code ever ends the run.                       *)
(*                                                                         *)
(* Abstracted: the texts of evidence, rationale and risks; latency,        *)
(* accuracy and cost, which are computed from what is kept; the access     *)
(* secret is held or not.                                                  *)
(***************************************************************************)
EXTENDS Integers, Sequences, FiniteSets

CONSTANTS
    Runs,           \* requests, and the rows they create
    Ids,            \* what a case may be called
    Asks(_),        \* what each may ask for: set of [mode, ids]
    Replies,        \* what the provider may say, "none" for no valid answer
    Reviewable,     \* bound: the results that feedback is about
    Dataset,        \* sequence of [id, expected, markers]
    WriteProtected, \* effective_evaluation_write_protected
    Configured,     \* the live provider is configured
    Uncased,        \* what feedback is about that names no case result
    MaxCrashes, MaxFeedback    \* bounds

Decisions == {"approve", "block", "needs human review"}

ASSUME EvaluationAssumption ==
    /\ Dataset \in Seq([id : Ids, expected : Decisions, markers : SUBSET {"block", "review"}])
    /\ \A i, j \in DOMAIN Dataset : Dataset[i].id = Dataset[j].id => i = j
    /\ \A r \in Runs : Asks(r) \subseteq [mode : {"live", "deterministic"}, ids : Seq(Ids)]
    /\ WriteProtected \in BOOLEAN /\ Configured \in BOOLEAN
    /\ MaxCrashes \in Nat /\ MaxFeedback \in Nat

VARIABLES
    run,            \* evaluation_runs: by request, "none" before
    results,        \* evaluation_case_results, in the order of their ids
    invocations,    \* llm_invocations, likewise
    job,            \* what run_evaluation holds in memory
    feedback,       \* decision_feedback, oldest first
    crashes         \* sessions and processes that died

vars == <<run, results, invocations, job, feedback, crashes>>
-----------------------------------------------------------------------------
CaseIds == {Dataset[i].id : i \in DOMAIN Dataset}
CaseOf(id) == CHOOSE case \in {Dataset[i] : i \in DOMAIN Dataset} : case.id = id

\* deterministic_release_gate_decision: the texts contain a marker or not.
DeterministicDecision(case) ==
    IF "block" \in case.markers THEN "block"
    ELSE IF "review" \in case.markers THEN "needs human review" ELSE "approve"

\* Mutant: the provider's word is taken as it is.
RawDecision(reply) == reply

\* _normalize_decision, and what a failed invocation records: the provider
\* does not answer as agreed (not at all, too late, not JSON), or with a word
\* of its own.
NormalizedDecision(reply) ==
    CASE reply \in {"approve", "approved", "pass"} -> "approve"
      [] reply \in {"block", "blocked", "reject"}  -> "block"
      [] OTHER -> "needs human review"

ZeroCounts == [correct |-> 0, falsePositive |-> 0, falseNegative |-> 0, tokens |-> 0]
NoRun == [status |-> "none", mode |-> "none", selected |-> <<>>, counts |-> ZeroCounts]
NoJob == [pc |-> "idle", at |-> 1, pending |-> <<>>, counts |-> ZeroCounts, failure |-> FALSE]

Init ==
    /\ run = [r \in Runs |-> NoRun]
    /\ job = [r \in Runs |-> NoJob]
    /\ results = <<>> /\ invocations = <<>> /\ feedback = <<>>
    /\ crashes = 0

\* require_evaluation_write_access
MayWrite(secret) == WriteProtected => secret

Selected(ids) == IF ids = <<>> THEN [i \in DOMAIN Dataset |-> Dataset[i].id] ELSE ids
Live(r) == run[r].mode = "live"

RequestRun(r, mode, ids, secret) ==
    /\ run[r].status = "none" /\ MayWrite(secret)
    /\ \A i \in DOMAIN ids : ids[i] \in CaseIds
    /\ Selected(ids) # <<>>
    /\ mode = "live" => Configured
    /\ run' = [run EXCEPT ![r] = [NoRun EXCEPT !.status = "running", !.mode = mode,
                                                !.selected = Selected(ids)]]
    /\ job' = [job EXCEPT ![r].pc = "scoring"]
    /\ UNCHANGED <<results, invocations, feedback, crashes>>

\* Mutant: the constraint leaves the run out.
UniqueCases(rows) == \A i, j \in DOMAIN rows : rows[i].case = rows[j].case => i = j

\* uq_evaluation_case_results_run_case
Unique(rows) ==
    \A i, j \in DOMAIN rows : rows[i].case = rows[j].case /\ rows[i].run = rows[j].run => i = j

Flushed(r) == results \o job[r].pending

\* The counters after one more decision.
Counted(counts, case, actual, tokens) ==
    [correct       |-> counts.correct + (IF actual = case.expected THEN 1 ELSE 0),
     falsePositive |-> counts.falsePositive
                       + (IF case.expected = "approve" /\ actual # "approve" THEN 1 ELSE 0),
     falseNegative |-> counts.falseNegative
                       + (IF case.expected # "approve" /\ actual = "approve" THEN 1 ELSE 0),
     tokens        |-> counts.tokens + tokens]

\* Mutant: a result names the invocation before its own.
RowOfPrevious(r, case, actual, invocation) ==
    [run |-> r, case |-> case.id, expected |-> case.expected, actual |-> actual,
     invocation |-> IF invocation > 1 THEN invocation - 1 ELSE invocation]

Row(r, case, actual, invocation) ==
    [run |-> r, case |-> case.id, expected |-> case.expected, actual |-> actual,
     invocation |-> invocation]

Scoring(r) == job[r].pc = "scoring" /\ job[r].at <= Len(run[r].selected)
CurrentCase(r) == CaseOf(run[r].selected[job[r].at])

\* The error of a commit leaves the endpoint; its session is closed.
Abandon(r) ==
    /\ job' = [job EXCEPT ![r] = [NoJob EXCEPT !.pc = "failed"]]
    /\ UNCHANGED <<run, results, invocations, feedback, crashes>>

ScoreByRules(r) ==
    LET case == CurrentCase(r)
        actual == DeterministicDecision(case)
    IN  /\ Scoring(r) /\ ~Live(r)
        /\ job' = [job EXCEPT ![r].pending = Append(@, Row(r, case, actual, 0)),
                              ![r].counts  = Counted(@, case, actual, 0),
                              ![r].at      = @ + 1]
        /\ UNCHANGED <<run, results, invocations, feedback, crashes>>

\* Mutant: what waits in the session is not written with the invocation.
ResultsAfterInvocationLost(r) == results

\* The commit of an invocation writes the results that wait.
ResultsAfterInvocation(r) == Flushed(r)

ScoreByModel(r, reply) ==
    LET case   == CurrentCase(r)
        actual == NormalizedDecision(reply)
        tokens == IF reply = "none" THEN 0 ELSE 1
        status == IF reply = "none" THEN "failed" ELSE "success"
    IN  /\ Scoring(r) /\ Live(r) /\ Unique(Flushed(r))
        /\ results' = ResultsAfterInvocation(r)
        /\ invocations' = Append(invocations, [run |-> r, case |-> case.id, status |-> status,
                                               decision |-> actual, tokens |-> tokens])
        /\ job' = [job EXCEPT ![r].pending = <<Row(r, case, actual, Len(invocations) + 1)>>,
                              ![r].counts  = Counted(@, case, actual, tokens),
                              ![r].failure = @ \/ status = "failed",
                              ![r].at      = @ + 1]
        /\ UNCHANGED <<run, feedback, crashes>>

\* The provider has answered, but the result before this case is a second
\* one: neither the invocation nor its failure can be recorded.
InvocationNotRecorded(r) == Scoring(r) /\ Live(r) /\ ~Unique(Flushed(r)) /\ Abandon(r)

Finish(r) ==
    /\ job[r].pc = "scoring" /\ job[r].at > Len(run[r].selected) /\ Unique(Flushed(r))
    /\ results' = Flushed(r)
    /\ run' = [run EXCEPT ![r].status = IF job[r].failure THEN "partial_failure" ELSE "completed",
                          ![r].counts = job[r].counts]
    /\ job' = [job EXCEPT ![r] = [NoJob EXCEPT !.pc = "answered"]]
    /\ UNCHANGED <<invocations, feedback, crashes>>

FinishFails(r) ==
    /\ job[r].pc = "scoring" /\ job[r].at > Len(run[r].selected) /\ ~Unique(Flushed(r))
    /\ Abandon(r)

Lose(gone) ==
    /\ crashes < MaxCrashes
    /\ crashes' = crashes + 1
    /\ job' = [r \in Runs |-> IF r \in gone THEN [NoJob EXCEPT !.pc = "failed"] ELSE job[r]]
    /\ UNCHANGED <<run, results, invocations, feedback>>

\* The database refuses the invocation, for a text it cannot store, and then
\* the session refuses the failure that the except branch would record.
InvocationRefused(r) == Scoring(r) /\ Live(r) /\ Lose({r})

\* A crash of an idle process loses nothing here.
Crash == (\E r \in Runs : job[r].pc = "scoring") /\ Lose({r \in Runs : job[r].pc = "scoring"})

\* create_decision_feedback, with a correction exactly when the verdict is
\* one; a correction beside another verdict is kept and not read.
GiveFeedback(target, verdict, correction, secret) ==
    /\ MayWrite(secret) /\ Len(feedback) < MaxFeedback
    /\ feedback' = Append(feedback, [target |-> target, verdict |-> verdict, correction |-> correction])
    /\ UNCHANGED <<run, results, invocations, job, crashes>>

Score(r) ==
    \/ ScoreByRules(r)
    \/ \E reply \in Replies : ScoreByModel(r, reply)
    \/ InvocationNotRecorded(r)
    \/ Finish(r)
    \/ FinishFails(r)

Corrections(verdict) == IF verdict = "corrected" THEN Decisions ELSE {"none"}

Next ==
    \/ \E r \in Runs : \E ask \in Asks(r), secret \in BOOLEAN : RequestRun(r, ask.mode, ask.ids, secret)
    \/ \E r \in Runs : Score(r)
    \/ \E r \in Runs : InvocationRefused(r)
    \/ Crash
    \/ \E target \in (Reviewable \cap DOMAIN results) \cup {Uncased}, secret \in BOOLEAN,
          verdict \in {"accepted", "rejected", "corrected"} :
          \E correction \in Corrections(verdict) : GiveFeedback(target, verdict, correction, secret)

\* A request's thread goes on, and the provider has a timeout.
Spec == Init /\ [][Next]_vars /\ \A r \in Runs : WF_vars(Score(r))
-----------------------------------------------------------------------------
(* get_feedback_summary *)

Entries(log, target) == {i \in DOMAIN log : log[i].target = target}

LatestEntry(log, target) ==
    CHOOSE i \in Entries(log, target) : \A j \in Entries(log, target) : j <= i

Reviewed(log) ==
    {t \in DOMAIN results : Entries(log, t) # {} /\ log[LatestEntry(log, t)].verdict # "rejected"}

EffectiveDecision(log, target) ==
    LET entry == log[LatestEntry(log, target)]
    IN  IF entry.verdict = "corrected" THEN entry.correction ELSE results[target].actual

FeedbackSummary(log) ==
    LET wrong(t) == EffectiveDecision(log, t) # results[t].expected
        approves(decision) == decision = "approve"
    IN  [reviewed |-> Cardinality(Reviewed(log)),
         correct  |-> Cardinality({t \in Reviewed(log) : ~wrong(t)}),
         falsePositive |-> Cardinality({t \in Reviewed(log) :
                               approves(results[t].expected) /\ ~approves(EffectiveDecision(log, t))}),
         falseNegative |-> Cardinality({t \in Reviewed(log) :
                               ~approves(results[t].expected) /\ approves(EffectiveDecision(log, t))})]
-----------------------------------------------------------------------------
(* Properties *)

Counts == [correct : Nat, falsePositive : Nat, falseNegative : Nat, tokens : Nat]

TypeOK ==
    /\ \A r \in Runs :
        /\ run[r].status \in {"none", "running", "completed", "partial_failure"}
        /\ run[r].selected \in Seq(CaseIds) /\ run[r].counts \in Counts
        /\ job[r].pc \in {"idle", "scoring", "answered", "failed"}
        /\ Len(job[r].pending) <= (IF Live(r) THEN 1 ELSE Len(run[r].selected))
    /\ \A i \in DOMAIN results : /\ results[i].run \in Runs /\ results[i].case \in CaseIds
                                 /\ {results[i].expected, results[i].actual} \subseteq Decisions
    /\ crashes \in 0..MaxCrashes /\ Len(feedback) <= MaxFeedback

ResultsOf(r) == {results[i] : i \in {j \in DOMAIN results : results[j].run = r}}
InvocationsOf(r) == {i \in DOMAIN invocations : invocations[i].run = r}
Failed(i) == invocations[i].status = "failed"

\* A run that ended has one result for each case it was asked for, its
\* counters are those of its results, its tokens those of its invocations,
\* and it is a partial failure exactly when one of them failed.
FinishedRunIsWhole ==
    \A r \in Runs : run[r].status \in {"completed", "partial_failure"} =>
        /\ Cardinality(ResultsOf(r)) = Len(run[r].selected)
        /\ \A i \in DOMAIN run[r].selected : \E row \in ResultsOf(r) : row.case = run[r].selected[i]
        /\ run[r].counts.correct = Cardinality({row \in ResultsOf(r) : row.actual = row.expected})
        /\ run[r].counts.falsePositive =
               Cardinality({row \in ResultsOf(r) : row.expected = "approve" /\ row.actual # "approve"})
        /\ run[r].counts.tokens = Cardinality({i \in InvocationsOf(r) : ~Failed(i)})
        /\ run[r].status = "partial_failure" <=> \E i \in InvocationsOf(r) : Failed(i)

\* Whatever became of a live run, each of its results is that of an
\* invocation with the same decision, and at most one recorded invocation
\* is without its result.
AnswersAreScored ==
    \A r \in Runs : Live(r) =>
        /\ \A row \in ResultsOf(r) :
               /\ row.invocation \in InvocationsOf(r)
               /\ invocations[row.invocation].case = row.case
               /\ invocations[row.invocation].decision = row.actual
        /\ Cardinality(InvocationsOf(r)) <= Cardinality(ResultsOf(r)) + 1

\* A run ends unless it asks for a case twice, or a process or its session
\* died.
RunsEnd ==
    \A r \in Runs :
        run[r].status = "running" ~>
            \/ run[r].status # "running"
            \/ crashes > 0
            \/ \E i, j \in DOMAIN run[r].selected : i # j /\ run[r].selected[i] = run[r].selected[j]

\* What an entry of feedback does to the summary.
LastWord ==
    LET entry == feedback'[Len(feedback')]
        others == DOMAIN results \ {entry.target}
    IN  /\ entry.target \in DOMAIN results =>
              /\ entry.target \in Reviewed(feedback') <=> entry.verdict # "rejected"
              /\ entry.verdict = "corrected" =>
                     EffectiveDecision(feedback', entry.target) = entry.correction
              /\ entry.verdict = "accepted" =>
                     EffectiveDecision(feedback', entry.target) = results[entry.target].actual
        /\ Reviewed(feedback') \cap others = Reviewed(feedback) \cap others
        /\ FeedbackSummary(feedback').reviewed - FeedbackSummary(feedback).reviewed \in -1..1
        /\ FeedbackSummary(feedback').correct - FeedbackSummary(feedback).correct \in -1..1

\* Feedback on a result has the last word on it and on nothing else: the
\* summary counts the result by it, withdraws it when it is rejected, and
\* counts every other result as before.
LastWordCounts == [][feedback' # feedback => LastWord]_vars
=============================================================================
