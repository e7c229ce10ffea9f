------------------------ MODULE EvaluationRunsProofs ------------------------
EXTENDS EvaluationRuns, FiniteSetTheorems, SequenceTheorems, WellFoundedInduction, TLAPS

(* Types *)

ResultRow     == [run : Runs, case : CaseIds, expected : Decisions, actual : Decisions,
                  invocation : Nat]
InvocationRow == [run : Runs, case : CaseIds, status : {"failed", "success"},
                  decision : Decisions, tokens : {0, 1}]
RunRow        == [status : {"none", "running", "completed", "partial_failure"},
                  mode : {"none", "live", "deterministic"}, selected : Seq(CaseIds),
                  counts : Counts]
Job           == [pc : {"idle", "scoring", "answered", "failed"}, at : Nat \ {0},
                  pending : Seq(ResultRow), counts : Counts, failure : BOOLEAN]
FeedbackRow   == [target : Nat \cup {Uncased}, verdict : {"accepted", "rejected", "corrected"},
                  correction : Decisions \cup {"none"}]

TypeInvariant ==
    /\ run \in [Runs -> RunRow]
    /\ job \in [Runs -> Job]
    /\ results \in Seq(ResultRow)
    /\ invocations \in Seq(InvocationRow)
    /\ feedback \in Seq(FeedbackRow) /\ Len(feedback) <= MaxFeedback
    /\ crashes \in 0..MaxCrashes

LEMMA CaseIsFound ==
    ASSUME NEW id \in CaseIds
    PROVE  CaseOf(id).id = id /\ CaseOf(id).expected \in Decisions
  <1>1. PICK i \in DOMAIN Dataset : id = Dataset[i].id
    BY DEF CaseIds
  <1>2. \E case \in {Dataset[k] : k \in DOMAIN Dataset} : case.id = id
    BY <1>1
  <1>3. CaseOf(id) \in {Dataset[k] : k \in DOMAIN Dataset} /\ CaseOf(id).id = id
    BY <1>2 DEF CaseOf
  <1> DEFINE Case == [id : Ids, expected : Decisions, markers : SUBSET {"block", "review"}]
  <1>4. Dataset \in Seq(Case)
    BY EvaluationAssumption DEF EvaluationAssumption
  <1>5. \A case \in Case : case.expected \in Decisions
    OBVIOUS
  <1> HIDE DEF Case
  <1>6. \A k \in DOMAIN Dataset : Dataset[k] \in Case
    BY <1>4
  <1> QED
    BY <1>3, <1>5, <1>6

LEMMA DecisionsAreNormal ==
    /\ \A case : DeterministicDecision(case) \in Decisions
    /\ \A reply : NormalizedDecision(reply) \in Decisions
  <1>1. \A case : DeterministicDecision(case) \in Decisions
    BY DEF DeterministicDecision, Decisions
  <1>2. \A reply : NormalizedDecision(reply) \in Decisions
    BY DEF NormalizedDecision, Decisions
  <1> QED
    BY <1>1, <1>2

LEMMA NothingCounted == ZeroCounts \in Counts /\ NoRun \in RunRow /\ NoJob \in Job
  <1>1. <<>> \in Seq(CaseIds) /\ <<>> \in Seq(ResultRow)
    OBVIOUS
  <1>2. ZeroCounts \in Counts
    BY DEF ZeroCounts, Counts
  <1> QED
    BY <1>1, <1>2 DEF NoRun, NoJob, RunRow, Job

\* A case of a list that was checked against the dataset.
LEMMA CaseUnderWay ==
    ASSUME TypeInvariant, NEW r \in Runs, Scoring(r)
    PROVE  /\ run[r] \in RunRow /\ job[r] \in Job
           /\ job[r].at \in 1..Len(run[r].selected)
           /\ run[r].selected[job[r].at] \in CaseIds
           /\ CurrentCase(r).id = run[r].selected[job[r].at]
           /\ CurrentCase(r).expected \in Decisions
  <1>1. run[r] \in RunRow /\ job[r] \in Job
    BY DEF TypeInvariant
  <1>2. run[r].selected \in Seq(CaseIds) /\ job[r].at \in Nat \ {0}
    BY <1>1 DEF RunRow, Job
  <1>3. job[r].at \in 1..Len(run[r].selected)
    BY <1>2 DEF Scoring
  <1>4. run[r].selected[job[r].at] \in CaseIds
    BY <1>2, <1>3
  <1> QED
    BY <1>1, <1>3, <1>4, CaseIsFound DEF CurrentCase

LEMMA RowIsTyped ==
    ASSUME TypeInvariant, NEW r \in Runs, Scoring(r), NEW actual \in Decisions, NEW n \in Nat,
           NEW tokens \in {0, 1}
    PROVE  /\ Row(r, CurrentCase(r), actual, n) \in ResultRow
           /\ Counted(job[r].counts, CurrentCase(r), actual, tokens) \in Counts
  <1>1. Row(r, CurrentCase(r), actual, n) \in ResultRow
    BY CaseUnderWay DEF Row, ResultRow
  <1>2. job[r].counts \in Counts
    BY CaseUnderWay DEF Job
  <1>3. Counted(job[r].counts, CurrentCase(r), actual, tokens) \in Counts
    BY <1>2 DEF Counted, Counts
  <1> QED
    BY <1>1, <1>3

LEMMA FlushIsTyped ==
    ASSUME TypeInvariant, NEW r \in Runs
    PROVE  Flushed(r) \in Seq(ResultRow)
  <1>1. job[r].pending \in Seq(ResultRow)
    BY DEF TypeInvariant, Job
  <1> QED
    BY <1>1, ConcatProperties DEF TypeInvariant, Flushed

LEMMA TypesInitially == Init => TypeInvariant
  BY NothingCounted, EvaluationAssumption DEF Init, TypeInvariant, EvaluationAssumption

LEMMA RequestTyped ==
    ASSUME TypeInvariant, NEW r \in Runs, NEW ask \in Asks(r), NEW secret,
           RequestRun(r, ask.mode, ask.ids, secret)
    PROVE  /\ TypeInvariant'
           /\ Selected(ask.ids) \in Seq(CaseIds) /\ ask.mode \in {"live", "deterministic"}
           /\ run' = [run EXCEPT ![r] = [NoRun EXCEPT !.status = "running", !.mode = ask.mode,
                                                       !.selected = Selected(ask.ids)]]
           /\ run'[r] \in RunRow
           /\ job' = [job EXCEPT ![r] = [@ EXCEPT !.pc = "scoring"]]
           /\ UNCHANGED <<results, invocations, feedback, crashes>>
  <1>1. ask.mode \in {"live", "deterministic"} /\ ask.ids \in Seq(Ids)
    BY EvaluationAssumption DEF EvaluationAssumption
  <1>2. Selected(ask.ids) \in Seq(CaseIds)
    <2>1. CASE ask.ids = <<>>
      <3>1. Len(Dataset) \in Nat /\ DOMAIN Dataset = 1..Len(Dataset)
        BY EvaluationAssumption DEF EvaluationAssumption
      <3>2. \A i \in 1..Len(Dataset) : Dataset[i].id \in CaseIds
        BY <3>1 DEF CaseIds
      <3>3. [i \in 1..Len(Dataset) |-> Dataset[i].id] \in [1..Len(Dataset) -> CaseIds]
        BY <3>2
      <3> QED
        BY <2>1, <3>1, <3>3 DEF Selected
    <2>2. CASE ask.ids # <<>>
      <3>1. \A i \in 1..Len(ask.ids) : ask.ids[i] \in CaseIds
        BY <1>1 DEF RequestRun
      <3>2. ask.ids \in [1..Len(ask.ids) -> Ids] /\ Len(ask.ids) \in Nat
        BY <1>1, LenProperties
      <3>3. ask.ids \in [1..Len(ask.ids) -> CaseIds]
        BY <3>1, <3>2
      <3> QED
        BY <2>2, <3>2, <3>3 DEF Selected
    <2> QED
      BY <2>1, <2>2
  <1> DEFINE row == [NoRun EXCEPT !.status = "running", !.mode = ask.mode,
                                  !.selected = Selected(ask.ids)]
             started == [job[r] EXCEPT !.pc = "scoring"]
  <1>3. row \in RunRow
    BY <1>1, <1>2, NothingCounted DEF RunRow
  <1>4. started \in Job
    BY DEF TypeInvariant, Job
  <1>5. /\ run' = [run EXCEPT ![r] = row] /\ job' = [job EXCEPT ![r] = started]
        /\ UNCHANGED <<results, invocations, feedback, crashes>>
    BY DEF RequestRun
  <1> HIDE DEF row, started
  <1>6. TypeInvariant' /\ run'[r] = row
    BY <1>3, <1>4, <1>5 DEF TypeInvariant
  <1> QED
    BY <1>1, <1>2, <1>3, <1>5, <1>6 DEF row, started

\* What an action of a run does to its variables, in types.
LEMMA RulesTyped ==
    ASSUME TypeInvariant, NEW r \in Runs, ScoreByRules(r)
    PROVE  /\ TypeInvariant'
           /\ LET row == Row(r, CurrentCase(r), DeterministicDecision(CurrentCase(r)), 0)
              IN  /\ row \in ResultRow
                  /\ job'[r].pending = Append(job[r].pending, row)
                  /\ job'[r].counts = Counted(job[r].counts, CurrentCase(r), row.actual, 0)
                  /\ job'[r].at = job[r].at + 1
                  /\ job'[r].pc = job[r].pc /\ job'[r].failure = job[r].failure
           /\ \A q \in Runs \ {r} : job'[q] = job[q]
           /\ UNCHANGED <<run, results, invocations, feedback, crashes>>
  <1> DEFINE case == CurrentCase(r)
             actual == DeterministicDecision(case)
             row == Row(r, case, actual, 0)
             counts == Counted(job[r].counts, case, actual, 0)
  <1>1. row \in ResultRow /\ counts \in Counts /\ row.actual = actual
    BY DecisionsAreNormal, RowIsTyped DEF ScoreByRules, Row
  <1>2. job[r] \in Job /\ job \in [Runs -> Job]
    BY DEF TypeInvariant
  <1>3. Append(job[r].pending, row) \in Seq(ResultRow)
    BY <1>1, <1>2, AppendProperties DEF Job
  <1>4. /\ job' = [job EXCEPT ![r].pending = Append(@, row), ![r].counts = counts,
                              ![r].at = @ + 1]
        /\ UNCHANGED <<run, results, invocations, feedback, crashes>>
    BY DEF ScoreByRules
  <1> HIDE DEF row, counts, case, actual
  <1>5. job'[r] = [job[r] EXCEPT !.pending = Append(@, row), !.counts = counts, !.at = @ + 1]
    BY <1>2, <1>4
  <1>6. job'[r] \in Job
    <2> DEFINE rows == Append(job[r].pending, row)
    <2> HIDE DEF rows
    <2>1. job'[r] = [pc |-> job[r].pc, at |-> job[r].at + 1, pending |-> rows,
                     counts |-> counts, failure |-> job[r].failure]
      BY <1>2, <1>5 DEF Job, rows
    <2>2. rows \in Seq(ResultRow) /\ job[r].at + 1 \in Nat \ {0}
      BY <1>2, <1>3 DEF Job, rows
    <2> QED
      BY <1>1, <1>2, <2>1, <2>2 DEF Job
  <1>7. job' \in [Runs -> Job] /\ \A q \in Runs \ {r} : job'[q] = job[q]
    BY <1>2, <1>4, <1>6
  <1>8. TypeInvariant'
    BY <1>4, <1>7 DEF TypeInvariant
  <1>9. /\ job'[r].pending = Append(job[r].pending, row) /\ job'[r].counts = counts
        /\ job'[r].at = job[r].at + 1
        /\ job'[r].pc = job[r].pc /\ job'[r].failure = job[r].failure
    BY <1>2, <1>5 DEF Job
  <1> QED
    BY <1>1, <1>4, <1>7, <1>8, <1>9 DEF row, counts, case, actual

LEMMA ModelTyped ==
    ASSUME TypeInvariant, NEW r \in Runs, NEW reply, ScoreByModel(r, reply)
    PROVE  /\ TypeInvariant'
           /\ LET actual == NormalizedDecision(reply)
                  tokens == IF reply = "none" THEN 0 ELSE 1
                  status == IF reply = "none" THEN "failed" ELSE "success"
                  row == Row(r, CurrentCase(r), actual, Len(invocations) + 1)
              IN  /\ row \in ResultRow
                  /\ job'[r].pending = <<row>>
                  /\ job'[r].counts = Counted(job[r].counts, CurrentCase(r), actual, tokens)
                  /\ job'[r].at = job[r].at + 1
                  /\ job'[r].pc = job[r].pc
                  /\ job'[r].failure = (job[r].failure \/ status = "failed")
                  /\ invocations' = Append(invocations,
                         [run |-> r, case |-> CurrentCase(r).id, status |-> status,
                          decision |-> actual, tokens |-> tokens])
           /\ results' = Flushed(r)
           /\ \A q \in Runs \ {r} : job'[q] = job[q]
           /\ UNCHANGED <<run, feedback, crashes>>
  <1> DEFINE case == CurrentCase(r)
             actual == NormalizedDecision(reply)
             tokens == IF reply = "none" THEN 0 ELSE 1
             status == IF reply = "none" THEN "failed" ELSE "success"
             row == Row(r, case, actual, Len(invocations) + 1)
             counts == Counted(job[r].counts, case, actual, tokens)
             entry == [run |-> r, case |-> case.id, status |-> status,
                       decision |-> actual, tokens |-> tokens]
  <1>1. row \in ResultRow /\ counts \in Counts
    <2>1. Len(invocations) + 1 \in Nat /\ tokens \in {0, 1} /\ actual \in Decisions
      BY DecisionsAreNormal DEF TypeInvariant
    <2> QED
      BY <2>1, RowIsTyped DEF ScoreByModel
  <1>2. entry \in InvocationRow
    BY CaseUnderWay, DecisionsAreNormal DEF ScoreByModel, InvocationRow
  <1>3. job[r] \in Job /\ job \in [Runs -> Job]
    BY DEF TypeInvariant
  <1>4. <<row>> \in Seq(ResultRow) /\ Append(invocations, entry) \in Seq(InvocationRow)
        /\ Flushed(r) \in Seq(ResultRow)
    BY <1>1, <1>2, AppendProperties, FlushIsTyped DEF TypeInvariant
  <1>5. /\ job' = [job EXCEPT ![r].pending = <<row>>, ![r].counts = counts,
                              ![r].failure = @ \/ status = "failed", ![r].at = @ + 1]
        /\ results' = Flushed(r)
        /\ invocations' = Append(invocations, entry)
        /\ UNCHANGED <<run, feedback, crashes>>
    BY DEF ScoreByModel, ResultsAfterInvocation
  <1> HIDE DEF row, counts, case, actual, tokens, status, entry
  <1> DEFINE failed == job[r].failure \/ status = "failed"
  <1>6. job'[r] = [job[r] EXCEPT !.pending = <<row>>, !.counts = counts,
                                 !.failure = failed, !.at = @ + 1]
    BY <1>3, <1>5
  <1>7. failed \in BOOLEAN
    BY <1>3 DEF Job
  <1> HIDE DEF failed
  <1>8. job'[r] \in Job
    <2> DEFINE rows == <<row>>
    <2> HIDE DEF rows
    <2>1. job'[r] = [pc |-> job[r].pc, at |-> job[r].at + 1, pending |-> rows,
                     counts |-> counts, failure |-> failed]
      BY <1>3, <1>6 DEF Job, rows
    <2>2. rows \in Seq(ResultRow) /\ job[r].at + 1 \in Nat \ {0}
      BY <1>3, <1>4 DEF Job, rows
    <2> QED
      BY <1>1, <1>3, <1>7, <2>1, <2>2 DEF Job
  <1>9. job' \in [Runs -> Job] /\ \A q \in Runs \ {r} : job'[q] = job[q]
    BY <1>3, <1>5, <1>8
  <1>10. TypeInvariant'
    BY <1>4, <1>5, <1>9 DEF TypeInvariant
  <1>11. /\ job'[r].pending = <<row>> /\ job'[r].counts = counts /\ job'[r].at = job[r].at + 1
         /\ job'[r].pc = job[r].pc /\ job'[r].failure = failed
    BY <1>3, <1>6 DEF Job
  <1> QED
    BY <1>1, <1>5, <1>9, <1>10, <1>11
    DEF row, counts, case, actual, tokens, status, entry, failed

LEMMA AbandonTyped ==
    ASSUME TypeInvariant, NEW r \in Runs, Abandon(r)
    PROVE  /\ TypeInvariant'
           /\ job'[r] = [NoJob EXCEPT !.pc = "failed"]
           /\ \A q \in Runs \ {r} : job'[q] = job[q]
           /\ UNCHANGED <<run, results, invocations, feedback, crashes>>
  <1>1. [NoJob EXCEPT !.pc = "failed"] \in Job
    BY NothingCounted DEF Job
  <1> QED
    BY <1>1 DEF TypeInvariant, Abandon

LEMMA FinishTyped ==
    ASSUME TypeInvariant, NEW r \in Runs, Finish(r)
    PROVE  /\ TypeInvariant'
           /\ results' = Flushed(r)
           /\ run'[r].status = IF job[r].failure THEN "partial_failure" ELSE "completed"
           /\ run'[r].counts = job[r].counts
           /\ run'[r].mode = run[r].mode /\ run'[r].selected = run[r].selected
           /\ job'[r] = [NoJob EXCEPT !.pc = "answered"]
           /\ \A q \in Runs \ {r} : job'[q] = job[q] /\ run'[q] = run[q]
           /\ UNCHANGED <<invocations, feedback, crashes>>
  <1>1. [NoJob EXCEPT !.pc = "answered"] \in Job
    BY NothingCounted DEF Job
  <1> DEFINE status == IF job[r].failure THEN "partial_failure" ELSE "completed"
  <1>2. /\ run[r] \in RunRow /\ run \in [Runs -> RunRow] /\ job \in [Runs -> Job]
        /\ job[r].counts \in Counts
    BY DEF TypeInvariant, Job
  <1>3. status \in {"partial_failure", "completed"}
    OBVIOUS
  <1>4. /\ run' = [run EXCEPT ![r].status = status, ![r].counts = job[r].counts]
        /\ job' = [job EXCEPT ![r] = [NoJob EXCEPT !.pc = "answered"]]
        /\ results' = Flushed(r) /\ UNCHANGED <<invocations, feedback, crashes>>
    BY DEF Finish
  <1> HIDE DEF status
  <1>5. run'[r] = [run[r] EXCEPT !.status = status, !.counts = job[r].counts]
    BY <1>2, <1>4
  <1>6. run'[r] \in RunRow
    BY <1>2, <1>3, <1>5 DEF RunRow
  <1>7. run' \in [Runs -> RunRow] /\ \A q \in Runs \ {r} : run'[q] = run[q]
    BY <1>2, <1>4, <1>6
  <1>8. job' \in [Runs -> Job] /\ \A q \in Runs \ {r} : job'[q] = job[q]
    BY <1>1, <1>2, <1>4
  <1>9. TypeInvariant'
    BY <1>4, <1>7, <1>8, FlushIsTyped DEF TypeInvariant
  <1>10. /\ run'[r].status = status /\ run'[r].counts = job[r].counts
         /\ run'[r].mode = run[r].mode /\ run'[r].selected = run[r].selected
    BY <1>2, <1>5 DEF RunRow
  <1> QED
    BY <1>2, <1>4, <1>7, <1>8, <1>9, <1>10 DEF status

LEMMA LossTyped ==
    ASSUME TypeInvariant, NEW gone, Lose(gone)
    PROVE  /\ TypeInvariant'
           /\ \A r \in Runs : job'[r] = IF r \in gone
                                        THEN [NoJob EXCEPT !.pc = "failed"] ELSE job[r]
           /\ UNCHANGED <<run, results, invocations, feedback>>
  <1>1. [NoJob EXCEPT !.pc = "failed"] \in Job
    BY NothingCounted DEF Job
  <1>2. crashes' \in 0..MaxCrashes
    BY EvaluationAssumption DEF EvaluationAssumption, Lose, TypeInvariant
  <1> QED
    BY <1>1, <1>2 DEF TypeInvariant, Lose

LEMMA FeedbackTyped ==
    ASSUME TypeInvariant, NEW target \in (Reviewable \cap DOMAIN results) \cup {Uncased},
           NEW verdict \in {"accepted", "rejected", "corrected"},
           NEW correction \in Corrections(verdict), NEW secret,
           GiveFeedback(target, verdict, correction, secret)
    PROVE  /\ TypeInvariant'
           /\ [target |-> target, verdict |-> verdict, correction |-> correction] \in FeedbackRow
           /\ feedback' = Append(feedback, [target |-> target, verdict |-> verdict,
                                            correction |-> correction])
           /\ UNCHANGED <<run, results, invocations, job, crashes>>
  <1> DEFINE entry == [target |-> target, verdict |-> verdict, correction |-> correction]
  <1>1. target \in Nat \cup {Uncased}
    BY DEF TypeInvariant
  <1>2. correction \in Decisions \cup {"none"}
    BY DEF Corrections
  <1>3. entry \in FeedbackRow
    BY <1>1, <1>2 DEF FeedbackRow
  <1>4. /\ feedback' = Append(feedback, entry) /\ Len(feedback) < MaxFeedback
        /\ UNCHANGED <<run, results, invocations, job, crashes>>
    BY DEF GiveFeedback
  <1> HIDE DEF entry
  <1>5. feedback' \in Seq(FeedbackRow) /\ Len(feedback') <= MaxFeedback
    BY <1>3, <1>4, AppendProperties, EvaluationAssumption DEF EvaluationAssumption, TypeInvariant
  <1>6. TypeInvariant'
    BY <1>4, <1>5 DEF TypeInvariant
  <1> QED
    BY <1>3, <1>4, <1>6 DEF entry
-----------------------------------------------------------------------------
(* What a run has counted is what it has written and what waits *)

ScoredOf(r)        == {job[r].pending[i] : i \in DOMAIN job[r].pending}
PendingIn(r, good) == {i \in DOMAIN job[r].pending : job[r].pending[i] \in good}
Tally(r, good)     == Cardinality(ResultsOf(r) \cap good) + Cardinality(PendingIn(r, good))

Correct       == {row \in ResultRow : row.actual = row.expected}
FalsePositive == {row \in ResultRow : row.expected = "approve" /\ row.actual # "approve"}

Answered(r) == {i \in InvocationsOf(r) : ~Failed(i)}

\* A row is that of an invocation of its run.
IsAnswer(r, row) ==
    /\ row.invocation \in InvocationsOf(r)
    /\ invocations[row.invocation].case = row.case
    /\ invocations[row.invocation].decision = row.actual

ScoringInvariant(r) ==
    /\ run[r].status = "running"
    /\ job[r].at - 1 <= Len(run[r].selected)
    /\ job[r].at - 1 = Tally(r, ResultRow)
    /\ \A i \in DOMAIN job[r].pending : job[r].pending[i].run = r
    /\ \A k \in 1..(job[r].at - 1) :
           \E row \in ResultsOf(r) \cup ScoredOf(r) : row.case = run[r].selected[k]
    /\ job[r].counts.correct = Tally(r, Correct)
    /\ job[r].counts.falsePositive = Tally(r, FalsePositive)
    /\ job[r].counts.tokens = Cardinality(Answered(r))
    /\ job[r].failure <=> \E i \in InvocationsOf(r) : Failed(i)
    /\ Live(r) => /\ Cardinality(InvocationsOf(r)) = Cardinality(ResultsOf(r)) + Len(job[r].pending)
                  /\ Len(job[r].pending) <= 1
                  /\ \A row \in ScoredOf(r) : IsAnswer(r, row)

\* FinishedRunIsWhole and AnswersAreScored of one run.
EndedWhole(r) ==
    run[r].status \in {"completed", "partial_failure"} =>
        /\ Cardinality(ResultsOf(r)) = Len(run[r].selected)
        /\ \A i \in DOMAIN run[r].selected : \E row \in ResultsOf(r) : row.case = run[r].selected[i]
        /\ run[r].counts.correct = Cardinality({row \in ResultsOf(r) : row.actual = row.expected})
        /\ run[r].counts.falsePositive =
               Cardinality({row \in ResultsOf(r) : row.expected = "approve" /\ row.actual # "approve"})
        /\ run[r].counts.tokens = Cardinality({i \in InvocationsOf(r) : ~Failed(i)})
        /\ run[r].status = "partial_failure" <=> \E i \in InvocationsOf(r) : Failed(i)

Traced(r) ==
    Live(r) => /\ \A row \in ResultsOf(r) : IsAnswer(r, row)
               /\ Cardinality(InvocationsOf(r)) <= Cardinality(ResultsOf(r)) + 1

RunInvariant(r) ==
    /\ run[r].status = "none" => job[r].pc = "idle"
    /\ job[r].pc = "idle" => job[r] = NoJob /\ ResultsOf(r) = {} /\ InvocationsOf(r) = {}
    /\ job[r].pc # "scoring" => job[r].pending = <<>>
    /\ job[r].pc = "scoring" => ScoringInvariant(r)
    /\ run[r].status \in {"completed", "partial_failure"} => job[r].pc = "answered"
    /\ EndedWhole(r)
    /\ Traced(r)

LEMMA RowsAreFinite ==
    ASSUME TypeInvariant, NEW r \in Runs
    PROVE  /\ ResultsOf(r) \subseteq ResultRow
           /\ IsFiniteSet(ResultsOf(r)) /\ Cardinality(ResultsOf(r)) \in Nat
           /\ InvocationsOf(r) \subseteq 1..Len(invocations)
           /\ IsFiniteSet(InvocationsOf(r)) /\ Cardinality(InvocationsOf(r)) \in Nat
           /\ IsFiniteSet(Answered(r)) /\ Cardinality(Answered(r)) \in Nat
  <1>1. /\ results \in Seq(ResultRow) /\ Len(results) \in Nat /\ DOMAIN results = 1..Len(results)
        /\ Len(invocations) \in Nat /\ DOMAIN invocations = 1..Len(invocations)
    BY DEF TypeInvariant
  <1> DEFINE places == {j \in DOMAIN results : results[j].run = r}
             rows == [j \in places |-> results[j]]
  <1>2. IsFiniteSet(1..Len(results)) /\ IsFiniteSet(1..Len(invocations))
    BY <1>1, FS_Interval
  <1>3. IsFiniteSet(places)
    BY <1>1, <1>2, FS_Subset
  <1>4. rows \in Surjection(places, ResultsOf(r))
    BY DEF ResultsOf, Surjection
  <1>5. IsFiniteSet(ResultsOf(r))
    BY <1>3, <1>4, FS_Surjection
  <1>6. ResultsOf(r) \subseteq ResultRow
    BY <1>1 DEF ResultsOf
  <1>7. InvocationsOf(r) \subseteq 1..Len(invocations) /\ IsFiniteSet(InvocationsOf(r))
    BY <1>1, <1>2, FS_Subset DEF InvocationsOf
  <1>8. IsFiniteSet(Answered(r))
    BY <1>7, FS_Subset DEF Answered
  <1> QED
    BY <1>5, <1>6, <1>7, <1>8, FS_CardinalityType

LEMMA PendingIsFinite ==
    ASSUME TypeInvariant, NEW r \in Runs, NEW good
    PROVE  /\ job[r].pending \in Seq(ResultRow) /\ Len(job[r].pending) \in Nat
           /\ DOMAIN job[r].pending = 1..Len(job[r].pending)
           /\ ScoredOf(r) \subseteq ResultRow
           /\ PendingIn(r, good) \subseteq 1..Len(job[r].pending)
           /\ IsFiniteSet(PendingIn(r, good)) /\ Cardinality(PendingIn(r, good)) \in Nat
           /\ IsFiniteSet(ResultsOf(r) \cap good) /\ Cardinality(ResultsOf(r) \cap good) \in Nat
  <1>1. /\ job[r].pending \in Seq(ResultRow) /\ Len(job[r].pending) \in Nat
        /\ DOMAIN job[r].pending = 1..Len(job[r].pending)
    BY DEF TypeInvariant, Job
  <1>2. ScoredOf(r) \subseteq ResultRow
    BY <1>1 DEF ScoredOf
  <1>3. PendingIn(r, good) \subseteq 1..Len(job[r].pending)
    BY <1>1 DEF PendingIn
  <1>4. IsFiniteSet(PendingIn(r, good))
    <2>1. IsFiniteSet(1..Len(job[r].pending))
      BY <1>1, FS_Interval
    <2> QED
      BY <1>3, <2>1, FS_Subset
  <1>5. IsFiniteSet(ResultsOf(r) \cap good)
    BY RowsAreFinite, FS_Intersection
  <1> QED
    BY <1>1, <1>2, <1>3, <1>4, <1>5, FS_CardinalityType

LEMMA CountedUpTo == ASSUME NEW n \in Nat PROVE Cardinality(1..n) = n
  BY FS_Interval

LEMMA TallyIsNatural ==
    ASSUME TypeInvariant, NEW r \in Runs, NEW good
    PROVE  Tally(r, good) \in Nat
  <1>1. Cardinality(ResultsOf(r) \cap good) \in Nat /\ Cardinality(PendingIn(r, good)) \in Nat
    BY PendingIsFinite
  <1> QED
    BY <1>1 DEF Tally

\* The rows behind a commit: those before, in their places, and what waited.
LEMMA FlushedAt ==
    ASSUME TypeInvariant, NEW r \in Runs
    PROVE  /\ DOMAIN Flushed(r) = 1..(Len(results) + Len(job[r].pending))
           /\ \A i \in 1..Len(results) : Flushed(r)[i] = results[i]
           /\ \A i \in 1..Len(job[r].pending) : Flushed(r)[Len(results) + i] = job[r].pending[i]
           /\ \A i \in DOMAIN Flushed(r) :
                  \/ i \in 1..Len(results)
                  \/ \E k \in 1..Len(job[r].pending) : i = Len(results) + k
  <1> DEFINE old == results
             new == job[r].pending
  <1>1. old \in Seq(ResultRow) /\ new \in Seq(ResultRow) /\ Len(old) \in Nat /\ Len(new) \in Nat
    BY DEF TypeInvariant, Job
  <1>2. Flushed(r) = old \o new
    BY DEF Flushed
  <1> HIDE DEF old, new
  <1>3. /\ old \o new \in Seq(ResultRow) /\ Len(old \o new) = Len(old) + Len(new)
        /\ \A i \in 1..(Len(old) + Len(new)) :
               (old \o new)[i] = IF i <= Len(old) THEN old[i] ELSE new[i - Len(old)]
    BY <1>1, ConcatProperties
  <1>4. DOMAIN (old \o new) = 1..(Len(old) + Len(new))
    BY <1>3
  <1> DEFINE all == old \o new
  <1> HIDE DEF all
  <1>5. \A i \in 1..Len(new) : all[Len(old) + i] = new[i]
    <2> SUFFICES ASSUME NEW i \in 1..Len(new) PROVE all[Len(old) + i] = new[i]
      OBVIOUS
    <2>1. /\ Len(old) + i \in 1..(Len(old) + Len(new)) /\ ~ (Len(old) + i <= Len(old))
          /\ (Len(old) + i) - Len(old) = i
      BY <1>1
    <2> QED
      BY <1>3, <2>1 DEF all
  <1>6. \A i \in 1..(Len(old) + Len(new)) :
            i \in 1..Len(old) \/ \E k \in 1..Len(new) : i = Len(old) + k
    <2> SUFFICES ASSUME NEW i \in 1..(Len(old) + Len(new)), i \notin 1..Len(old)
                 PROVE  \E k \in 1..Len(new) : i = Len(old) + k
      OBVIOUS
    <2>1. i - Len(old) \in 1..Len(new) /\ i = Len(old) + (i - Len(old))
      BY <1>1
    <2> QED
      BY <2>1
  <1>7. \A i \in 1..Len(old) : all[i] = old[i]
    BY <1>1, <1>3 DEF all
  <1> QED
    BY <1>2, <1>4, <1>5, <1>6, <1>7 DEF all, old, new

LEMMA FlushedRows ==
    ASSUME TypeInvariant, NEW r \in Runs, results' = Flushed(r),
           \A i \in DOMAIN job[r].pending : job[r].pending[i].run = r
    PROVE  /\ ResultsOf(r)' = ResultsOf(r) \cup ScoredOf(r)
           /\ \A q \in Runs \ {r} : ResultsOf(q)' = ResultsOf(q)
  <1> DEFINE n == Len(results)
             m == Len(job[r].pending)
  <1>1. n \in Nat /\ m \in Nat /\ DOMAIN results = 1..n /\ DOMAIN job[r].pending = 1..m
    BY PendingIsFinite DEF TypeInvariant
  <1>2. /\ DOMAIN results' = 1..(n + m)
        /\ \A i \in 1..n : results'[i] = results[i]
        /\ \A i \in 1..m : results'[n + i] = job[r].pending[i]
        /\ \A i \in DOMAIN results' : i \in 1..n \/ \E k \in 1..m : i = n + k
    BY FlushedAt
  <1> HIDE DEF n, m
  <1>3. 1..n \subseteq DOMAIN results' /\ \A i \in 1..m : n + i \in DOMAIN results'
    BY <1>1, <1>2
  <1>4. \A q \in Runs : ResultsOf(q)' = {results'[i] : i \in {j \in DOMAIN results' : results'[j].run = q}}
    BY DEF ResultsOf
  <1>5. ASSUME NEW row \in ResultsOf(r)' PROVE row \in ResultsOf(r) \cup ScoredOf(r)
    <2>1. PICK i \in DOMAIN results' : row = results'[i] /\ results'[i].run = r
      BY <1>4, <1>5
    <2>2. CASE i \in 1..n
      BY <1>1, <1>2, <2>1, <2>2 DEF ResultsOf
    <2>3. CASE \E k \in 1..m : i = n + k
      BY <1>1, <1>2, <2>1, <2>3 DEF ScoredOf
    <2> QED
      BY <1>2, <2>2, <2>3
  <1>6. ASSUME NEW row \in ResultsOf(r) \cup ScoredOf(r) PROVE row \in ResultsOf(r)'
    <2>1. CASE row \in ResultsOf(r)
      <3>1. PICK i \in 1..n : row = results[i] /\ results[i].run = r
        BY <1>1, <2>1 DEF ResultsOf
      <3> QED
        BY <1>2, <1>3, <1>4, <3>1
    <2>2. CASE row \in ScoredOf(r)
      <3>1. PICK k \in 1..m : row = job[r].pending[k]
        BY <1>1, <2>2 DEF ScoredOf
      <3>2. n + k \in DOMAIN results' /\ results'[n + k] = row /\ row.run = r
        BY <1>1, <1>2, <1>3, <3>1
      <3> QED
        BY <1>4, <3>2
    <2> QED
      BY <1>6, <2>1, <2>2
  <1>7. ASSUME NEW q \in Runs \ {r} PROVE ResultsOf(q)' = ResultsOf(q)
    <2>1. ASSUME NEW row \in ResultsOf(q)' PROVE row \in ResultsOf(q)
      <3>1. PICK i \in DOMAIN results' : row = results'[i] /\ results'[i].run = q
        BY <1>4, <2>1
      <3>2. CASE i \in 1..n
        BY <1>1, <1>2, <3>1, <3>2 DEF ResultsOf
      <3>3. CASE \E k \in 1..m : i = n + k
        BY <1>1, <1>2, <3>1, <3>3
      <3> QED
        BY <1>2, <3>2, <3>3
    <2>2. ASSUME NEW row \in ResultsOf(q) PROVE row \in ResultsOf(q)'
      <3>1. PICK i \in 1..n : row = results[i] /\ results[i].run = q
        BY <1>1, <2>2 DEF ResultsOf
      <3> QED
        BY <1>2, <1>3, <1>4, <3>1
    <2> QED
      BY <2>1, <2>2
  <1> QED
    BY <1>5, <1>6, <1>7

\* The unique constraint makes the rows as many as the positions were.
LEMMA FlushTally ==
    ASSUME TypeInvariant, NEW r \in Runs, Unique(Flushed(r)), NEW good,
           \A i \in DOMAIN job[r].pending : job[r].pending[i].run = r
    PROVE  Cardinality((ResultsOf(r) \cup ScoredOf(r)) \cap good) = Tally(r, good)
  <1> DEFINE n == Len(results)
             m == Len(job[r].pending)
             pending == job[r].pending
             written == ResultsOf(r) \cap good
             waiting == ScoredOf(r) \cap good
             places == PendingIn(r, good)
             f == [i \in places |-> pending[i]]
  <1>1. n \in Nat /\ m \in Nat /\ DOMAIN results = 1..n /\ DOMAIN pending = 1..m
    BY PendingIsFinite DEF TypeInvariant
  <1>2. /\ \A i \in 1..n : i \in DOMAIN Flushed(r) /\ Flushed(r)[i] = results[i]
        /\ \A i \in 1..m : n + i \in DOMAIN Flushed(r) /\ Flushed(r)[n + i] = pending[i]
    BY <1>1, FlushedAt
  <1> HIDE DEF n, m, pending
  <1>3. ASSUME NEW i \in 1..m, NEW j \in 1..m, pending[i] = pending[j] PROVE i = j
    <2>1. n + i = n + j
      BY <1>2, <1>3 DEF Unique
    <2> QED
      BY <1>1, <2>1
  <1>4. written \cap waiting = {}
    <2> SUFFICES ASSUME NEW row \in written, row \in waiting PROVE FALSE
      OBVIOUS
    <2>1. PICK i \in 1..n : row = results[i]
      BY <1>1 DEF ResultsOf
    <2>2. PICK k \in 1..m : row = pending[k]
      BY <1>1 DEF ScoredOf, pending
    <2>3. i \in DOMAIN Flushed(r) /\ n + k \in DOMAIN Flushed(r) /\ Flushed(r)[i] = Flushed(r)[n + k]
      BY <1>2, <2>1, <2>2
    <2>4. i = n + k
      BY <2>3 DEF Unique
    <2> QED
      BY <1>1, <2>4
  <1>5. f \in Bijection(places, waiting)
    <2>1. places \subseteq 1..m
      BY <1>1 DEF PendingIn, pending
    <2>2. \A i \in places : pending[i] \in waiting
      BY DEF PendingIn, ScoredOf, pending
    <2>3. \A row \in waiting : \E i \in places : row = pending[i]
      BY DEF PendingIn, ScoredOf, pending
    <2> HIDE DEF places, waiting
    <2>4. f \in [places -> waiting] /\ \A i \in places : f[i] = pending[i]
      BY <2>2
    <2>5. \A i, j \in places : f[i] = f[j] => i = j
      BY <1>3, <2>1, <2>4
    <2> HIDE DEF f
    <2>6. f \in Injection(places, waiting)
      BY <2>4, <2>5 DEF Injection, IsInjective
    <2>7. f \in Surjection(places, waiting)
      BY <2>3, <2>4 DEF Surjection
    <2> QED
      BY <2>6, <2>7 DEF Bijection
  <1>6. /\ IsFiniteSet(places) /\ IsFiniteSet(written)
        /\ Cardinality(places) \in Nat /\ Cardinality(written) \in Nat
    BY PendingIsFinite
  <1>7. IsFiniteSet(waiting) /\ Cardinality(waiting) = Cardinality(places)
    <2> HIDE DEF places, waiting, f
    <2>1. ExistsBijection(places, waiting)
      BY <1>5 DEF ExistsBijection
    <2> QED
      BY <1>6, <2>1, FS_Bijection
  <1>8. (ResultsOf(r) \cup ScoredOf(r)) \cap good = written \cup waiting
    OBVIOUS
  <1>9. Tally(r, good) = Cardinality(written) + Cardinality(places)
    BY DEF Tally
  <1> HIDE DEF written, waiting, places
  <1>10. Cardinality(written \cup waiting) = Cardinality(written) + Cardinality(waiting) - 0
    BY <1>4, <1>6, <1>7, FS_Union, FS_EmptySet
  <1>11. Cardinality(written \cup waiting) = Cardinality(written) + Cardinality(places)
    BY <1>6, <1>7, <1>10
  <1> QED
    BY <1>8, <1>9, <1>11, Zenon

\* A run is left alone by what happens to others: its rows stay, and its
\* invocations, wherever the logs have grown.
LEMMA LeftAlone ==
    ASSUME TypeInvariant, NEW r \in Runs, RunInvariant(r),
           run'[r] = run[r], job'[r] = job[r],
           ResultsOf(r)' = ResultsOf(r), InvocationsOf(r)' = InvocationsOf(r),
           \A i \in InvocationsOf(r) : invocations'[i] = invocations[i]
    PROVE  RunInvariant(r)'
  <1>1. (\E i \in InvocationsOf(r) : Failed(i))' <=> \E i \in InvocationsOf(r) : Failed(i)
    BY DEF Failed
  <1>2. Answered(r)' = Answered(r)
    BY DEF Answered, Failed
  <1>3. \A good : Tally(r, good)' = Tally(r, good)
    BY DEF Tally, PendingIn
  <1>4. ScoredOf(r)' = ScoredOf(r) /\ (Live(r)' <=> Live(r))
    BY DEF ScoredOf, Live
  <1>5. \A row : IsAnswer(r, row) => IsAnswer(r, row)'
    BY DEF IsAnswer
  <1>6. ScoringInvariant(r) => ScoringInvariant(r)'
    BY <1>1, <1>2, <1>3, <1>4, <1>5 DEF ScoringInvariant
  <1>7. EndedWhole(r)'
    <2>1. EndedWhole(r)
      BY DEF RunInvariant
    <2>2. {i \in InvocationsOf(r) : ~Failed(i)}' = {i \in InvocationsOf(r) : ~Failed(i)}
      BY <1>2 DEF Answered
    <2> QED
      BY <1>1, <2>1, <2>2 DEF EndedWhole
  <1>8. Traced(r)'
    BY <1>4, <1>5 DEF RunInvariant, Traced
  <1> QED
    BY <1>6, <1>7, <1>8 DEF RunInvariant

\* One more case is scored, and its row waits.
LEMMA OneMoreScored ==
    ASSUME TypeInvariant, NEW r \in Runs, Scoring(r), ScoringInvariant(r),
           NEW actual \in Decisions, NEW n \in Nat, NEW tokens \in {0, 1},
           run' = run, job'[r].at = job[r].at + 1,
           job'[r].counts = Counted(job[r].counts, CurrentCase(r), actual, tokens),
           \A good : Tally(r, good)' = Tally(r, good)
                        + (IF Row(r, CurrentCase(r), actual, n) \in good THEN 1 ELSE 0),
           (ResultsOf(r) \cup ScoredOf(r))' =
               ResultsOf(r) \cup ScoredOf(r) \cup {Row(r, CurrentCase(r), actual, n)}
    PROVE  /\ run'[r].status = "running"
           /\ job'[r].at - 1 <= Len(run'[r].selected)
           /\ job'[r].at - 1 = Tally(r, ResultRow)'
           /\ \A k \in 1..(job'[r].at - 1) :
                  \E row \in (ResultsOf(r) \cup ScoredOf(r))' : row.case = run'[r].selected[k]
           /\ job'[r].counts.correct = Tally(r, Correct)'
           /\ job'[r].counts.falsePositive = Tally(r, FalsePositive)'
           /\ job'[r].counts.tokens = job[r].counts.tokens + tokens
  <1> DEFINE row == Row(r, CurrentCase(r), actual, n)
             at == job[r].at
  <1>1. /\ at \in 1..Len(run[r].selected) /\ job[r].counts \in Counts
        /\ CurrentCase(r).id = run[r].selected[at] /\ CurrentCase(r).expected \in Decisions
        /\ Len(run[r].selected) \in Nat
    BY CaseUnderWay DEF Job, RunRow
  <1>2. /\ row \in ResultRow /\ row.case = run[r].selected[at]
        /\ row.actual = actual /\ row.expected = CurrentCase(r).expected
    BY <1>1, RowIsTyped DEF Row
  <1>3. \A good : Tally(r, good) \in Nat
    BY TallyIsNatural
  <1>4. row \in Correct <=> actual = CurrentCase(r).expected
    BY <1>2 DEF Correct
  <1>5. row \in FalsePositive <=> CurrentCase(r).expected = "approve" /\ actual # "approve"
    BY <1>2 DEF FalsePositive
  <1>6. \A good : Tally(r, good)' = Tally(r, good) + (IF row \in good THEN 1 ELSE 0)
    OBVIOUS
  <1>7. (ResultsOf(r) \cup ScoredOf(r))' = ResultsOf(r) \cup ScoredOf(r) \cup {row}
    OBVIOUS
  <1>8. job'[r].at = at + 1 /\ at - 1 = Tally(r, ResultRow)
    BY DEF ScoringInvariant
  <1> HIDE DEF row, at
  <1>9. job'[r].at - 1 <= Len(run'[r].selected) /\ job'[r].at - 1 = Tally(r, ResultRow)'
    <2>1. Tally(r, ResultRow)' = Tally(r, ResultRow) + 1
      BY <1>2, <1>6
    <2> QED
      BY <1>1, <1>3, <1>8, <2>1
  <1>10. ASSUME NEW k \in 1..(job'[r].at - 1)
         PROVE  \E x \in (ResultsOf(r) \cup ScoredOf(r))' : x.case = run'[r].selected[k]
    <2>1. CASE k = at
      BY <1>2, <1>7, <2>1
    <2>2. CASE k # at
      <3>1. k \in 1..(at - 1)
        BY <1>1, <1>8, <2>2
      <3>2. PICK x \in ResultsOf(r) \cup ScoredOf(r) : x.case = run[r].selected[k]
        BY <3>1 DEF ScoringInvariant, at
      <3> QED
        BY <1>7, <3>2
    <2> QED
      BY <2>1, <2>2
  <1>11. /\ job'[r].counts.correct = job[r].counts.correct
                                     + (IF row \in Correct THEN 1 ELSE 0)
         /\ job'[r].counts.falsePositive = job[r].counts.falsePositive
                                     + (IF row \in FalsePositive THEN 1 ELSE 0)
         /\ job'[r].counts.tokens = job[r].counts.tokens + tokens
    BY <1>4, <1>5 DEF Counted
  <1>12. /\ job[r].counts.correct = Tally(r, Correct)
         /\ job[r].counts.falsePositive = Tally(r, FalsePositive)
    BY DEF ScoringInvariant
  <1>13. /\ job'[r].counts.correct = Tally(r, Correct)'
         /\ job'[r].counts.falsePositive = Tally(r, FalsePositive)'
    BY <1>6, <1>11, <1>12
  <1> QED
    BY <1>9, <1>10, <1>11, <1>13 DEF ScoringInvariant

LEMMA RulesKeepRun ==
    ASSUME TypeInvariant, NEW r \in Runs, RunInvariant(r), ScoreByRules(r)
    PROVE  RunInvariant(r)'
  <1> DEFINE case == CurrentCase(r)
             actual == DeterministicDecision(case)
             row == Row(r, case, actual, 0)
             m == Len(job[r].pending)
             pending == job[r].pending
  <1>1. /\ row \in ResultRow /\ row.run = r /\ row.actual = actual
        /\ job'[r].pending = Append(pending, row)
        /\ job'[r].counts = Counted(job[r].counts, case, actual, 0)
        /\ job'[r].at = job[r].at + 1
        /\ job'[r].pc = job[r].pc /\ job'[r].failure = job[r].failure
        /\ run' = run /\ results' = results /\ invocations' = invocations
    BY RulesTyped DEF Row
  <1>2. Scoring(r) /\ ~Live(r) /\ job[r].pc = "scoring"
    BY DEF ScoreByRules, Scoring
  <1>3. ScoringInvariant(r) /\ EndedWhole(r)
    BY <1>2 DEF RunInvariant
  <1>4. pending \in Seq(ResultRow) /\ m \in Nat /\ DOMAIN pending = 1..m
    BY PendingIsFinite
  <1>5. /\ DOMAIN job'[r].pending = 1..(m + 1)
        /\ \A i \in 1..m : job'[r].pending[i] = pending[i]
        /\ job'[r].pending[m + 1] = row
    BY <1>1, <1>4, AppendProperties
  <1>6. ResultsOf(r)' = ResultsOf(r) /\ InvocationsOf(r)' = InvocationsOf(r)
    BY <1>1 DEF ResultsOf, InvocationsOf
  <1>7. ScoredOf(r)' = ScoredOf(r) \cup {row}
    <2>1. 1..(m + 1) = 1..m \cup {m + 1}
      BY <1>4
    <2> HIDE DEF m, pending, row
    <2>2. ScoredOf(r)' = {job'[r].pending[i] : i \in 1..m} \cup {row}
      BY <1>5, <2>1 DEF ScoredOf
    <2>3. ScoredOf(r) = {pending[i] : i \in 1..m}
      BY <1>4 DEF ScoredOf, pending
    <2> QED
      BY <1>5, <2>2, <2>3
  <1>8. ASSUME NEW good
        PROVE  Tally(r, good)' = Tally(r, good) + (IF row \in good THEN 1 ELSE 0)
    <2>1. /\ PendingIn(r, good) \subseteq 1..m /\ IsFiniteSet(PendingIn(r, good))
          /\ Cardinality(PendingIn(r, good)) \in Nat
          /\ Cardinality(ResultsOf(r) \cap good) \in Nat
      BY PendingIsFinite
    <2> HIDE DEF m, pending, row
    <2>2. PendingIn(r, good)' = PendingIn(r, good) \cup (IF row \in good THEN {m + 1} ELSE {})
      <3>1. PendingIn(r, good)' = {i \in 1..(m + 1) : job'[r].pending[i] \in good}
        BY <1>5 DEF PendingIn
      <3>2. PendingIn(r, good) = {i \in 1..m : pending[i] \in good}
        BY <1>4 DEF PendingIn, pending
      <3>3. 1..(m + 1) = 1..m \cup {m + 1}
        BY <1>4
      <3>4. \A i \in 1..m : job'[r].pending[i] \in good <=> pending[i] \in good
        BY <1>5
      <3>5. job'[r].pending[m + 1] \in good <=> row \in good
        BY <1>5
      <3> QED
        BY <3>1, <3>2, <3>3, <3>4, <3>5
    <2>3. m + 1 \notin PendingIn(r, good)
      BY <1>4, <2>1
    <2>4. Cardinality(PendingIn(r, good)') = Cardinality(PendingIn(r, good)) + (IF row \in good THEN 1 ELSE 0)
      <3>1. CASE row \in good
        BY <2>1, <2>2, <2>3, <3>1, FS_AddElement
      <3>2. CASE row \notin good
        <4>1. PendingIn(r, good)' = PendingIn(r, good)
          BY <2>2, <3>2
        <4> QED
          BY <2>1, <3>2, <4>1
      <3> QED
        BY <3>1, <3>2
    <2> QED
      BY <1>6, <2>1, <2>4 DEF Tally
  <1>9. (ResultsOf(r) \cup ScoredOf(r))' = ResultsOf(r) \cup ScoredOf(r) \cup {row}
    BY <1>6, <1>7
  <1>10. /\ run'[r].status = "running"
         /\ job'[r].at - 1 <= Len(run'[r].selected)
         /\ job'[r].at - 1 = Tally(r, ResultRow)'
         /\ \A k \in 1..(job'[r].at - 1) :
                \E x \in (ResultsOf(r) \cup ScoredOf(r))' : x.case = run'[r].selected[k]
         /\ job'[r].counts.correct = Tally(r, Correct)'
         /\ job'[r].counts.falsePositive = Tally(r, FalsePositive)'
         /\ job'[r].counts.tokens = job[r].counts.tokens + 0
    <2>1. actual \in Decisions /\ 0 \in Nat /\ 0 \in {0, 1}
      BY DecisionsAreNormal
    <2> QED
      BY <1>1, <1>2, <1>3, <1>8, <1>9, <2>1, OneMoreScored
  <1>11. job'[r].counts.tokens = Cardinality(Answered(r))'
    <2>1. Answered(r)' = Answered(r)
      BY <1>1, <1>6 DEF Answered, Failed
    <2>2. job[r].counts.tokens \in Nat
      BY DEF TypeInvariant, Job, Counts
    <2> QED
      BY <1>3, <1>10, <2>1, <2>2 DEF ScoringInvariant
  <1>12. \A i \in DOMAIN job'[r].pending : job'[r].pending[i].run = r
    <2> HIDE DEF m, pending, row
    <2>1. \A i \in 1..m : pending[i].run = r
      BY <1>3, <1>4 DEF ScoringInvariant, pending
    <2>2. \A i \in 1..(m + 1) : i \in 1..m \/ i = m + 1
      BY <1>4
    <2> QED
      BY <1>1, <1>5, <2>1, <2>2
  <1>13. job'[r].failure <=> (\E i \in InvocationsOf(r) : Failed(i))'
    BY <1>1, <1>3, <1>6 DEF ScoringInvariant, Failed
  <1>14. ~Live(r)' /\ Traced(r)'
    BY <1>1, <1>2 DEF Live, Traced
  <1>15. ScoringInvariant(r)'
    BY <1>10, <1>11, <1>12, <1>13, <1>14 DEF ScoringInvariant
  <1>16. EndedWhole(r)'
    BY <1>10 DEF EndedWhole
  <1> QED
    BY <1>1, <1>2, <1>10, <1>14, <1>15, <1>16 DEF RunInvariant

LEMMA ModelKeepsRun ==
    ASSUME TypeInvariant, NEW r \in Runs, NEW reply, RunInvariant(r), ScoreByModel(r, reply)
    PROVE  RunInvariant(r)'
  <1> DEFINE case == CurrentCase(r)
             actual == NormalizedDecision(reply)
             tokens == IF reply = "none" THEN 0 ELSE 1
             status == IF reply = "none" THEN "failed" ELSE "success"
             entry == [run |-> r, case |-> case.id, status |-> status,
                       decision |-> actual, tokens |-> tokens]
  <1>n. PICK n \in Nat : n = Len(invocations) + 1
    BY DEF TypeInvariant
  <1>r. PICK row \in ResultRow : row = Row(r, case, actual, n)
    BY <1>n, ModelTyped
  <1>1. /\ job'[r].pending = <<row>>
        /\ job'[r].counts = Counted(job[r].counts, case, actual, tokens)
        /\ job'[r].at = job[r].at + 1
        /\ job'[r].pc = job[r].pc
        /\ job'[r].failure = (job[r].failure \/ status = "failed")
        /\ invocations' = Append(invocations, entry)
        /\ results' = Flushed(r) /\ run' = run
    BY <1>n, <1>r, ModelTyped
  <1>2. Scoring(r) /\ Live(r) /\ job[r].pc = "scoring" /\ Unique(Flushed(r))
    BY DEF ScoreByModel, Scoring
  <1>3. ScoringInvariant(r) /\ Traced(r)
    BY <1>2 DEF RunInvariant
  <1>4. \A i \in DOMAIN job[r].pending : job[r].pending[i].run = r
    BY <1>3 DEF ScoringInvariant
  <1>5. ResultsOf(r)' = ResultsOf(r) \cup ScoredOf(r)
    BY <1>1, <1>4, FlushedRows
  <1>6. row.run = r /\ row.case = case.id /\ row.actual = actual /\ row.invocation = n
    BY <1>r DEF Row
  <1>7. entry.run = r /\ entry.case = case.id /\ entry.decision = actual /\ entry.status = status
    OBVIOUS
  <1>8. actual \in Decisions /\ n \in Nat /\ tokens \in {0, 1} /\ Len(invocations) \in Nat
    BY DecisionsAreNormal DEF TypeInvariant
  <1>9. (status = "failed" <=> tokens = 0) /\ status \in {"failed", "success"}
    OBVIOUS
  <1> HIDE DEF entry, tokens, status, actual, case
  <1>10. /\ DOMAIN invocations' = 1..n
         /\ \A i \in 1..Len(invocations) : invocations'[i] = invocations[i]
         /\ invocations'[n] = entry
         /\ 1..n = 1..Len(invocations) \cup {n} /\ n \notin 1..Len(invocations)
    <2>1. invocations \in Seq(InvocationRow) /\ entry \in InvocationRow
      <3>1. invocations' \in Seq(InvocationRow)
        BY ModelTyped DEF TypeInvariant
      <3>2. invocations \in Seq(InvocationRow)
        BY DEF TypeInvariant
      <3>3. case.id \in CaseIds
        BY <1>2, CaseUnderWay DEF case
      <3>4. entry = [run |-> r, case |-> case.id, status |-> status,
                     decision |-> actual, tokens |-> tokens]
        BY DEF entry
      <3> QED
        BY <1>8, <1>9, <3>2, <3>3, <3>4 DEF InvocationRow
    <2>2. /\ Len(invocations') = Len(invocations) + 1
          /\ \A i \in 1..Len(invocations) : invocations'[i] = invocations[i]
          /\ invocations'[Len(invocations) + 1] = entry
          /\ invocations' \in Seq(InvocationRow)
      BY <1>1, <2>1, AppendProperties
    <2>3. DOMAIN invocations' = 1..n /\ invocations'[n] = entry
      BY <1>n, <2>2
    <2>4. 1..n = 1..Len(invocations) \cup {n} /\ n \notin 1..Len(invocations)
      BY <1>8, <1>n
    <2> QED
      BY <2>2, <2>3, <2>4
  <1>11. /\ InvocationsOf(r) \subseteq 1..Len(invocations)
         /\ InvocationsOf(r)' = InvocationsOf(r) \cup {n}
         /\ n \notin InvocationsOf(r)
    <2>1. InvocationsOf(r) = {i \in 1..Len(invocations) : invocations[i].run = r}
      BY DEF InvocationsOf, TypeInvariant
    <2>2. InvocationsOf(r)' = {i \in 1..n : invocations'[i].run = r}
      BY <1>10 DEF InvocationsOf
    <2> QED
      BY <1>7, <1>10, <2>1, <2>2
  <1>12. /\ \A i \in InvocationsOf(r) : Failed(i)' <=> Failed(i)
         /\ Failed(n)' <=> status = "failed"
    BY <1>7, <1>10, <1>11 DEF Failed
  <1>13. Answered(r)' = Answered(r) \cup (IF tokens = 1 THEN {n} ELSE {})
    <2>1. Answered(r)' = {i \in InvocationsOf(r)' : ~ Failed(i)'}
      BY DEF Answered
    <2>2. tokens = 1 <=> ~ (status = "failed")
      BY <1>8, <1>9
    <2> QED
      BY <1>11, <1>12, <2>1, <2>2 DEF Answered
  <1>14. ASSUME NEW good
         PROVE  Tally(r, good)' = Tally(r, good) + (IF row \in good THEN 1 ELSE 0)
    <2>1. Cardinality((ResultsOf(r) \cup ScoredOf(r)) \cap good) = Tally(r, good)
      BY <1>2, <1>4, FlushTally
    <2>2. Cardinality(ResultsOf(r)' \cap good) = Tally(r, good)
      BY <1>5, <2>1
    <2>3. PendingIn(r, good)' = IF row \in good THEN {1} ELSE {}
      <3>1. DOMAIN job'[r].pending = {1} /\ job'[r].pending[1] = row
        BY <1>1
      <3> QED
        BY <3>1 DEF PendingIn
    <2>4. Cardinality(PendingIn(r, good)') = IF row \in good THEN 1 ELSE 0
      BY <2>3, FS_EmptySet, FS_Singleton
    <2> QED
      BY <2>2, <2>4 DEF Tally
  <1>15. ScoredOf(r)' = {row}
    <2>1. DOMAIN job'[r].pending = {1} /\ job'[r].pending[1] = row
      BY <1>1
    <2> QED
      BY <2>1 DEF ScoredOf
  <1>16. (ResultsOf(r) \cup ScoredOf(r))' = ResultsOf(r) \cup ScoredOf(r) \cup {row}
    BY <1>5, <1>15
  <1>17. /\ run'[r].status = "running"
         /\ job'[r].at - 1 <= Len(run'[r].selected)
         /\ job'[r].at - 1 = Tally(r, ResultRow)'
         /\ \A k \in 1..(job'[r].at - 1) :
                \E x \in (ResultsOf(r) \cup ScoredOf(r))' : x.case = run'[r].selected[k]
         /\ job'[r].counts.correct = Tally(r, Correct)'
         /\ job'[r].counts.falsePositive = Tally(r, FalsePositive)'
         /\ job'[r].counts.tokens = job[r].counts.tokens + tokens
    BY <1>1, <1>2, <1>3, <1>8, <1>14, <1>16, <1>r, OneMoreScored DEF case
  <1>18. job'[r].counts.tokens = Cardinality(Answered(r))'
    <2>1. /\ IsFiniteSet(Answered(r)) /\ Cardinality(Answered(r)) \in Nat
          /\ n \notin Answered(r)
      BY <1>11, RowsAreFinite DEF Answered
    <2>2. Cardinality(Answered(r)') = Cardinality(Answered(r)) + tokens
      <3>1. CASE tokens = 1
        BY <1>13, <2>1, <3>1, FS_AddElement
      <3>2. CASE tokens = 0
        <4>1. Answered(r)' = Answered(r)
          BY <1>13, <3>2
        <4> QED
          BY <2>1, <3>2, <4>1
      <3> QED
        BY <1>8, <3>1, <3>2
    <2>3. job[r].counts.tokens = Cardinality(Answered(r))
      BY <1>3 DEF ScoringInvariant
    <2> QED
      BY <1>17, <2>2, <2>3
  <1>19. \A i \in DOMAIN job'[r].pending : job'[r].pending[i].run = r
    BY <1>1, <1>6
  <1>20. job'[r].failure <=> (\E i \in InvocationsOf(r) : Failed(i))'
    <2>1. job[r].failure <=> \E i \in InvocationsOf(r) : Failed(i)
      BY <1>3 DEF ScoringInvariant
    <2>2. (\E i \in InvocationsOf(r) : Failed(i))' <=> \E i \in InvocationsOf(r)' : Failed(i)'
      OBVIOUS
    <2> QED
      BY <1>1, <1>11, <1>12, <2>1, <2>2
  <1>21. \A x : IsAnswer(r, x) => IsAnswer(r, x)'
    BY <1>10, <1>11 DEF IsAnswer
  <1>22. IsAnswer(r, row)'
    BY <1>6, <1>7, <1>10, <1>11 DEF IsAnswer
  <1>23. Live(r)' /\ \A x \in ResultsOf(r)' : IsAnswer(r, x)'
    <2>1. Live(r)'
      BY <1>1, <1>2 DEF Live
    <2>2. \A x \in ScoredOf(r) : IsAnswer(r, x)
      BY <1>2, <1>3 DEF ScoringInvariant
    <2>3. \A x \in ResultsOf(r) : IsAnswer(r, x)
      BY <1>2, <1>3 DEF Traced
    <2> QED
      BY <1>5, <1>21, <2>1, <2>2, <2>3
  <1>24. /\ Cardinality(InvocationsOf(r))' = Cardinality(ResultsOf(r))' + 1
         /\ Len(job'[r].pending) = 1 /\ Cardinality(ResultsOf(r))' \in Nat
    <2>1. Len(job'[r].pending) = 1
      BY <1>1
    <2>2. Cardinality(InvocationsOf(r)') = Cardinality(InvocationsOf(r)) + 1
      BY <1>11, RowsAreFinite, FS_AddElement
    <2>3. Cardinality(InvocationsOf(r)) = Cardinality(ResultsOf(r)) + Len(job[r].pending)
      BY <1>2, <1>3 DEF ScoringInvariant
    <2>4. /\ Cardinality(ResultsOf(r)') = Cardinality(ResultsOf(r)) + Len(job[r].pending)
          /\ Cardinality(ResultsOf(r)') \in Nat
      <3>1. (ResultsOf(r) \cup ScoredOf(r)) \cap ResultRow = ResultsOf(r)'
        BY <1>5, RowsAreFinite, PendingIsFinite
      <3>2. ResultsOf(r) \cap ResultRow = ResultsOf(r)
        BY RowsAreFinite
      <3>3. PendingIn(r, ResultRow) = 1..Len(job[r].pending)
        <4>1. /\ job[r].pending \in Seq(ResultRow)
              /\ DOMAIN job[r].pending = 1..Len(job[r].pending)
          BY PendingIsFinite
        <4> QED
          BY <4>1 DEF PendingIn
      <3>4. Len(job[r].pending) \in Nat /\ Cardinality(ResultsOf(r)) \in Nat
        BY PendingIsFinite, RowsAreFinite
      <3>5. Cardinality(1..Len(job[r].pending)) = Len(job[r].pending)
        BY <3>4, CountedUpTo
      <3>6. Cardinality((ResultsOf(r) \cup ScoredOf(r)) \cap ResultRow) = Tally(r, ResultRow)
        BY <1>2, <1>4, FlushTally
      <3>7. Tally(r, ResultRow) = Cardinality(ResultsOf(r)) + Len(job[r].pending)
        BY <3>2, <3>3, <3>5 DEF Tally
      <3> QED
        <4>1. Cardinality(ResultsOf(r)') = Cardinality(ResultsOf(r)) + Len(job[r].pending)
          BY <3>1, <3>6, <3>7, Zenon
        <4> QED
          BY <3>4, <4>1
    <2> QED
      BY <2>1, <2>2, <2>3, <2>4
  <1>25. ScoringInvariant(r)'
    <2>1. \A x \in ScoredOf(r)' : IsAnswer(r, x)'
      BY <1>15, <1>22
    <2> QED
      BY <1>17, <1>18, <1>19, <1>20, <1>24, <2>1 DEF ScoringInvariant
  <1>26. Traced(r)'
    <2>1. Cardinality(InvocationsOf(r))' <= Cardinality(ResultsOf(r))' + 1
      BY <1>24
    <2> QED
      BY <1>23, <2>1 DEF Traced
  <1>27. EndedWhole(r)'
    BY <1>17 DEF EndedWhole
  <1> QED
    BY <1>1, <1>2, <1>17, <1>25, <1>26, <1>27 DEF RunInvariant

LEMMA RequestKeepsRun ==
    ASSUME TypeInvariant, NEW r \in Runs, NEW ask \in Asks(r), NEW secret, RunInvariant(r),
           RequestRun(r, ask.mode, ask.ids, secret)
    PROVE  RunInvariant(r)'
  <1> DEFINE row == [NoRun EXCEPT !.status = "running", !.mode = ask.mode,
                                  !.selected = Selected(ask.ids)]
  <1>1. /\ run'[r] = row /\ job'[r] = [job[r] EXCEPT !.pc = "scoring"]
        /\ Selected(ask.ids) \in Seq(CaseIds)
        /\ results' = results /\ invocations' = invocations
    <2>1. /\ run' = [run EXCEPT ![r] = row]
          /\ job' = [job EXCEPT ![r].pc = "scoring"]
          /\ UNCHANGED <<results, invocations>>
      BY DEF RequestRun
    <2>2. run \in [Runs -> RunRow] /\ job \in [Runs -> Job]
      BY DEF TypeInvariant
    <2>3. Selected(ask.ids) \in Seq(CaseIds)
      BY RequestTyped
    <2> HIDE DEF row
    <2> QED
      BY <2>1, <2>2, <2>3
  <1>2. job[r] = NoJob /\ ResultsOf(r) = {} /\ InvocationsOf(r) = {}
    BY DEF RequestRun, RunInvariant
  <1>3. ResultsOf(r)' = {} /\ InvocationsOf(r)' = {} /\ Answered(r)' = {}
    BY <1>1, <1>2 DEF ResultsOf, InvocationsOf, Answered
  <1>4. run'[r].status = "running" /\ run'[r].selected = Selected(ask.ids)
    BY <1>1 DEF NoRun
  <1>5. /\ job'[r].pc = "scoring" /\ job'[r].at = 1 /\ job'[r].pending = <<>>
        /\ job'[r].counts = ZeroCounts /\ job'[r].failure = FALSE
    BY <1>1, <1>2 DEF NoJob
  <1>6. ScoredOf(r)' = {} /\ \A good : PendingIn(r, good)' = {}
    BY <1>5 DEF ScoredOf, PendingIn
  <1>7. ASSUME NEW good PROVE Tally(r, good)' = 0
    <2>1. Cardinality(ResultsOf(r)' \cap good) = 0
      BY <1>3, FS_EmptySet
    <2>2. Cardinality(PendingIn(r, good)') = 0
      BY <1>6, FS_EmptySet
    <2> QED
      BY <2>1, <2>2 DEF Tally
  <1>8. ScoringInvariant(r)'
    <2>1. Cardinality(Answered(r))' = 0 /\ Cardinality(InvocationsOf(r))' = 0
          /\ Cardinality(ResultsOf(r))' = 0
      BY <1>3, FS_EmptySet
    <2>2. job'[r].at - 1 <= Len(run'[r].selected) /\ 1..(job'[r].at - 1) = {}
      BY <1>1, <1>4, <1>5
    <2>3. Len(job'[r].pending) = 0 /\ DOMAIN job'[r].pending = {}
      BY <1>5
    <2> QED
      BY <1>3, <1>4, <1>5, <1>6, <1>7, <2>1, <2>2, <2>3 DEF ScoringInvariant, ZeroCounts
  <1>9. EndedWhole(r)' /\ Traced(r)'
    <2>1. Cardinality(InvocationsOf(r))' = 0 /\ Cardinality(ResultsOf(r))' = 0
      BY <1>3, FS_EmptySet
    <2> QED
      BY <1>3, <1>4, <2>1 DEF EndedWhole, Traced
  <1> QED
    BY <1>4, <1>5, <1>8, <1>9 DEF RunInvariant

\* A run whose session is gone keeps what was committed.
LEMMA LostKeepsRun ==
    ASSUME TypeInvariant, NEW r \in Runs, RunInvariant(r), job[r].pc = "scoring",
           job'[r] = [NoJob EXCEPT !.pc = "failed"],
           UNCHANGED <<run, results, invocations>>
    PROVE  RunInvariant(r)'
  <1>1. job'[r].pc = "failed" /\ job'[r].pending = <<>>
    BY DEF NoJob
  <1>2. ScoringInvariant(r)
    BY DEF RunInvariant
  <1>3. run'[r].status = "running"
    BY <1>2 DEF ScoringInvariant
  <1>4. EndedWhole(r)'
    BY <1>3 DEF EndedWhole
  <1>5. Traced(r)'
    <2>1. Traced(r)
      BY DEF RunInvariant
    <2>2. ResultsOf(r)' = ResultsOf(r) /\ InvocationsOf(r)' = InvocationsOf(r)
      BY DEF ResultsOf, InvocationsOf
    <2>3. \A row : IsAnswer(r, row)' <=> IsAnswer(r, row)
      BY <2>2 DEF IsAnswer
    <2> QED
      BY <2>1, <2>2, <2>3 DEF Traced, Live
  <1> QED
    BY <1>1, <1>3, <1>4, <1>5 DEF RunInvariant

LEMMA FinishKeepsRun ==
    ASSUME TypeInvariant, NEW r \in Runs, RunInvariant(r), Finish(r)
    PROVE  RunInvariant(r)'
  <1>1. /\ results' = Flushed(r) /\ invocations' = invocations
        /\ run'[r].status = IF job[r].failure THEN "partial_failure" ELSE "completed"
        /\ run'[r].counts = job[r].counts
        /\ run'[r].mode = run[r].mode /\ run'[r].selected = run[r].selected
        /\ job'[r] = [NoJob EXCEPT !.pc = "answered"]
    BY FinishTyped
  <1>2. job[r].pc = "scoring" /\ job[r].at > Len(run[r].selected) /\ Unique(Flushed(r))
    BY DEF Finish
  <1>3. ScoringInvariant(r) /\ Traced(r)
    BY <1>2 DEF RunInvariant
  <1>4. \A i \in DOMAIN job[r].pending : job[r].pending[i].run = r
    BY <1>3 DEF ScoringInvariant
  <1>5. ResultsOf(r)' = ResultsOf(r) \cup ScoredOf(r) /\ ResultsOf(r)' \subseteq ResultRow
    BY <1>1, <1>4, FlushedRows, RowsAreFinite, PendingIsFinite
  <1>6. ASSUME NEW good PROVE Cardinality(ResultsOf(r)' \cap good) = Tally(r, good)
    <2>1. Cardinality((ResultsOf(r) \cup ScoredOf(r)) \cap good) = Tally(r, good)
      BY <1>2, <1>4, FlushTally
    <2> QED
      BY <1>5, <2>1
  <1>7. InvocationsOf(r)' = InvocationsOf(r) /\ Answered(r)' = Answered(r)
    BY <1>1 DEF InvocationsOf, Answered, Failed
  <1>8. job[r].at - 1 = Len(run[r].selected)
    <2>1. run[r].selected \in Seq(CaseIds) /\ job[r].at \in Nat \ {0}
      BY DEF TypeInvariant, RunRow, Job
    <2>2. job[r].at - 1 <= Len(run[r].selected)
      BY <1>3 DEF ScoringInvariant
    <2> DEFINE length == Len(run[r].selected)
    <2>3. length \in Nat
      BY <2>1
    <2>4. job[r].at > length /\ job[r].at - 1 <= length
      BY <1>2, <2>2
    <2> HIDE DEF length
    <2>5. job[r].at - 1 = length
      BY <2>1, <2>3, <2>4
    <2> QED
      BY <2>5 DEF length
  <1>9. EndedWhole(r)'
    <2>1. Cardinality(ResultsOf(r))' = Len(run'[r].selected)
      <3>1. ResultsOf(r)' \cap ResultRow = ResultsOf(r)'
        BY <1>5
      <3>2. Cardinality(ResultsOf(r)') = Tally(r, ResultRow)
        BY <1>6, <3>1
      <3> QED
        BY <1>1, <1>3, <1>8, <3>2 DEF ScoringInvariant
    <2>2. \A i \in DOMAIN run'[r].selected : \E row \in ResultsOf(r)' : row.case = run'[r].selected[i]
      <3>1. DOMAIN run'[r].selected = 1..(job[r].at - 1)
        <4>1. run[r].selected \in Seq(CaseIds)
          BY DEF TypeInvariant, RunRow
        <4>2. DOMAIN run[r].selected = 1..Len(run[r].selected)
          BY <4>1
        <4> QED
          BY <1>1, <1>8, <4>2
      <3>2. \A i \in 1..(job[r].at - 1) :
                \E row \in ResultsOf(r) \cup ScoredOf(r) : row.case = run[r].selected[i]
        BY <1>3 DEF ScoringInvariant
      <3> QED
        BY <1>1, <1>5, <3>1, <3>2
    <2>3. run'[r].counts.correct = Cardinality({row \in ResultsOf(r)' : row.actual = row.expected})
      <3>1. {row \in ResultsOf(r)' : row.actual = row.expected} = ResultsOf(r)' \cap Correct
        BY <1>5 DEF Correct
      <3> QED
        BY <1>1, <1>3, <1>6, <3>1 DEF ScoringInvariant
    <2>4. run'[r].counts.falsePositive =
              Cardinality({row \in ResultsOf(r)' : row.expected = "approve" /\ row.actual # "approve"})
      <3>1. {row \in ResultsOf(r)' : row.expected = "approve" /\ row.actual # "approve"}
                = ResultsOf(r)' \cap FalsePositive
        BY <1>5 DEF FalsePositive
      <3> QED
        BY <1>1, <1>3, <1>6, <3>1 DEF ScoringInvariant
    <2>5. run'[r].counts.tokens = Cardinality({i \in InvocationsOf(r) : ~Failed(i)}')
      <3>1. {i \in InvocationsOf(r) : ~Failed(i)}' = Answered(r)
        BY <1>7 DEF Answered
      <3> QED
        BY <1>1, <1>3, <3>1 DEF ScoringInvariant
    <2>6. run'[r].status = "partial_failure" <=> (\E i \in InvocationsOf(r) : Failed(i))'
      <3>1. (\E i \in InvocationsOf(r) : Failed(i))' <=> \E i \in InvocationsOf(r) : Failed(i)
        BY <1>1, <1>7 DEF Failed
      <3>2. job[r].failure <=> \E i \in InvocationsOf(r) : Failed(i)
        BY <1>3 DEF ScoringInvariant
      <3> QED
        BY <1>1, <3>1, <3>2
    <2> QED
      BY <2>1, <2>2, <2>3, <2>4, <2>5, <2>6 DEF EndedWhole
  <1>10. Traced(r)'
    <2>1. Live(r)' <=> Live(r)
      BY <1>1 DEF Live
    <2> SUFFICES ASSUME Live(r)
                 PROVE  /\ \A row \in ResultsOf(r)' : IsAnswer(r, row)'
                        /\ Cardinality(InvocationsOf(r))' <= Cardinality(ResultsOf(r))' + 1
      BY <2>1 DEF Traced
    <2>2. /\ \A row \in ScoredOf(r) : IsAnswer(r, row)
          /\ \A row \in ResultsOf(r) : IsAnswer(r, row)
          /\ Cardinality(InvocationsOf(r)) = Cardinality(ResultsOf(r)) + Len(job[r].pending)
      BY <1>3 DEF ScoringInvariant, Traced
    <2>3. \A row : IsAnswer(r, row)' <=> IsAnswer(r, row)
      BY <1>1, <1>7 DEF IsAnswer
    <2>4. Cardinality(ResultsOf(r)') = Cardinality(ResultsOf(r)) + Len(job[r].pending)
      <3>1. ResultsOf(r)' \cap ResultRow = ResultsOf(r)' /\ ResultsOf(r) \cap ResultRow = ResultsOf(r)
        BY <1>5, RowsAreFinite
      <3>2. PendingIn(r, ResultRow) = 1..Len(job[r].pending) /\ Len(job[r].pending) \in Nat
        <4>1. /\ job[r].pending \in Seq(ResultRow) /\ Len(job[r].pending) \in Nat
              /\ DOMAIN job[r].pending = 1..Len(job[r].pending)
          BY PendingIsFinite
        <4> QED
          BY <4>1 DEF PendingIn
      <3>3. Cardinality(PendingIn(r, ResultRow)) = Len(job[r].pending)
        BY <3>2, CountedUpTo
      <3>4. Cardinality(ResultsOf(r)') = Tally(r, ResultRow)
        BY <1>6, <3>1
      <3>5. Tally(r, ResultRow) = Cardinality(ResultsOf(r)) + Len(job[r].pending)
        BY <3>1, <3>3, Zenon DEF Tally
      <3> QED
        BY <3>4, <3>5, Zenon
    <2>5. Cardinality(ResultsOf(r)) \in Nat /\ Len(job[r].pending) \in Nat
      BY RowsAreFinite, PendingIsFinite
    <2> QED
      BY <1>5, <1>7, <2>2, <2>3, <2>4, <2>5
  <1>11. /\ run'[r].status \in {"completed", "partial_failure"}
         /\ job'[r].pc = "answered" /\ job'[r].pending = <<>>
    BY <1>1 DEF NoJob
  <1> QED
    BY <1>9, <1>10, <1>11 DEF RunInvariant
-----------------------------------------------------------------------------
(* Theorems *)

EvaluationInvariant == TypeInvariant /\ \A r \in Runs : RunInvariant(r)

LEMMA EvaluationInit == Init => EvaluationInvariant
  <1> SUFFICES ASSUME Init PROVE EvaluationInvariant
    OBVIOUS
  <1>1. TypeInvariant
    BY TypesInitially
  <1>2. ASSUME NEW r \in Runs PROVE RunInvariant(r)
    <2>1. run[r] = NoRun /\ job[r] = NoJob /\ results = <<>> /\ invocations = <<>>
      BY DEF Init
    <2>2. ResultsOf(r) = {} /\ InvocationsOf(r) = {}
      BY <2>1 DEF ResultsOf, InvocationsOf
    <2>3. NoJob.pc = "idle" /\ NoJob.pending = <<>> /\ NoRun.status = "none" /\ NoRun.mode = "none"
      BY DEF NoJob, NoRun
    <2>4. EndedWhole(r) /\ Traced(r)
      BY <2>1, <2>3 DEF EndedWhole, Traced, Live
    <2> QED
      BY <2>1, <2>2, <2>3, <2>4 DEF RunInvariant
  <1> QED
    BY <1>1, <1>2 DEF EvaluationInvariant

\* A run whose rows a step leaves alone keeps what it had.
LEMMA OthersKept ==
    ASSUME TypeInvariant, NEW q \in Runs, RunInvariant(q),
           run'[q] = run[q], job'[q] = job[q], invocations' = invocations,
           ResultsOf(q)' = ResultsOf(q)
    PROVE  RunInvariant(q)'
  <1>1. InvocationsOf(q)' = InvocationsOf(q)
    BY DEF InvocationsOf
  <1> QED
    BY <1>1, LeftAlone

LEMMA AllLeftAlone ==
    ASSUME EvaluationInvariant, UNCHANGED <<run, results, invocations, job>>
    PROVE  \A q \in Runs : RunInvariant(q)'
  <1> SUFFICES ASSUME NEW q \in Runs PROVE RunInvariant(q)'
    OBVIOUS
  <1>1. ResultsOf(q)' = ResultsOf(q)
    BY DEF ResultsOf
  <1> QED
    BY <1>1, OthersKept DEF EvaluationInvariant

LEMMA RequestKeepsAll ==
    ASSUME EvaluationInvariant, NEW r \in Runs, NEW ask \in Asks(r), NEW secret \in BOOLEAN,
           RequestRun(r, ask.mode, ask.ids, secret)
    PROVE  EvaluationInvariant'
  <1>t. TypeInvariant /\ \A q \in Runs : RunInvariant(q)
    BY DEF EvaluationInvariant
  <1>1. TypeInvariant' /\ RunInvariant(r)'
    BY <1>t, RequestTyped, RequestKeepsRun
  <1>2. ASSUME NEW q \in Runs \ {r} PROVE RunInvariant(q)'
    <2>1. run'[q] = run[q] /\ job'[q] = job[q] /\ invocations' = invocations /\ results' = results
      BY <1>t, <1>2 DEF RequestRun, TypeInvariant
    <2>2. ResultsOf(q)' = ResultsOf(q)
      BY <2>1 DEF ResultsOf
    <2> QED
      BY <1>t, <2>1, <2>2, OthersKept
  <1> QED
    BY <1>1, <1>2 DEF EvaluationInvariant

LEMMA RulesKeepAll ==
    ASSUME EvaluationInvariant, NEW r \in Runs, ScoreByRules(r)
    PROVE  EvaluationInvariant'
  <1>t. TypeInvariant /\ \A q \in Runs : RunInvariant(q)
    BY DEF EvaluationInvariant
  <1>1. TypeInvariant' /\ RunInvariant(r)'
    BY <1>t, RulesTyped, RulesKeepRun
  <1>2. ASSUME NEW q \in Runs \ {r} PROVE RunInvariant(q)'
    <2>1. run' = run /\ job'[q] = job[q] /\ invocations' = invocations /\ results' = results
      BY <1>t, RulesTyped
    <2>2. ResultsOf(q)' = ResultsOf(q)
      BY <2>1 DEF ResultsOf
    <2> QED
      BY <1>t, <2>1, <2>2, OthersKept
  <1> QED
    BY <1>1, <1>2 DEF EvaluationInvariant

LEMMA ModelKeepsAll ==
    ASSUME EvaluationInvariant, NEW r \in Runs, NEW reply \in Replies, ScoreByModel(r, reply)
    PROVE  EvaluationInvariant'
  <1>t. TypeInvariant /\ \A q \in Runs : RunInvariant(q)
    BY DEF EvaluationInvariant
  <1>1. TypeInvariant' /\ RunInvariant(r)'
    BY <1>t, ModelTyped, ModelKeepsRun
  <1>2. ASSUME NEW q \in Runs \ {r} PROVE RunInvariant(q)'
    <2>1. \A i \in DOMAIN job[r].pending : job[r].pending[i].run = r
      BY <1>t DEF ScoreByModel, Scoring, RunInvariant, ScoringInvariant
    <2>2. run' = run /\ job'[q] = job[q] /\ results' = Flushed(r)
      BY <1>t, ModelTyped
    <2>3. ResultsOf(q)' = ResultsOf(q)
      BY <1>t, <2>1, <2>2, FlushedRows
    <2>4. PICK entry : invocations' = Append(invocations, entry) /\ entry.run = r
      BY DEF ScoreByModel
    <2>5. entry \in InvocationRow
      <3>1. invocations' \in Seq(InvocationRow) /\ invocations \in Seq(InvocationRow)
        BY <1>t, <1>1 DEF TypeInvariant
      <3>2. Len(invocations) + 1 \in DOMAIN invocations' /\ invocations'[Len(invocations) + 1] = entry
        BY <2>4, <3>1
      <3> QED
        BY <3>1, <3>2
    <2>6. /\ DOMAIN invocations' = 1..(Len(invocations) + 1)
          /\ DOMAIN invocations = 1..Len(invocations) /\ Len(invocations) \in Nat
          /\ \A i \in 1..Len(invocations) : invocations'[i] = invocations[i]
          /\ invocations'[Len(invocations) + 1] = entry
      BY <1>t, <2>4, <2>5, AppendProperties DEF TypeInvariant
    <2>7. InvocationsOf(q)' = InvocationsOf(q)
      <3>1. 1..(Len(invocations) + 1) = 1..Len(invocations) \cup {Len(invocations) + 1}
        BY <2>6
      <3>2. InvocationsOf(q)' = {i \in 1..(Len(invocations) + 1) : invocations'[i].run = q}
        BY <2>6 DEF InvocationsOf
      <3>3. InvocationsOf(q) = {i \in 1..Len(invocations) : invocations[i].run = q}
        BY <2>6 DEF InvocationsOf
      <3> QED
        BY <1>2, <2>4, <2>6, <3>1, <3>2, <3>3
    <2>8. \A i \in InvocationsOf(q) : invocations'[i] = invocations[i]
      BY <2>6 DEF InvocationsOf
    <2> QED
      BY <1>t, <2>2, <2>3, <2>7, <2>8, LeftAlone
  <1> QED
    BY <1>1, <1>2 DEF EvaluationInvariant

LEMMA LostKeepsAll ==
    ASSUME EvaluationInvariant, NEW r \in Runs, job[r].pc = "scoring", Abandon(r)
    PROVE  EvaluationInvariant'
  <1>t. TypeInvariant /\ \A q \in Runs : RunInvariant(q)
    BY DEF EvaluationInvariant
  <1>1. TypeInvariant' /\ RunInvariant(r)'
    BY <1>t, AbandonTyped, LostKeepsRun
  <1>2. ASSUME NEW q \in Runs \ {r} PROVE RunInvariant(q)'
    <2>1. run' = run /\ job'[q] = job[q] /\ invocations' = invocations /\ results' = results
      BY <1>t, AbandonTyped
    <2>2. ResultsOf(q)' = ResultsOf(q)
      BY <2>1 DEF ResultsOf
    <2> QED
      BY <1>t, <2>1, <2>2, OthersKept
  <1> QED
    BY <1>1, <1>2 DEF EvaluationInvariant

LEMMA FinishKeepsAll ==
    ASSUME EvaluationInvariant, NEW r \in Runs, Finish(r)
    PROVE  EvaluationInvariant'
  <1>t. TypeInvariant /\ \A q \in Runs : RunInvariant(q)
    BY DEF EvaluationInvariant
  <1>1. TypeInvariant' /\ RunInvariant(r)'
    BY <1>t, FinishTyped, FinishKeepsRun
  <1>2. ASSUME NEW q \in Runs \ {r} PROVE RunInvariant(q)'
    <2>1. \A i \in DOMAIN job[r].pending : job[r].pending[i].run = r
      BY <1>t DEF Finish, RunInvariant, ScoringInvariant
    <2>2. /\ run'[q] = run[q] /\ job'[q] = job[q] /\ results' = Flushed(r)
          /\ invocations' = invocations
      BY <1>t, FinishTyped
    <2>3. ResultsOf(q)' = ResultsOf(q)
      BY <1>t, <2>1, <2>2, FlushedRows
    <2> QED
      BY <1>t, <2>2, <2>3, OthersKept
  <1> QED
    BY <1>1, <1>2 DEF EvaluationInvariant

LEMMA LossKeepsAll ==
    ASSUME EvaluationInvariant, NEW gone, Lose(gone), \A r \in Runs \cap gone : job[r].pc = "scoring"
    PROVE  EvaluationInvariant'
  <1>t. TypeInvariant /\ \A q \in Runs : RunInvariant(q)
    BY DEF EvaluationInvariant
  <1>1. TypeInvariant'
    BY <1>t, LossTyped
  <1>2. ASSUME NEW q \in Runs PROVE RunInvariant(q)'
    <2>1. /\ job'[q] = IF q \in gone THEN [NoJob EXCEPT !.pc = "failed"] ELSE job[q]
          /\ run' = run /\ invocations' = invocations /\ results' = results
      BY <1>t, LossTyped
    <2>2. CASE q \in gone
      <3>1. job[q].pc = "scoring"
        BY <2>2
      <3> QED
        BY <1>t, <2>1, <2>2, <3>1, LostKeepsRun
    <2>3. CASE q \notin gone
      <3>1. ResultsOf(q)' = ResultsOf(q) /\ InvocationsOf(q)' = InvocationsOf(q)
        BY <2>1 DEF ResultsOf, InvocationsOf
      <3> QED
        BY <1>t, <2>1, <2>3, <3>1, LeftAlone
    <2> QED
      BY <2>2, <2>3
  <1> QED
    BY <1>1, <1>2 DEF EvaluationInvariant

LEMMA EvaluationNext == EvaluationInvariant /\ [Next]_vars => EvaluationInvariant'
  <1> SUFFICES ASSUME EvaluationInvariant, [Next]_vars PROVE EvaluationInvariant'
    OBVIOUS
  <1>t. TypeInvariant
    BY DEF EvaluationInvariant
  <1>1. CASE \E r \in Runs : \E ask \in Asks(r), secret \in BOOLEAN :
                 RequestRun(r, ask.mode, ask.ids, secret)
    BY <1>1, RequestKeepsAll
  <1>2. CASE \E r \in Runs : Score(r)
    <2>1. PICK r \in Runs : Score(r)
      BY <1>2
    <2>2. CASE ScoreByRules(r)
      BY <2>2, RulesKeepAll
    <2>3. CASE \E reply \in Replies : ScoreByModel(r, reply)
      BY <2>3, ModelKeepsAll
    <2>4. CASE job[r].pc = "scoring" /\ Abandon(r)
      BY <2>4, LostKeepsAll
    <2>5. CASE Finish(r)
      BY <2>5, FinishKeepsAll
    <2> QED
      BY <2>1, <2>2, <2>3, <2>4, <2>5 DEF Score, InvocationNotRecorded, FinishFails, Scoring
  <1>3. CASE Crash
    BY <1>3, LossKeepsAll DEF Crash
  <1>6. CASE \E r \in Runs : InvocationRefused(r)
    <2>1. PICK r \in Runs : InvocationRefused(r)
      BY <1>6
    <2>2. \A q \in Runs \cap {r} : job[q].pc = "scoring"
      BY <2>1 DEF InvocationRefused, Scoring
    <2> QED
      BY <2>1, <2>2, LossKeepsAll DEF InvocationRefused
  <1>4. CASE \E target \in (Reviewable \cap DOMAIN results) \cup {Uncased}, secret \in BOOLEAN,
                verdict \in {"accepted", "rejected", "corrected"} :
                \E correction \in Corrections(verdict) :
                    GiveFeedback(target, verdict, correction, secret)
    <2>1. TypeInvariant' /\ UNCHANGED <<run, results, invocations, job>>
      BY <1>t, <1>4, FeedbackTyped DEF GiveFeedback
    <2> QED
      BY <2>1, AllLeftAlone DEF EvaluationInvariant
  <1>5. CASE UNCHANGED vars
    <2>1. TypeInvariant'
      BY <1>t, <1>5 DEF vars, TypeInvariant
    <2>2. UNCHANGED <<run, results, invocations, job>>
      BY <1>5 DEF vars
    <2> QED
      BY <2>1, <2>2, AllLeftAlone DEF EvaluationInvariant
  <1> QED
    BY <1>1, <1>2, <1>3, <1>4, <1>5, <1>6 DEF Next

LEMMA EvaluationHolds == Spec => []EvaluationInvariant
  BY EvaluationInit, EvaluationNext, PTL DEF Spec

\* Every variable keeps its type, and no more waits in a session than the
\* code lets wait: one row in live mode, one for each case otherwise.
THEOREM EvaluationTyped == Spec => []TypeOK
  <1>1. EvaluationInvariant => TypeOK
    <2> SUFFICES ASSUME EvaluationInvariant PROVE TypeOK
      OBVIOUS
    <2>1. TypeInvariant
      BY DEF EvaluationInvariant
    <2>2. ASSUME NEW r \in Runs
          PROVE  /\ run[r].status \in {"none", "running", "completed", "partial_failure"}
                 /\ run[r].selected \in Seq(CaseIds) /\ run[r].counts \in Counts
                 /\ job[r].pc \in {"idle", "scoring", "answered", "failed"}
                 /\ Len(job[r].pending) <= (IF Live(r) THEN 1 ELSE Len(run[r].selected))
      <3>1. run[r] \in RunRow /\ job[r] \in Job /\ RunInvariant(r)
        BY DEF EvaluationInvariant, TypeInvariant
      <3>2. Len(run[r].selected) \in Nat /\ Len(job[r].pending) \in Nat
        BY <3>1 DEF RunRow, Job
      <3>3. CASE job[r].pc # "scoring"
        <4>1. Len(job[r].pending) = 0
          BY <3>1, <3>3 DEF RunInvariant
        <4> QED
          BY <3>1, <3>2, <4>1 DEF RunRow, Job
      <3>4. CASE job[r].pc = "scoring"
        <4>1. ScoringInvariant(r)
          BY <3>1, <3>4 DEF RunInvariant
        <4>2. job[r].at - 1 <= Len(run[r].selected) /\ job[r].at - 1 = Tally(r, ResultRow)
          BY <4>1 DEF ScoringInvariant
        <4>3. Len(job[r].pending) <= Tally(r, ResultRow) /\ Tally(r, ResultRow) \in Nat
          <5>1. PendingIn(r, ResultRow) = 1..Len(job[r].pending)
            <6>1. /\ job[r].pending \in Seq(ResultRow)
                  /\ DOMAIN job[r].pending = 1..Len(job[r].pending)
              BY <2>1, PendingIsFinite
            <6> QED
              BY <6>1 DEF PendingIn
          <5>2. Cardinality(PendingIn(r, ResultRow)) = Len(job[r].pending)
            BY <3>2, <5>1, CountedUpTo
          <5>3. Cardinality(ResultsOf(r) \cap ResultRow) \in Nat
            BY <2>1, PendingIsFinite
          <5> HIDE DEF ResultRow
          <5> QED
            BY <3>2, <5>2, <5>3 DEF Tally
        <4>4. Live(r) => Len(job[r].pending) <= 1
          BY <4>1 DEF ScoringInvariant
        <4> QED
          BY <3>1, <3>2, <4>2, <4>3, <4>4 DEF RunRow, Job
      <3> QED
        BY <3>3, <3>4
    <2>3. ASSUME NEW i \in DOMAIN results
          PROVE  /\ results[i].run \in Runs /\ results[i].case \in CaseIds
                 /\ {results[i].expected, results[i].actual} \subseteq Decisions
      <3>1. results[i] \in ResultRow
        BY <2>1 DEF TypeInvariant
      <3> QED
        BY <3>1 DEF ResultRow
    <2> QED
      BY <2>1, <2>2, <2>3 DEF TypeOK, TypeInvariant
  <1> QED
    BY <1>1, EvaluationHolds, PTL

\* A run that ends has a result for each of its cases and counters that are
\* those of its results and invocations, whatever other runs committed
\* between, whatever was refused, and wherever processes died.
THEOREM EndedRunsAreWhole == Spec => []FinishedRunIsWhole
  <1>1. EvaluationInvariant => FinishedRunIsWhole
    BY DEF EvaluationInvariant, RunInvariant, EndedWhole, FinishedRunIsWhole
  <1> QED
    BY <1>1, EvaluationHolds, PTL

\* Each result of a live run names the invocation that decided it, and one
\* recorded answer at most is without a result.
THEOREM ResultsAreTraced == Spec => []AnswersAreScored
  <1>1. EvaluationInvariant => AnswersAreScored
    BY DEF EvaluationInvariant, RunInvariant, Traced, IsAnswer, AnswersAreScored
  <1> QED
    BY <1>1, EvaluationHolds, PTL
-----------------------------------------------------------------------------
(* The last word on a result *)

\* A result with feedback has a latest word.
LEMMA LatestIsFound ==
    ASSUME NEW log \in Seq(FeedbackRow), NEW t, Entries(log, t) # {}
    PROVE  /\ LatestEntry(log, t) \in Entries(log, t)
           /\ \A j \in Entries(log, t) : j <= LatestEntry(log, t)
  <1> DEFINE E == Entries(log, t)
             Bounds == {n \in Nat : \A j \in E : j <= n}
  <1>1. E \subseteq 1..Len(log) /\ Len(log) \in Nat
    BY DEF Entries
  <1>2. Len(log) \in Bounds
    BY <1>1
  <1>3. PICK n \in Bounds : \A m \in Bounds : ~ (<<m, n>> \in OpToRel(<, Nat))
    <2>1. Bounds \subseteq Nat /\ Bounds # {}
      BY <1>2
    <2> HIDE DEF Bounds
    <2> QED
      BY <2>1, NatLessThanWellFounded, WFMin, Zenon
  <1>4. n \in Nat /\ (\A j \in E : j <= n) /\ \A m \in Bounds : ~ (m < n)
    BY <1>3 DEF OpToRel
  <1>5. n \in E
    <2>1. SUFFICES ASSUME n \notin E PROVE FALSE
      OBVIOUS
    <2>2. PICK j \in E : TRUE
      OBVIOUS
    <2>3. j \in Nat \ {0} /\ j <= n
      BY <1>1, <1>4, <2>2
    <2>4. n - 1 \in Nat
      BY <1>4, <2>3
    <2>5. ASSUME NEW k \in E PROVE k <= n - 1
      <3>1. k <= n /\ k # n /\ k \in Nat
        BY <1>1, <1>4, <2>1
      <3> QED
        BY <1>4, <3>1
    <2>6. n - 1 \in Bounds
      BY <2>4, <2>5
    <2> QED
      BY <1>4, <2>6
  <1>6. \E i \in E : \A j \in E : j <= i
    BY <1>4, <1>5
  <1> QED
    BY <1>6 DEF LatestEntry

\* An entry more is the latest one of its target ...
LEMMA OneMoreEntry ==
    ASSUME NEW log \in Seq(FeedbackRow), NEW entry \in FeedbackRow
    PROVE  /\ Entries(Append(log, entry), entry.target) # {}
           /\ Append(log, entry)[LatestEntry(Append(log, entry), entry.target)] = entry
  <1> DEFINE after == Append(log, entry)
             length == Len(log)
             t == entry.target
  <1>1. /\ after \in Seq(FeedbackRow) /\ length \in Nat
        /\ DOMAIN after = 1..(length + 1) /\ after[length + 1] = entry
    BY AppendProperties
  <1> HIDE DEF after, length
  <1>2. length + 1 \in Entries(after, t)
    BY <1>1 DEF Entries
  <1> HIDE DEF t
  <1>3. /\ LatestEntry(after, t) \in Entries(after, t)
        /\ \A j \in Entries(after, t) : j <= LatestEntry(after, t)
    BY <1>1, <1>2, LatestIsFound
  <1>4. LatestEntry(after, t) \in 1..(length + 1) /\ length + 1 <= LatestEntry(after, t)
    BY <1>1, <1>2, <1>3 DEF Entries
  <1>5. LatestEntry(after, t) = length + 1
    BY <1>1, <1>4
  <1> QED
    BY <1>1, <1>2, <1>5 DEF after, t

\* ... and leaves the entries of every other as they were.
LEMMA OtherEntries ==
    ASSUME NEW log \in Seq(FeedbackRow), NEW entry \in FeedbackRow, NEW t, t # entry.target
    PROVE  /\ Entries(Append(log, entry), t) = Entries(log, t)
           /\ Entries(log, t) # {} =>
                  Append(log, entry)[LatestEntry(Append(log, entry), t)] = log[LatestEntry(log, t)]
  <1> DEFINE after == Append(log, entry)
             length == Len(log)
  <1>1. /\ after \in Seq(FeedbackRow) /\ length \in Nat
        /\ DOMAIN after = 1..(length + 1) /\ DOMAIN log = 1..length
        /\ \A i \in 1..length : after[i] = log[i]
        /\ after[length + 1] = entry
    BY AppendProperties
  <1> HIDE DEF after, length
  <1>2. Entries(after, t) = Entries(log, t)
    <2>1. 1..(length + 1) = 1..length \cup {length + 1}
      BY <1>1
    <2>2. Entries(after, t) = {i \in 1..(length + 1) : after[i].target = t}
      BY <1>1 DEF Entries
    <2>3. Entries(log, t) = {i \in 1..length : log[i].target = t}
      BY <1>1 DEF Entries
    <2> QED
      BY <1>1, <2>1, <2>2, <2>3
  <1>3. ASSUME Entries(log, t) # {}
        PROVE  after[LatestEntry(after, t)] = log[LatestEntry(log, t)]
    <2>1. /\ LatestEntry(log, t) \in Entries(log, t)
          /\ \A j \in Entries(log, t) : j <= LatestEntry(log, t)
      BY <1>3, LatestIsFound
    <2>2. /\ LatestEntry(after, t) \in Entries(log, t)
          /\ \A j \in Entries(log, t) : j <= LatestEntry(after, t)
      BY <1>1, <1>2, <1>3, LatestIsFound
    <2>3. LatestEntry(log, t) \in 1..length /\ LatestEntry(after, t) \in 1..length
      BY <1>1, <2>1, <2>2 DEF Entries
    <2>4. LatestEntry(after, t) = LatestEntry(log, t)
      BY <1>1, <2>1, <2>2, <2>3
    <2> QED
      BY <1>1, <2>3, <2>4
  <1> QED
    BY <1>2, <1>3 DEF after

\* Two finite sets that differ in one element at most differ by one at most.
LEMMA DifferByOne ==
    ASSUME NEW S, NEW T, NEW x, IsFiniteSet(S), IsFiniteSet(T), S \ {x} = T \ {x}
    PROVE  Cardinality(S) - Cardinality(T) \in -1..1
  <1>1. Cardinality(S) \in Nat /\ Cardinality(T) \in Nat /\ Cardinality(T \ {x}) \in Nat
    BY FS_CardinalityType, FS_RemoveElement
  <1>2. Cardinality(T \ {x}) = IF x \in S THEN Cardinality(S) - 1 ELSE Cardinality(S)
    BY FS_RemoveElement
  <1>3. Cardinality(T \ {x}) = IF x \in T THEN Cardinality(T) - 1 ELSE Cardinality(T)
    BY FS_RemoveElement
  <1> DEFINE s == Cardinality(S)
             c == Cardinality(T)
             rest == Cardinality(T \ {x})
  <1>4. s \in Nat /\ c \in Nat /\ rest \in {s, s - 1} /\ rest \in {c, c - 1}
    BY <1>1, <1>2, <1>3
  <1> HIDE DEF s, c, rest
  <1>5. s - c \in -1..1
    BY <1>4
  <1> QED
    BY <1>5 DEF s, c

\* Feedback on a result is the last word on it, and on no other result.
THEOREM LastWordIsKept == Spec => LastWordCounts
  <1> DEFINE entry == feedback'[Len(feedback')]
             others == DOMAIN results \ {entry.target}
             Right(log) == {t \in Reviewed(log) : ~ (EffectiveDecision(log, t) # results[t].expected)}
  <1>1. ASSUME EvaluationInvariant, Next, feedback' # feedback PROVE LastWord
    <2>t. TypeInvariant
      BY <1>1 DEF EvaluationInvariant
    <2>1. PICK target \in (Reviewable \cap DOMAIN results) \cup {Uncased},
               verdict \in {"accepted", "rejected", "corrected"} :
               \E correction \in Corrections(verdict), secret \in BOOLEAN :
                   GiveFeedback(target, verdict, correction, secret)
      BY <1>1 DEF Next, RequestRun, Score, ScoreByRules, ScoreByModel, InvocationNotRecorded,
                  Finish, FinishFails, Abandon, InvocationRefused, Crash, Lose
    <2>2. PICK correction \in Corrections(verdict), secret \in BOOLEAN :
               GiveFeedback(target, verdict, correction, secret)
      BY <2>1
    <2>3. PICK new \in FeedbackRow : feedback' = Append(feedback, new)
      BY <2>t, <2>2, FeedbackTyped
    <2>4. feedback \in Seq(FeedbackRow)
      BY <2>t DEF TypeInvariant
    <2>5. entry = new
      BY <2>3, <2>4
    <2> HIDE DEF entry
    <2>6. Entries(feedback', new.target) # {} /\ feedback'[LatestEntry(feedback', new.target)] = new
      BY <2>3, <2>4, OneMoreEntry
    <2>7. ASSUME NEW t \in others
          PROVE  /\ Entries(feedback', t) = Entries(feedback, t)
                 /\ Entries(feedback, t) # {} =>
                        feedback'[LatestEntry(feedback', t)] = feedback[LatestEntry(feedback, t)]
      <3>1. t # new.target
        BY <2>5
      <3> QED
        BY <2>3, <2>4, <3>1, OtherEntries
    <2>8. Reviewed(feedback') \cap others = Reviewed(feedback) \cap others
      BY <2>7 DEF Reviewed
    <2>9. ASSUME NEW t \in Reviewed(feedback) \cap others
          PROVE  EffectiveDecision(feedback', t) = EffectiveDecision(feedback, t)
      BY <2>7 DEF Reviewed, EffectiveDecision
    <2>10. Right(feedback') \cap others = Right(feedback) \cap others
      BY <2>8, <2>9
    <2>11. IsFiniteSet(DOMAIN results)
      <3>1. results \in Seq(ResultRow)
        BY <2>t DEF TypeInvariant
      <3>2. DOMAIN results = 1..Len(results) /\ Len(results) \in Nat
        BY <3>1
      <3> QED
        BY <3>2, FS_Interval
    <2>12. ASSUME NEW S \in SUBSET DOMAIN results, NEW T \in SUBSET DOMAIN results,
                  S \cap others = T \cap others
           PROVE  Cardinality(S) - Cardinality(T) \in -1..1
      <3>1. IsFiniteSet(S) /\ IsFiniteSet(T)
        BY <2>11, FS_Subset
      <3>2. S \ {entry.target} = T \ {entry.target}
        BY <2>12
      <3> QED
        BY <3>1, <3>2, DifferByOne
    <2>13. /\ Reviewed(feedback') \subseteq DOMAIN results /\ Reviewed(feedback) \subseteq DOMAIN results
           /\ Right(feedback') \subseteq DOMAIN results /\ Right(feedback) \subseteq DOMAIN results
      BY DEF Reviewed
    <2>14. /\ FeedbackSummary(feedback').reviewed = Cardinality(Reviewed(feedback'))
           /\ FeedbackSummary(feedback).reviewed = Cardinality(Reviewed(feedback))
           /\ FeedbackSummary(feedback').correct = Cardinality(Right(feedback'))
           /\ FeedbackSummary(feedback).correct = Cardinality(Right(feedback))
      BY DEF FeedbackSummary
    <2>15. /\ Cardinality(Reviewed(feedback')) - Cardinality(Reviewed(feedback)) \in -1..1
           /\ Cardinality(Right(feedback')) - Cardinality(Right(feedback)) \in -1..1
      <3> HIDE DEF Right, others
      <3> QED
        BY <2>8, <2>10, <2>12, <2>13
    <2>16. new.target \in DOMAIN results =>
               /\ new.target \in Reviewed(feedback') <=> new.verdict # "rejected"
               /\ new.verdict = "corrected" => EffectiveDecision(feedback', new.target) = new.correction
               /\ new.verdict = "accepted" =>
                      EffectiveDecision(feedback', new.target) = results[new.target].actual
      BY <2>6 DEF Reviewed, EffectiveDecision
    <2> HIDE DEF Right
    <2> QED
      BY <2>5, <2>8, <2>14, <2>15, <2>16 DEF LastWord, entry, others
  <1>2. EvaluationInvariant /\ [Next]_vars => [feedback' # feedback => LastWord]_vars
    BY <1>1 DEF vars
  <1> QED
    BY <1>2, EvaluationHolds, PTL DEF Spec, LastWordCounts
=============================================================================
