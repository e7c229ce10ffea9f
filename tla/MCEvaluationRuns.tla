-------------------------- MODULE MCEvaluationRuns --------------------------
\* EvaluationRuns for TLC: three cases, one of each expected decision; the
\* rules misjudge the second.
EXTENDS EvaluationRuns, TLC

CONSTANTS c1, c2, c3, r1, r2

MCDataset == <<[id |-> c1, expected |-> "approve", markers |-> {}],
               [id |-> c2, expected |-> "needs human review", markers |-> {}],
               [id |-> c3, expected |-> "block", markers |-> {"block", "review"}]>>

\* A live run over two cases or with one of them twice, and beside it another, or
\* the rules on all cases or on one twice.
MCAsks(r) ==
    IF r = r1 THEN {[mode |-> "live", ids |-> <<c1, c2>>], [mode |-> "live", ids |-> <<c2, c2, c1>>]}
    ELSE {[mode |-> "live", ids |-> <<c2>>], [mode |-> "deterministic", ids |-> <<>>],
          [mode |-> "deterministic", ids |-> <<c3, c3>>]}
=============================================================================
