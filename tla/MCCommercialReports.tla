------------------------- MODULE MCCommercialReports -------------------------
\* CommercialReports for TLC: one template and runs without one, a pack of
\* two scenarios, runs with and without each kind of evidence.
EXTENDS CommercialReports, TLC

MCPolicies == {[units |-> 0, risk |-> "low", approval |-> FALSE],
               [units |-> 3, risk |-> "high", approval |-> TRUE]}

Run(t, scenario, metadata, ledger) ==
    [template |-> t, steps |-> 2, status |-> "success", decision |-> "approve", risks |-> 0,
     scenario |-> scenario, metadata |-> metadata, conclusion |-> TRUE, ledger |-> ledger]

MCKinds == {Run(1, "first", 4, "valid"), Run(1, "second", 4, "invalid"),
            Run(1, "second", 3, "valid"),
            [Run(0, "none", 0, "valid") EXCEPT !.status = "failed", !.decision = "block", !.steps = 0]}

MCScenarios == <<"first", "second">>
=============================================================================
