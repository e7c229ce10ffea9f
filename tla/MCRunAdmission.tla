--------------------------- MODULE MCRunAdmission ---------------------------
\* RunAdmission for TLC.
EXTENDS RunAdmission, TLC

\* Tags that spell a policy, and tags that name no part of one.
SomeTags == {[tier |-> "power", approval |-> "required", units |-> 2],
             [tier |-> NoTag, approval |-> NoTag, units |-> 0]}
SomePolicies == {[tier |-> "free", approval |-> FALSE, units |-> 1]}

Interchangeable == Permutations(Operations)
=============================================================================
