---------------------------- MODULE RunAdmission ----------------------------
(***************************************************************************)
(* A run of a workflow template from its request to its execution:         *)
(* resolve_entitlement_context and enforce_monetization_policy_for_run     *)
(* before, run_orchestration at once or, through the queue, much later and *)
(* again after a retry.  The template is edited and the subscription       *)
(* changes meanwhile.                                                      *)
(*                                                                         *)
(* The template is read up to three times: for its policy, for its steps   *)
(* (from the same copy, unless the approval event was committed between)   *)
(* and when it is executed.  The tier is that of the token, fixed at the   *)
(* request.  The quota between is UsageMetering's.                         *)
(***************************************************************************)
EXTENDS TemplatePolicy, Subscription

CONSTANTS Runs,
          EntitlementRequired,  \* effective_entitlement_required
          LegacyAllowed,        \* effective_allow_legacy_subscription_tier_fallback
          DefaultTier,
          MaxExecutions         \* bound: a job's first execution and its retries

ASSUME AdmissionAssumption ==
    /\ EntitlementRequired \in BOOLEAN /\ LegacyAllowed \in BOOLEAN
    /\ DefaultTier \in Tiers
    /\ MaxExecutions \in Nat \ {0}

VARIABLES
    run,         \* the requests
    executions   \* history: what was executed under which template

vars == <<templateVars, subscriptionVars, run, executions>>
-----------------------------------------------------------------------------
MaxEnabledSteps == [free |-> 1, pro |-> 3, power |-> 3]   \* CAPABILITY_MATRIX

NoRequest == [pc |-> "idle", tier |-> "free", source |-> "default", confirmed |-> FALSE,
              steps |-> 0, reread |-> FALSE, version |-> 0, since |-> 0, executed |-> 0]

Init ==
    /\ TemplateInit
    /\ SubscriptionInit
    /\ run = [r \in Runs |-> NoRequest]
    /\ executions = {}

\* Whom a request is from: a valid token, or else what the settings allow.
Contexts ==
    [tier : {token.tier : token \in {k \in tokens : Valid(k)}}, source : {"entitlement"}]
    \cup (IF EntitlementRequired THEN {} ELSE {[tier |-> DefaultTier, source |-> "default"]})
    \cup (IF LegacyAllowed THEN [tier : Tiers, source : {"legacy_header"}] ELSE {})

\* Mutant: a confirmed approval makes up for the tier.
PolicyAdmitsConfirmed(tier, confirmed, policy) ==
    confirmed \/ (Rank[tier] >= Rank[policy.tier] /\ ~policy.approval)

\* _enforce_template_policy
PolicyAdmits(tier, confirmed, policy) ==
    /\ Rank[tier] >= Rank[policy.tier]
    /\ policy.approval => confirmed

Arrive(r) ==
    /\ run[r].pc = "idle" /\ version > 0
    /\ \E context \in Contexts, confirmed \in BOOLEAN :
        run' = [run EXCEPT ![r] =
            [NoRequest EXCEPT
                !.pc = IF PolicyAdmits(context.tier, confirmed, PolicyOf(template)) THEN "gated" ELSE "refused",
                !.tier = context.tier, !.source = context.source, !.confirmed = confirmed,
                !.steps = template.steps, !.reread = PolicyOf(template).approval,
                !.version = version, !.since = now]]
    /\ UNCHANGED <<templateVars, executions>>

\* The capability check; the request goes on to run at once or is queued.
CheckSteps(r) ==
    /\ run[r].pc = "gated"
    /\ LET steps == IF run[r].reread THEN template.steps ELSE run[r].steps
       IN  \E next \in {"running", "queued"} :
             run' = [run EXCEPT ![r].pc = IF steps <= MaxEnabledSteps[run[r].tier] THEN next ELSE "refused"]
    /\ UNCHANGED <<templateVars, executions>>

\* Mutant: run_orchestration relies on the steps that were admitted.
FitsTierAsAdmitted(r) == run[r].executed = 0 \/ template.steps <= MaxEnabledSteps[run[r].tier]

FitsTier(r) == template.steps <= MaxEnabledSteps[run[r].tier]

Executed(r) ==
    [run |-> r, tier |-> run[r].tier, confirmed |-> run[r].confirmed, steps |-> template.steps,
     policy |-> PolicyOf(template), asAdmitted |-> version = run[r].version]

\* run_orchestration reads the steps again and checks their number only.
\* A refusal or an exception leaves a queued job failed.
Execute(r) ==
    /\ run[r].pc \in {"running", "queued"}
    /\ IF FitsTier(r)
       THEN /\ executions' = executions \cup {Executed(r)}
            /\ \E end \in {"done", "failed"} :
                 run' = [run EXCEPT ![r].pc = IF @ = "queued" THEN end ELSE "done",
                                    ![r].executed = @ + 1]
       ELSE /\ run' = [run EXCEPT ![r].pc = IF @ = "queued" THEN "failed" ELSE "refused",
                                  ![r].executed = @ + 1]
            /\ UNCHANGED executions
    /\ UNCHANGED templateVars

\* retry_queue_job passes no gate.
Retry(r) ==
    /\ run[r].pc = "failed" /\ run[r].executed < MaxExecutions
    /\ run' = [run EXCEPT ![r].pc = "queued"]
    /\ UNCHANGED <<templateVars, executions>>

RunNext == \E r \in Runs : Arrive(r) \/ CheckSteps(r) \/ Execute(r) \/ Retry(r)

Next ==
    \/ RunNext /\ UNCHANGED subscriptionVars
    \/ TemplateNext /\ UNCHANGED <<subscriptionVars, run, executions>>
    \/ SubscriptionNext /\ NoteInForce /\ UNCHANGED <<templateVars, run, executions>>

Spec == Init /\ [][Next]_vars
-----------------------------------------------------------------------------
(* Properties *)

Request == [pc : {"idle", "gated", "running", "queued", "done", "failed", "refused"},
            tier : Tiers, source : {"entitlement", "default", "legacy_header"},
            confirmed : BOOLEAN, steps : Nat, reread : BOOLEAN,
            version : Nat, since : Nat, executed : 0..MaxExecutions]

Execution == [run : Runs, tier : Tiers, confirmed : BOOLEAN, steps : Nat,
              policy : Policy, asAdmitted : BOOLEAN]

TypeOK ==
    /\ TemplateTypeOK
    /\ SubscriptionTypeOK
    /\ run \in [Runs -> Request]
    /\ executions \subseteq Execution

\* Nothing is executed with more steps than its tier allows, even when the
\* template has grown since it was admitted or the job is retried.
StepsWithinTier == \A e \in executions : e.steps <= MaxEnabledSteps[e.tier]

\* A template that was not edited between the gate and an execution is
\* executed only by a tier it allows and, if it requires approval, only with
\* one, however long the job waited and however often it was retried.
GateHoldsUnlessEdited == \A e \in executions :
    e.asAdmitted =>
        /\ Rank[e.tier] >= Rank[e.policy.tier]
        /\ e.policy.approval => e.confirmed

\* A signed tier was paid for: it was in force for its subject less than the
\* life of a token before the request, whatever has been canceled, has ended
\* or was checked out since.
TierWasInForce == \A r \in Runs :
    run[r].pc # "idle" /\ run[r].source = "entitlement" =>
        /\ lastInForce[run[r].tier] > 0
        /\ run[r].since < lastInForce[run[r].tier] + TTL
=============================================================================
