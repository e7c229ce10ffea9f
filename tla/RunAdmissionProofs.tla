------------------------- MODULE RunAdmissionProofs -------------------------
EXTENDS RunAdmission, FiniteSetTheorems, WellFoundedInduction, TLAPS

(* The policy of a template *)

\* Every stored policy reads back, whatever tags came with it; and the price
\* is spelled out, so that it no longer follows the number of steps.
LEMMA PolicyIsTyped ==
    ASSUME NEW tags \in TemplateTags, NEW steps \in Nat
    PROVE  PolicyFromTags(tags, steps) \in Policy
  <1>1. UnitsOf(tags, steps) \in Nat \ {0}
    BY DEF UnitsOf, TemplateTags
  <1> QED
    BY <1>1 DEF PolicyFromTags, Policy, TemplateTags, Tiers, NoTag

LEMMA PolicyReadsBack ==
    ASSUME NEW tags \in TemplateTags, NEW policy \in Policy \cup {Missing}, NEW steps \in Nat
    PROVE  LET stored == TagsWithPolicy(tags, policy, steps)
           IN  /\ stored \in TemplateTags
               /\ stored.units > 0
               /\ \A n \in Nat : PolicyFromTags(stored, n) =
                      IF policy = Missing THEN PolicyFromTags(tags, steps) ELSE policy
  <1> DEFINE p == IF policy = Missing THEN PolicyFromTags(tags, steps) ELSE policy
             stored == TagsWithPolicy(tags, policy, steps)
  <1>1. p \in Policy
    BY PolicyIsTyped
  <1>2. stored = [tier |-> p.tier, approval |-> IF p.approval THEN "required" ELSE "none",
                  units |-> p.units]
    BY DEF TagsWithPolicy
  <1> HIDE DEF p, stored
  <1>3. stored \in TemplateTags /\ stored.units > 0
    BY <1>1, <1>2 DEF TemplateTags, Policy, Tiers, NoTag
  <1>4. ASSUME NEW n \in Nat PROVE PolicyFromTags(stored, n) = p
    BY <1>1, <1>2 DEF PolicyFromTags, UnitsOf, Policy, Tiers, NoTag
  <1> QED
    BY <1>3, <1>4 DEF p, stored

\* A template that exists spells its price out.
TemplateInvariant ==
    /\ TemplateTypeOK
    /\ version > 0 => template.tags.units > 0
    /\ DeclaredPolicyHolds

PolicyParts == {"tier", "approval", "units"}

\* What DeclaredPolicyHolds asks of a policy.
Agrees(policy, said, unsaid) ==
    /\ said \in Policy
    /\ unsaid \subseteq PolicyParts
    /\ \A part \in PolicyParts \ unsaid : policy[part] = said[part]
    /\ "tier" \in unsaid => policy.tier = "pro"
    /\ "approval" \in unsaid => ~policy.approval

LEMMA AgreesWithItself ==
    ASSUME NEW policy \in Policy
    PROVE  Agrees(policy, policy, {})
  BY DEF Agrees

LEMMA TemplateInitially == TemplateInit => TemplateInvariant
  <1> SUFFICES ASSUME TemplateInit PROVE TemplateInvariant
    OBVIOUS
  <1>1. template.tags \in TemplateTags /\ template.steps \in Nat /\ template \in [steps : Nat, tags : TemplateTags]
    BY DEF TemplateInit, NoTemplate, TemplateTags, NoTag, Tiers
  <1>2. PolicyOf(template) \in Policy
    BY <1>1, PolicyIsTyped DEF PolicyOf
  <1> QED
    BY <1>1, <1>2, TemplateAssumption
    DEF TemplateInit, TemplateInvariant, TemplateTypeOK, DeclaredPolicyHolds

LEMMA WriteKeepsInvariant ==
    ASSUME TemplateInvariant, NEW steps \in Nat, NEW tags \in TemplateTags,
           NEW policy \in Policy \cup {Missing},
           WriteTemplate(steps, TagsWithPolicy(tags, policy, steps)),
           Agrees(IF policy = Missing THEN PolicyFromTags(tags, steps) ELSE policy,
                  declared', dropped')
    PROVE  TemplateInvariant'
  <1> DEFINE stored == TagsWithPolicy(tags, policy, steps)
             p == IF policy = Missing THEN PolicyFromTags(tags, steps) ELSE policy
  <1>1. /\ stored \in TemplateTags /\ stored.units > 0
        /\ PolicyFromTags(stored, steps) = p
    BY PolicyReadsBack
  <1> HIDE DEF stored, p
  <1>2. template' = [steps |-> steps, tags |-> stored] /\ version' \in 0..MaxEdits
    BY TemplateAssumption DEF WriteTemplate, TemplateInvariant, TemplateTypeOK, stored
  <1>3. PolicyOf(template)' = p
    BY <1>1, <1>2 DEF PolicyOf
  <1>4. Agrees(p, declared', dropped')
    BY DEF p
  <1>5. TemplateTypeOK'
    BY <1>1, <1>2, <1>4 DEF TemplateTypeOK, Agrees, PolicyParts
  <1>6. DeclaredPolicyHolds'
    BY <1>3, <1>4 DEF DeclaredPolicyHolds, Agrees, PolicyParts
  <1> QED
    BY <1>1, <1>2, <1>5, <1>6 DEF TemplateInvariant

\* What an update without a policy says agrees with the policy it derives
\* from its own tags or from the stored ones.
LEMMA UpdateAgrees ==
    ASSUME TemplateInvariant, version > 0,
           NEW tags \in TemplateTags \cup {Missing}, NEW steps \in Nat
    PROVE  Agrees(PolicyFromTags(IF tags = Missing THEN template.tags ELSE tags, steps),
                  Declaring(tags, Missing), Dropping(tags, Missing))
  <1>1. CASE tags = Missing
    <2>1. template.tags.units > 0
      BY DEF TemplateInvariant
    <2>2. PolicyFromTags(template.tags, steps) = PolicyOf(template)
      BY <2>1 DEF PolicyFromTags, PolicyOf, UnitsOf
    <2>3. Declaring(tags, Missing) = declared /\ Dropping(tags, Missing) = dropped
      BY <1>1 DEF Declaring, Dropping
    <2>4. Agrees(PolicyOf(template), declared, dropped)
      BY DEF TemplateInvariant, TemplateTypeOK, DeclaredPolicyHolds, Agrees, PolicyParts
    <2> QED
      BY <1>1, <2>2, <2>3, <2>4
  <1>2. CASE tags # Missing
    <2> DEFINE p      == PolicyFromTags(tags, steps)
               said   == Declaring(tags, Missing)
               unsaid == Dropping(tags, Missing)
    <2>1. tags \in TemplateTags /\ declared \in Policy
      BY <1>2 DEF TemplateInvariant, TemplateTypeOK
    <2>2. /\ tags.tier \in Tiers \cup {NoTag} /\ tags.approval \in {"required", "none", NoTag}
          /\ tags.units \in Nat
          /\ declared.tier \in Tiers /\ declared.approval \in BOOLEAN
          /\ declared.units \in Nat \ {0}
      BY <2>1 DEF TemplateTags, Policy
    <2>3. said = [tier     |-> IF tags.tier = NoTag THEN declared.tier ELSE tags.tier,
                  approval |-> IF tags.approval = NoTag THEN declared.approval
                               ELSE tags.approval = "required",
                  units    |-> IF tags.units = 0 THEN declared.units ELSE tags.units]
      BY <1>2 DEF Declaring
    <2>4. /\ unsaid \subseteq PolicyParts
          /\ "tier" \in unsaid <=> tags.tier = NoTag
          /\ "approval" \in unsaid <=> tags.approval = NoTag
          /\ "units" \in unsaid <=> tags.units = 0
      BY <1>2 DEF Dropping, PolicyParts
    <2>5. /\ p.tier = IF tags.tier = NoTag THEN "pro" ELSE tags.tier
          /\ p.approval = (tags.approval = "required")
          /\ tags.units # 0 => p.units = tags.units
      BY <2>2 DEF PolicyFromTags, UnitsOf
    <2> HIDE DEF p, said, unsaid
    <2>6. said \in Policy
      <3>1. (IF tags.tier = NoTag THEN declared.tier ELSE tags.tier) \in Tiers
        BY <2>2
      <3>2. (IF tags.approval = NoTag THEN declared.approval
             ELSE tags.approval = "required") \in BOOLEAN
        BY <2>2, Zenon
      <3>3. (IF tags.units = 0 THEN declared.units ELSE tags.units) \in Nat \ {0}
        BY <2>2
      <3> QED
        BY <2>3, <3>1, <3>2, <3>3, Zenon DEF Policy
    <2>7. ASSUME NEW part \in PolicyParts \ unsaid PROVE p[part] = said[part]
      <3>1. CASE part = "tier"
        BY <2>3, <2>4, <2>5, <2>7, <3>1
      <3>2. CASE part = "approval"
        <4>1. said.approval = (tags.approval = "required")
          BY <2>3, <2>4, <2>7, <3>2
        <4> QED
          BY <2>5, <3>2, <4>1
      <3>3. CASE part = "units"
        BY <2>3, <2>4, <2>5, <2>7, <3>3
      <3> QED
        BY <3>1, <3>2, <3>3 DEF PolicyParts
    <2>8. /\ "tier" \in unsaid => p.tier = "pro"
          /\ "approval" \in unsaid => ~p.approval
      BY <2>4, <2>5 DEF NoTag
    <2>9. Agrees(p, said, unsaid)
      BY <2>4, <2>6, <2>7, <2>8 DEF Agrees
    <2> QED
      BY <1>2, <2>9 DEF p, said, unsaid
  <1> QED
    BY <1>1, <1>2

LEMMA TemplateStep == TemplateInvariant /\ TemplateNext => TemplateInvariant'
  <1> SUFFICES ASSUME TemplateInvariant, TemplateNext PROVE TemplateInvariant'
    OBVIOUS
  <1>1. CASE PutTemplate
    <2>1. PICK steps \in StepCounts \ {0}, tags \in TagChoices, policy \in PolicyChoices \cup {Missing} :
             /\ WriteTemplate(steps, TagsWithPolicy(tags, policy, steps))
             /\ declared' = IF policy = Missing THEN PolicyFromTags(tags, steps) ELSE policy
             /\ dropped' = {}
      BY <1>1 DEF PutTemplate
    <2>2. steps \in Nat /\ tags \in TemplateTags /\ policy \in Policy \cup {Missing}
      BY TemplateAssumption
    <2>3. declared' \in Policy
      BY <2>1, <2>2, PolicyIsTyped
    <2>4. Agrees(IF policy = Missing THEN PolicyFromTags(tags, steps) ELSE policy,
                 declared', dropped')
      BY <2>1, <2>3, AgreesWithItself
    <2> QED
      BY <2>1, <2>2, <2>4, WriteKeepsInvariant
  <1>2. CASE UpdateTemplate
    <2>1. PICK steps \in StepCounts \cup {Missing}, tags \in TagChoices \cup {Missing},
               policy \in PolicyChoices \cup {Missing} :
            LET nextSteps == IF steps = Missing THEN template.steps ELSE steps
                nextTags  == IF tags = Missing THEN template.tags ELSE tags
                existing  == PolicyFromTags(nextTags, nextSteps)
            IN  /\ WriteTemplate(nextSteps,
                       TagsWithPolicy(nextTags, IF policy = Missing THEN existing ELSE policy, nextSteps))
                /\ declared' = Declaring(tags, policy)
                /\ dropped' = Dropping(tags, policy)
      BY <1>2 DEF UpdateTemplate
    <2> DEFINE nextSteps == IF steps = Missing THEN template.steps ELSE steps
               nextTags  == IF tags = Missing THEN template.tags ELSE tags
               existing  == PolicyFromTags(nextTags, nextSteps)
               chosen    == IF policy = Missing THEN existing ELSE policy
    <2>2. nextSteps \in Nat /\ nextTags \in TemplateTags
      BY TemplateAssumption DEF TemplateInvariant, TemplateTypeOK
    <2>3. existing \in Policy
      BY <2>2, PolicyIsTyped
    <2>4. /\ chosen \in Policy
          /\ chosen = IF chosen = Missing THEN PolicyFromTags(nextTags, nextSteps) ELSE chosen
      BY <2>3, TemplateAssumption
    <2>5. Agrees(chosen, declared', dropped')
      <3>1. CASE policy = Missing
        <4>1. version > 0 /\ tags \in TemplateTags \cup {Missing}
          BY <1>2, TemplateAssumption DEF UpdateTemplate
        <4>2. Agrees(existing, Declaring(tags, Missing), Dropping(tags, Missing))
          BY <2>2, <4>1, UpdateAgrees
        <4> QED
          BY <2>1, <3>1, <4>2
      <3>2. CASE policy # Missing
        <4>1. declared' = policy /\ dropped' = {} /\ chosen = policy
          BY <2>1, <3>2 DEF Declaring, Dropping
        <4> QED
          BY <2>4, <4>1, AgreesWithItself
      <3> QED
        BY <3>1, <3>2
    <2>6. WriteTemplate(nextSteps, TagsWithPolicy(nextTags, chosen, nextSteps))
      BY <2>1
    <2> HIDE DEF nextSteps, nextTags, existing, chosen
    <2>7. Agrees(IF chosen = Missing THEN PolicyFromTags(nextTags, nextSteps) ELSE chosen,
                 declared', dropped')
      BY <2>4, <2>5
    <2> QED
      BY <2>2, <2>4, <2>6, <2>7, WriteKeepsInvariant
  <1> QED
    BY <1>1, <1>2 DEF TemplateNext
-----------------------------------------------------------------------------
(* Subscriptions *)

LEMMA NoProfileType == NoProfile \in ProfileRow
  BY DEF NoProfile, ProfileRow, SubscriptionTiers

LEMMA FlushProfileIs ==
    ASSUME NEW row \in ProfileRow, NEW copy \in ProfileRow, NEW changed \in ProfileRow
    PROVE  /\ FlushProfile(row, copy, changed) \in ProfileRow
           /\ FlushProfile(row, copy, changed).updated \in {row.updated, changed.updated}
  BY DEF FlushProfile, ProfileRow

LEMMA DecidedIs ==
    ASSUME SubscriptionTypeOK, NEW o \in Operations
    PROVE  Decided(o) \in ProfileRow /\ Decided(o).updated = opStamp[o]
  <1> DEFINE copy == opCopy[o]
             at == opStamp[o]
  <1>1. copy \in ProfileRow /\ at \in Nat /\ opKind[o] \in Kinds /\ now \in Nat
    BY DEF SubscriptionTypeOK
  <1>2. now + Period \in Nat
    BY <1>1, SubscriptionAssumption
  <1> HIDE DEF copy, at
  <1>3. CanceledProfile(copy, at) \in ProfileRow /\ CanceledProfile(copy, at).updated = at
    BY <1>1, <1>2 DEF CanceledProfile, ProfileRow
  <1>4. Reactivated(copy, at) \in ProfileRow /\ Reactivated(copy, at).updated = at
    BY <1>1 DEF Reactivated, ProfileRow
  <1>5. ASSUME NEW tier \in SubscriptionTiers
        PROVE  CheckedOut(copy, tier, at) \in ProfileRow /\ CheckedOut(copy, tier, at).updated = at
    BY <1>1, <1>2 DEF CheckedOut, ProfileRow
  <1> QED
    BY <1>1, <1>3, <1>4, <1>5 DEF Decided, Kinds, copy, at

\* No row is newer than the newest operation.
SubscriptionInvariant ==
    /\ SubscriptionTypeOK
    /\ now > 0
    /\ \A o \in Operations : profile[o].updated <= stamp /\ opStamp[o] <= stamp

\* There is a newest row: the one whose distance to the stamp is least.
LEMMA LatestIs ==
    ASSUME SubscriptionInvariant
    PROVE  /\ Latest \in ProfileRow /\ Latest.updated <= stamp
           /\ Rows = {} => Latest = NoProfile
           /\ Rows # {} => Latest \in Rows /\ \A p \in Rows : p.updated <= Latest.updated
  <1>1. CASE Rows = {}
    BY <1>1, NoProfileType DEF Latest, NoProfile, SubscriptionInvariant, SubscriptionTypeOK
  <1>2. CASE Rows # {}
    <2>1. /\ stamp \in Nat
          /\ \A p \in Rows : p \in ProfileRow /\ p.updated \in Nat /\ p.updated <= stamp
      BY DEF SubscriptionInvariant, SubscriptionTypeOK, Rows, ProfileRow
    <2> DEFINE ages == {stamp - p.updated : p \in Rows}
    <2>2. ages \subseteq Nat /\ ages # {}
      BY <1>2, <2>1
    <2>3. PICK least \in ages : \A age \in ages : ~ (<<age, least>> \in OpToRel(<, Nat))
      <3> HIDE DEF ages
      <3> QED
        BY <2>2, NatLessThanWellFounded, WFMin, Zenon
    <2>4. \A age \in ages : ~ (age < least)
      BY <2>2, <2>3 DEF OpToRel
    <2>5. PICK p \in Rows : least = stamp - p.updated
      BY DEF ages
    <2>6. ASSUME NEW q \in Rows PROVE q.updated <= p.updated
      <3>1. ~ (stamp - q.updated < stamp - p.updated)
        BY <2>4, <2>5
      <3> QED
        BY <2>1, <3>1
    <2>7. \E x \in Rows : \A q \in Rows : q.updated <= x.updated
      BY <2>6
    <2>8. Latest \in Rows /\ \A q \in Rows : q.updated <= Latest.updated
      BY <1>2, <2>7 DEF Latest
    <2> QED
      BY <1>2, <2>1, <2>8
  <1> QED
    BY <1>1, <1>2

LEMMA SubscriptionInitially == SubscriptionInit => SubscriptionInvariant
  <1> SUFFICES ASSUME SubscriptionInit PROVE SubscriptionInvariant
    OBVIOUS
  <1>1. "cancel" \in Kinds /\ "free" \in SubscriptionTiers
    BY DEF Kinds, SubscriptionTiers
  <1>2. NoProfile.updated = 0
    BY DEF NoProfile
  <1>3. SubscriptionTypeOK
    BY <1>1, NoProfileType DEF SubscriptionInit, SubscriptionTypeOK
  <1> QED
    BY <1>2, <1>3 DEF SubscriptionInit, SubscriptionInvariant

LEMMA NotedIsTyped ==
    ASSUME SubscriptionInvariant, now' \in Nat, NoteInForce
    PROVE  lastInForce' \in [SubscriptionTiers -> Nat]
  BY DEF SubscriptionInvariant, SubscriptionTypeOK, NoteInForce

LEMMA SubscriptionStep ==
    SubscriptionInvariant /\ SubscriptionNext /\ NoteInForce => SubscriptionInvariant'
  <1> SUFFICES ASSUME SubscriptionInvariant, SubscriptionNext, NoteInForce
               PROVE  SubscriptionInvariant'
    OBVIOUS
  <1> USE DEF SubscriptionInvariant, SubscriptionTypeOK
  <1>1. ASSUME NEW o \in Operations, NEW kind \in Kinds, OperationRead(o, kind)
        PROVE  SubscriptionInvariant'
    <2>1. lastInForce' \in [SubscriptionTiers -> Nat]
      BY <1>1, NotedIsTyped DEF OperationRead
    <2>2. opKind' \in [Operations -> Kinds] /\ opCopy' \in [Operations -> ProfileRow]
      BY <1>1, LatestIs DEF OperationRead, Kinds, SubscriptionTiers
    <2>3. stamp' = stamp + 1 /\ opStamp' = [opStamp EXCEPT ![o] = stamp + 1] /\ profile' = profile
      BY <1>1 DEF OperationRead
    <2>4. \A p \in Operations : profile'[p].updated <= stamp' /\ opStamp'[p] <= stamp'
      BY <2>3 DEF ProfileRow
    <2>5. raced' \subseteq Operations
      BY <1>1 DEF OperationRead, AtWork
    <2> QED
      BY <1>1, <2>1, <2>2, <2>3, <2>4, <2>5 DEF OperationRead
  <1>2. ASSUME NEW o \in Operations, OperationCommit(o)
        PROVE  SubscriptionInvariant'
    <2>1. lastInForce' \in [SubscriptionTiers -> Nat]
      BY <1>2, NotedIsTyped DEF OperationCommit
    <2> DEFINE decided == Decided(o)
    <2>2. decided \in ProfileRow /\ decided.updated = opStamp[o]
      BY DecidedIs
    <2>3. /\ profile' \in [Operations -> ProfileRow]
          /\ \A p \in Operations : profile'[p].updated <= stamp
      <3>1. CASE opCopy[o] = NoProfile
        <4>1. [decided EXCEPT !.id = o] \in ProfileRow /\ [decided EXCEPT !.id = o].updated = opStamp[o]
          BY <2>2 DEF ProfileRow
        <4>2. profile' = [profile EXCEPT ![o] = [decided EXCEPT !.id = o]]
          BY <1>2, <3>1 DEF OperationCommit
        <4> HIDE DEF decided
        <4> QED
          BY <4>1, <4>2
      <3>2. CASE opCopy[o] # NoProfile
        <4> DEFINE i == opCopy[o].id
        <4>1. profile' = [profile EXCEPT ![i] = FlushProfile(profile[i], opCopy[o], decided)]
          BY <1>2, <3>2 DEF OperationCommit
        <4>2. ASSUME i \in Operations
              PROVE  /\ FlushProfile(profile[i], opCopy[o], decided) \in ProfileRow
                     /\ FlushProfile(profile[i], opCopy[o], decided).updated
                            \in {profile[i].updated, opStamp[o]}
          BY <2>2, <4>2, FlushProfileIs
        <4> HIDE DEF decided, i
        <4> QED
          BY <4>1, <4>2
      <3> QED
        BY <3>1, <3>2
    <2>4. opCopy' \in [Operations -> ProfileRow]
      BY <1>2, NoProfileType DEF OperationCommit
    <2>5. paid' \subseteq SubscriptionTiers
      BY <1>2 DEF OperationCommit
    <2> QED
      BY <1>2, <2>1, <2>3, <2>4, <2>5 DEF OperationCommit
  <1>3. CASE IssueRead
    BY <1>3, LatestIs, NotedIsTyped DEF IssueRead
  <1>4. CASE IssueSign
    <2>1. lastInForce' \in [SubscriptionTiers -> Nat]
      BY <1>4, NotedIsTyped DEF IssueSign
    <2>2. now + TTL \in Nat
      BY SubscriptionAssumption
    <2>3. tokens' \subseteq [tier : SubscriptionTiers, exp : Nat]
      BY <1>4, <2>2 DEF IssueSign, ProfileRow
    <2> QED
      BY <1>4, <2>1, <2>3, NoProfileType DEF IssueSign
  <1>5. CASE Tick
    <2>1. now' \in Nat /\ now' > 0
      BY <1>5 DEF Tick
    <2> QED
      BY <1>5, <2>1, NotedIsTyped DEF Tick
  <1> QED
    BY <1>1, <1>2, <1>3, <1>4, <1>5 DEF SubscriptionNext
-----------------------------------------------------------------------------
(* Types *)

\* A request that may still be executed has an execution left.
RunInvariant ==
    /\ run \in [Runs -> Request]
    /\ executions \subseteq Execution
    /\ \A r \in Runs : run[r].pc \in {"gated", "running", "queued"} => run[r].executed < MaxExecutions

AdmissionTypes == TemplateInvariant /\ SubscriptionInvariant /\ RunInvariant

LEMMA ContextsAreTyped ==
    ASSUME SubscriptionInvariant
    PROVE  Contexts \subseteq [tier : Tiers, source : {"entitlement", "default", "legacy_header"}]
  <1>1. tokens \subseteq [tier : Tiers, exp : Nat]
    BY DEF SubscriptionInvariant, SubscriptionTypeOK, SubscriptionTiers, Tiers
  <1> QED
    BY <1>1, AdmissionAssumption DEF Contexts

LEMMA PolicyOfIsTyped == TemplateInvariant => PolicyOf(template) \in Policy /\ template.steps \in Nat
  BY PolicyIsTyped DEF TemplateInvariant, TemplateTypeOK, PolicyOf

LEMMA RunStep ==
    ASSUME AdmissionTypes, NEW r \in Runs, Arrive(r) \/ CheckSteps(r) \/ Execute(r) \/ Retry(r)
    PROVE  RunInvariant'
  <1> USE DEF AdmissionTypes, RunInvariant
  <1>1. CASE Arrive(r)
    <2>1. PICK context \in Contexts, confirmed \in BOOLEAN :
            run' = [run EXCEPT ![r] =
              [NoRequest EXCEPT
                !.pc = IF PolicyAdmits(context.tier, confirmed, PolicyOf(template)) THEN "gated" ELSE "refused",
                !.tier = context.tier, !.source = context.source, !.confirmed = confirmed,
                !.steps = template.steps, !.reread = PolicyOf(template).approval,
                !.version = version, !.since = now]]
      BY <1>1 DEF Arrive
    <2>2. /\ context \in [tier : Tiers, source : {"entitlement", "default", "legacy_header"}]
          /\ template.steps \in Nat /\ PolicyOf(template).approval \in BOOLEAN
          /\ version \in Nat /\ now \in Nat /\ 0 \in 0..MaxExecutions /\ 0 < MaxExecutions
      BY ContextsAreTyped, PolicyOfIsTyped, AdmissionAssumption, TemplateAssumption
      DEF Policy, TemplateInvariant, TemplateTypeOK, SubscriptionInvariant, SubscriptionTypeOK
    <2> DEFINE new == [NoRequest EXCEPT
                !.pc = IF PolicyAdmits(context.tier, confirmed, PolicyOf(template)) THEN "gated" ELSE "refused",
                !.tier = context.tier, !.source = context.source, !.confirmed = confirmed,
                !.steps = template.steps, !.reread = PolicyOf(template).approval,
                !.version = version, !.since = now]
    <2>3. new \in Request /\ new.executed = 0
      BY <2>2 DEF Request, NoRequest
    <2>4. run' = [run EXCEPT ![r] = new] /\ executions' = executions
      BY <1>1, <2>1 DEF Arrive
    <2> HIDE DEF new
    <2> QED
      BY <2>2, <2>3, <2>4
  <1>2. CASE CheckSteps(r)
    BY <1>2 DEF CheckSteps, Request
  <1>3. CASE Execute(r)
    <2>1. /\ run[r].executed + 1 \in 0..MaxExecutions
          /\ run[r].pc \in {"running", "queued"}
      BY <1>3, AdmissionAssumption DEF Execute, Request
    <2>2. PICK end \in {"done", "failed", "refused"} :
             run' = [run EXCEPT ![r].pc = end, ![r].executed = @ + 1]
      BY <1>3, <2>1 DEF Execute
    <2>3. Executed(r) \in Execution
      BY PolicyOfIsTyped DEF Executed, Execution, Request
    <2>4. executions' \subseteq Execution
      BY <1>3, <2>3 DEF Execute
    <2>5. run' \in [Runs -> Request]
      BY <2>1, <2>2 DEF Request
    <2>6. \A q \in Runs : run'[q].pc \in {"gated", "running", "queued"} => run'[q].executed < MaxExecutions
      BY <2>2 DEF Request
    <2> QED
      BY <2>4, <2>5, <2>6
  <1>4. CASE Retry(r)
    BY <1>4 DEF Retry, Request
  <1> QED
    BY <1>1, <1>2, <1>3, <1>4

LEMMA AdmissionInit == Init => AdmissionTypes
  <1> SUFFICES ASSUME Init PROVE RunInvariant
    BY TemplateInitially, SubscriptionInitially DEF Init, AdmissionTypes
  <1>1. NoRequest \in Request /\ NoRequest.pc = "idle"
    BY AdmissionAssumption DEF NoRequest, Request, Tiers
  <1> QED
    BY <1>1 DEF Init, RunInvariant

LEMMA AdmissionNext == AdmissionTypes /\ [Next]_vars => AdmissionTypes'
  <1> SUFFICES ASSUME AdmissionTypes, [Next]_vars PROVE AdmissionTypes'
    OBVIOUS
  <1>1. UNCHANGED templateVars => TemplateInvariant'
    BY DEF AdmissionTypes, TemplateInvariant, TemplateTypeOK, DeclaredPolicyHolds, templateVars
  <1>2. UNCHANGED subscriptionVars => SubscriptionInvariant'
    BY DEF AdmissionTypes, SubscriptionInvariant, SubscriptionTypeOK, subscriptionVars
  <1>3. UNCHANGED <<run, executions>> => RunInvariant'
    BY DEF AdmissionTypes, RunInvariant
  <1>4. CASE RunNext /\ UNCHANGED subscriptionVars
    <2>1. PICK r \in Runs : Arrive(r) \/ CheckSteps(r) \/ Execute(r) \/ Retry(r)
      BY <1>4 DEF RunNext
    <2>2. UNCHANGED templateVars
      BY <2>1 DEF Arrive, CheckSteps, Execute, Retry
    <2> QED
      BY <1>1, <1>2, <1>4, <2>1, <2>2, RunStep DEF AdmissionTypes
  <1>5. CASE TemplateNext /\ UNCHANGED <<subscriptionVars, run, executions>>
    BY <1>2, <1>3, <1>5, TemplateStep DEF AdmissionTypes
  <1>6. CASE SubscriptionNext /\ NoteInForce /\ UNCHANGED <<templateVars, run, executions>>
    BY <1>1, <1>3, <1>6, SubscriptionStep DEF AdmissionTypes
  <1>7. CASE UNCHANGED vars
    <2>1. UNCHANGED templateVars /\ UNCHANGED subscriptionVars /\ UNCHANGED <<run, executions>>
      BY <1>7 DEF vars, templateVars, subscriptionVars
    <2> QED
      BY <1>1, <1>2, <1>3, <2>1 DEF AdmissionTypes
  <1> QED
    BY <1>4, <1>5, <1>6, <1>7 DEF Next

LEMMA TypesHold == Spec => []AdmissionTypes
  BY AdmissionInit, AdmissionNext, PTL DEF Spec

\* Templates, profiles, tokens and requests keep their types in every
\* behaviour, for any number of edits, operations, runs and retries.
THEOREM TypeCorrect == Spec => []TypeOK
  <1>1. AdmissionTypes => TypeOK
    BY DEF AdmissionTypes, TypeOK, TemplateInvariant, SubscriptionInvariant, RunInvariant
  <1> QED
    BY <1>1, TypesHold, PTL

\* Every part of the policy that a template's tags spell is what a request
\* last said of it, however often the template was edited since, but for the
\* parts that tags sent without a policy left out: of those the tier is pro
\* and no approval is required (update_workflow_template, _tags_with_policy,
\* _template_policy_from_tags).
THEOREM PolicySurvivesEdits == Spec => []DeclaredPolicyHolds
  <1>1. AdmissionTypes => DeclaredPolicyHolds
    BY DEF AdmissionTypes, TemplateInvariant
  <1> QED
    BY <1>1, TypesHold, PTL
-----------------------------------------------------------------------------
(* The gate *)

\* A request the gate let pass is still within the policy as long as nobody
\* has written the template since: its version is that of the row.
GateInvariant ==
    /\ \A r \in Runs :
          /\ run[r].version <= version
          /\ run[r].pc \in {"gated", "running", "queued", "failed"} /\ run[r].version = version =>
                PolicyAdmits(run[r].tier, run[r].confirmed, PolicyOf(template))
    /\ GateHoldsUnlessEdited
    /\ StepsWithinTier

LEMMA GateInitially == Init => GateInvariant
  BY DEF Init, GateInvariant, NoRequest, TemplateInit, GateHoldsUnlessEdited, StepsWithinTier

LEMMA GateRunStep ==
    ASSUME AdmissionTypes, GateInvariant, NEW r \in Runs,
           Arrive(r) \/ CheckSteps(r) \/ Execute(r) \/ Retry(r)
    PROVE  GateInvariant'
  <1>1. version \in Nat /\ run \in [Runs -> Request] /\ UNCHANGED templateVars
    <2>1. version \in Nat /\ run \in [Runs -> Request]
      BY TemplateAssumption DEF AdmissionTypes, TemplateInvariant, TemplateTypeOK, RunInvariant
    <2>2. UNCHANGED templateVars
      BY DEF Arrive, CheckSteps, Execute, Retry
    <2> QED
      BY <2>1, <2>2
  <1>2. PolicyOf(template)' = PolicyOf(template) /\ version' = version
    BY <1>1 DEF templateVars, PolicyOf
  <1>3. CASE Arrive(r)
    <2>1. PICK context \in Contexts, confirmed \in BOOLEAN :
            run' = [run EXCEPT ![r] =
              [NoRequest EXCEPT
                !.pc = IF PolicyAdmits(context.tier, confirmed, PolicyOf(template)) THEN "gated" ELSE "refused",
                !.tier = context.tier, !.source = context.source, !.confirmed = confirmed,
                !.steps = template.steps, !.reread = PolicyOf(template).approval,
                !.version = version, !.since = now]]
      BY <1>3 DEF Arrive
    <2>2. /\ run'[r].version = version
          /\ run'[r].tier = context.tier /\ run'[r].confirmed = confirmed
          /\ run'[r].pc = IF PolicyAdmits(context.tier, confirmed, PolicyOf(template))
                         THEN "gated" ELSE "refused"
          /\ \A q \in Runs \ {r} : run'[q] = run[q]
      BY <1>1, <2>1 DEF NoRequest
    <2>3. executions' = executions
      BY <1>3 DEF Arrive
    <2> QED
      BY <1>1, <1>2, <2>2, <2>3 DEF GateInvariant, GateHoldsUnlessEdited, StepsWithinTier
  <1>4. ASSUME CheckSteps(r) \/ Execute(r) \/ Retry(r)
        PROVE  /\ run'[r].version = run[r].version
               /\ run'[r].tier = run[r].tier /\ run'[r].confirmed = run[r].confirmed
               /\ run[r].pc \in {"gated", "running", "queued", "failed"}
               /\ \A q \in Runs \ {r} : run'[q] = run[q]
    BY <1>1, <1>4 DEF CheckSteps, Execute, Retry, Request
  <1>5. ASSUME CheckSteps(r) \/ Execute(r) \/ Retry(r)
        PROVE  \A q \in Runs :
          /\ run'[q].version <= version'
          /\ run'[q].pc \in {"gated", "running", "queued", "failed"} /\ run'[q].version = version' =>
                PolicyAdmits(run'[q].tier, run'[q].confirmed, PolicyOf(template)')
    BY <1>2, <1>4, <1>5 DEF GateInvariant
  <1>6. CASE CheckSteps(r) \/ Retry(r)
    BY <1>5, <1>6 DEF GateInvariant, GateHoldsUnlessEdited, StepsWithinTier, CheckSteps, Retry
  <1>7. CASE Execute(r)
    <2>1. executions' = executions \/ (executions' = executions \cup {Executed(r)} /\ FitsTier(r))
      BY <1>7 DEF Execute
    <2>2. run[r].pc \in {"running", "queued"}
      BY <1>7 DEF Execute
    <2> DEFINE e == Executed(r)
    <2>3. e.asAdmitted => Rank[e.tier] >= Rank[e.policy.tier] /\ (e.policy.approval => e.confirmed)
      BY <2>2 DEF Executed, GateInvariant, PolicyAdmits
    <2>4. FitsTier(r) => e.steps <= MaxEnabledSteps[e.tier]
      BY DEF FitsTier, Executed
    <2> HIDE DEF e
    <2>5. GateHoldsUnlessEdited' /\ StepsWithinTier'
      BY <2>1, <2>3, <2>4 DEF GateInvariant, GateHoldsUnlessEdited, StepsWithinTier, e
    <2> QED
      BY <1>5, <1>7, <2>5 DEF GateInvariant
  <1> QED
    BY <1>3, <1>6, <1>7

\* Every write of the template takes the next version, so that nothing the
\* gate has let pass is of the new one.
LEMMA GateNext == AdmissionTypes /\ GateInvariant /\ [Next]_vars => GateInvariant'
  <1> SUFFICES ASSUME AdmissionTypes, GateInvariant, [Next]_vars PROVE GateInvariant'
    OBVIOUS
  <1>1. CASE RunNext /\ UNCHANGED subscriptionVars
    BY <1>1, GateRunStep DEF RunNext
  <1>2. CASE TemplateNext /\ UNCHANGED <<subscriptionVars, run, executions>>
    <2>1. version' = version + 1
      BY <1>2 DEF TemplateNext, PutTemplate, UpdateTemplate, WriteTemplate
    <2>2. version \in Nat /\ \A r \in Runs : run[r].version \in Nat
      BY TemplateAssumption DEF AdmissionTypes, TemplateInvariant, TemplateTypeOK, RunInvariant, Request
    <2> QED
      BY <1>2, <2>1, <2>2 DEF GateInvariant, GateHoldsUnlessEdited, StepsWithinTier
  <1>3. ASSUME UNCHANGED templateVars, UNCHANGED <<run, executions>>
        PROVE  GateInvariant'
    BY <1>3 DEF GateInvariant, GateHoldsUnlessEdited, StepsWithinTier, templateVars, PolicyOf
  <1>4. CASE SubscriptionNext /\ NoteInForce /\ UNCHANGED <<templateVars, run, executions>>
    BY <1>3, <1>4
  <1>5. CASE UNCHANGED vars
    BY <1>3, <1>5 DEF vars, templateVars
  <1> QED
    BY <1>1, <1>2, <1>4, <1>5 DEF Next

LEMMA GateHolds == Spec => []GateInvariant
  BY TypesHold, GateInitially, GateNext, PTL DEF Spec

\* A template that was not written since the gate is executed only within
\* its policy, after any number of retries (_enforce_template_policy,
\* retry_queue_job).
THEOREM GateHoldsUntilEdited == Spec => []GateHoldsUnlessEdited
  <1>1. GateInvariant => GateHoldsUnlessEdited
    BY DEF GateInvariant
  <1> QED
    BY <1>1, GateHolds, PTL

\* Whatever became of the template, an execution has no more steps than its
\* tier allows (run_orchestration's own check).
THEOREM ExecutionsFitTheirTier == Spec => []StepsWithinTier
  <1>1. GateInvariant => StepsWithinTier
    BY DEF GateInvariant
  <1> QED
    BY <1>1, GateHolds, PTL
-----------------------------------------------------------------------------
(* Tokens *)

\* A token ends within its life after its tier was last in force, and so does
\* the one that is being signed.
TokenInvariant ==
    /\ \A t \in SubscriptionTiers : lastInForce[t] <= now
    /\ InForce(signing) => lastInForce[signing.tier] = now
    /\ \A k \in tokens : lastInForce[k.tier] > 0 /\ k.exp <= lastInForce[k.tier] + TTL
    /\ TierWasInForce

LEMMA TokensInitially == Init => TokenInvariant
  BY DEF Init, SubscriptionInit, TokenInvariant, InForce, NoProfile, NoRequest, TierWasInForce,
         SubscriptionTiers

\* What is noted never goes back.
LEMMA NotedGrows ==
    ASSUME AdmissionTypes, TokenInvariant, NoteInForce, now' \in Nat, now' >= now
    PROVE  \A t \in SubscriptionTiers : lastInForce'[t] >= lastInForce[t] /\ lastInForce'[t] <= now'
  BY DEF NoteInForce, AdmissionTypes, SubscriptionInvariant, SubscriptionTypeOK, TokenInvariant

LEMMA TokenStep ==
    ASSUME AdmissionTypes, TokenInvariant, SubscriptionNext, NoteInForce, UNCHANGED run
    PROVE  TokenInvariant'
  <1>1. /\ now \in Nat /\ now > 0 /\ signing \in ProfileRow /\ TTL \in Nat
        /\ tokens \subseteq [tier : SubscriptionTiers, exp : Nat]
        /\ lastInForce \in [SubscriptionTiers -> Nat]
    BY SubscriptionAssumption DEF AdmissionTypes, SubscriptionInvariant, SubscriptionTypeOK
  <1>2. lastInForce' \in [SubscriptionTiers -> Nat] /\ now' \in Nat /\ now' >= now
    <2>1. SubscriptionInvariant'
      BY SubscriptionStep DEF AdmissionTypes
    <2>2. now' = now \/ now' = now + 1
      BY DEF SubscriptionNext, OperationRead, OperationCommit, IssueRead, IssueSign, Tick
    <2> QED
      BY <1>1, <2>1, <2>2 DEF SubscriptionInvariant, SubscriptionTypeOK
  <1>3. \A t \in SubscriptionTiers : lastInForce'[t] >= lastInForce[t] /\ lastInForce'[t] <= now'
    BY <1>2, NotedGrows
  <1>4. TierWasInForce'
    <2> SUFFICES ASSUME NEW r \in Runs, run[r].pc # "idle", run[r].source = "entitlement"
                 PROVE  lastInForce'[run[r].tier] > 0 /\ run[r].since < lastInForce'[run[r].tier] + TTL
      BY DEF TierWasInForce
    <2>1. run[r].tier \in SubscriptionTiers /\ run[r].since \in Nat
      BY DEF AdmissionTypes, RunInvariant, Request, Tiers, SubscriptionTiers
    <2>2. lastInForce[run[r].tier] > 0 /\ run[r].since < lastInForce[run[r].tier] + TTL
      BY DEF TokenInvariant, TierWasInForce
    <2> QED
      BY <1>1, <1>2, <1>3, <2>1, <2>2
  <1>5. ASSUME NEW k \in tokens
        PROVE  lastInForce'[k.tier] > 0 /\ k.exp <= lastInForce'[k.tier] + TTL
    <2>1. lastInForce[k.tier] > 0 /\ k.exp <= lastInForce[k.tier] + TTL
      BY DEF TokenInvariant
    <2> QED
      BY <1>1, <1>2, <1>3, <2>1
  <1>6. CASE UNCHANGED <<now, signing, tokens>>
    <2>1. ASSUME InForce(signing) PROVE lastInForce'[signing.tier] = now
      <3>1. signing.tier \in SubscriptionTiers /\ lastInForce[signing.tier] = now
        BY <1>1, <2>1 DEF TokenInvariant, ProfileRow
      <3> QED
        BY <1>2, <1>3, <1>6, <3>1
    <2>2. InForce(signing)' => InForce(signing)
      BY <1>6 DEF InForce
    <2> QED
      BY <1>3, <1>4, <1>5, <1>6, <2>1, <2>2 DEF TokenInvariant
  <1>7. CASE IssueRead
    <2>1. signing' = Latest' /\ tokens' = tokens
      <3>1. Latest' = Latest
        BY <1>7 DEF IssueRead, Latest, Rows
      <3> QED
        BY <1>7, <3>1 DEF IssueRead
    <2>2. InForce(signing)' => lastInForce'[signing'.tier] = now'
      <3>1. signing'.tier \in SubscriptionTiers
        BY <1>7, LatestIs DEF IssueRead, AdmissionTypes, ProfileRow
      <3>2. InForce(signing)' => InForce(Latest)'
        BY <2>1 DEF InForce
      <3> QED
        BY <2>1, <3>1, <3>2 DEF NoteInForce
    <2> QED
      BY <1>3, <1>4, <1>5, <2>1, <2>2 DEF TokenInvariant
  <1>8. CASE IssueSign
    <2>1. ~ InForce(signing)'
      BY <1>8 DEF IssueSign, InForce, NoProfile
    <2>2. ASSUME NEW k \in tokens' \ tokens
          PROVE  lastInForce'[k.tier] > 0 /\ k.exp <= lastInForce'[k.tier] + TTL
      <3>1. InForce(signing) /\ k = [tier |-> signing.tier, exp |-> now + TTL]
        BY <1>8, <2>2 DEF IssueSign, MaySign
      <3>2. signing.tier \in SubscriptionTiers /\ lastInForce[signing.tier] = now
        BY <1>1, <3>1 DEF TokenInvariant, ProfileRow
      <3> QED
        BY <1>1, <1>2, <1>3, <3>1, <3>2
    <2> QED
      BY <1>3, <1>4, <1>5, <2>1, <2>2 DEF TokenInvariant
  <1>9. CASE Tick
    <2>1. ~ InForce(signing)'
      BY <1>9 DEF Tick, InForce, NoProfile
    <2> QED
      BY <1>3, <1>4, <1>5, <1>9, <2>1 DEF TokenInvariant, Tick
  <1> QED
    BY <1>6, <1>7, <1>8, <1>9 DEF SubscriptionNext, OperationRead, OperationCommit

LEMMA TokenNext == AdmissionTypes /\ TokenInvariant /\ [Next]_vars => TokenInvariant'
  <1> SUFFICES ASSUME AdmissionTypes, TokenInvariant, [Next]_vars PROVE TokenInvariant'
    OBVIOUS
  <1>1. ASSUME UNCHANGED subscriptionVars, TierWasInForce' PROVE TokenInvariant'
    BY <1>1 DEF TokenInvariant, subscriptionVars, InForce
  <1>2. CASE RunNext /\ UNCHANGED subscriptionVars
    <2>1. PICK r \in Runs : Arrive(r) \/ CheckSteps(r) \/ Execute(r) \/ Retry(r)
      BY <1>2 DEF RunNext
    <2>2. UNCHANGED lastInForce /\ run \in [Runs -> Request]
      BY <1>2 DEF subscriptionVars, AdmissionTypes, RunInvariant
    <2>3. \A q \in Runs \ {r} : run'[q] = run[q]
      BY <2>1, <2>2 DEF Arrive, CheckSteps, Execute, Retry
    <2>4. ASSUME run'[r].pc # "idle", run'[r].source = "entitlement"
          PROVE  lastInForce[run'[r].tier] > 0 /\ run'[r].since < lastInForce[run'[r].tier] + TTL
      <3>1. CASE Arrive(r)
        <4>1. PICK context \in Contexts :
                 run'[r].tier = context.tier /\ run'[r].source = context.source /\ run'[r].since = now
          BY <2>2, <3>1 DEF Arrive, NoRequest
        <4>2. PICK k \in tokens : Valid(k) /\ context.tier = k.tier
          BY <2>4, <4>1 DEF Contexts
        <4>3. /\ lastInForce[k.tier] > 0 /\ k.exp <= lastInForce[k.tier] + TTL
              /\ k.exp \in Nat /\ now \in Nat /\ lastInForce[k.tier] \in Nat /\ TTL \in Nat
          BY SubscriptionAssumption
          DEF TokenInvariant, AdmissionTypes, SubscriptionInvariant, SubscriptionTypeOK
        <4> QED
          BY <4>1, <4>2, <4>3 DEF Valid
      <3>2. CASE CheckSteps(r) \/ Execute(r) \/ Retry(r)
        <4>1. /\ run[r].pc # "idle" /\ run'[r].tier = run[r].tier
              /\ run'[r].source = run[r].source /\ run'[r].since = run[r].since
          BY <2>2, <3>2 DEF CheckSteps, Execute, Retry, Request
        <4> QED
          BY <2>4, <4>1 DEF TokenInvariant, TierWasInForce
      <3> QED
        BY <2>1, <3>1, <3>2
    <2>5. TierWasInForce'
      BY <2>2, <2>3, <2>4 DEF TokenInvariant, TierWasInForce
    <2> QED
      BY <1>1, <1>2, <2>5
  <1>3. ASSUME UNCHANGED subscriptionVars, UNCHANGED run PROVE TokenInvariant'
    <2>1. TierWasInForce'
      BY <1>3 DEF TokenInvariant, TierWasInForce, subscriptionVars
    <2> QED
      BY <1>1, <1>3, <2>1
  <1>4. CASE TemplateNext /\ UNCHANGED <<subscriptionVars, run, executions>>
    BY <1>3, <1>4
  <1>5. CASE SubscriptionNext /\ NoteInForce /\ UNCHANGED <<templateVars, run, executions>>
    BY <1>5, TokenStep
  <1>6. CASE UNCHANGED vars
    BY <1>3, <1>6 DEF vars, subscriptionVars
  <1> QED
    BY <1>2, <1>4, <1>5, <1>6 DEF Next

\* A request with a token runs under a tier that was in force for its subject
\* less than a token's life before, whatever operations overlapped
\* (GET /monetization/entitlement, resolve_entitlement_context).
THEOREM SignedTiersWereInForce == Spec => []TierWasInForce
  <1>1. TokenInvariant => TierWasInForce
    BY DEF TokenInvariant
  <1> QED
    BY <1>1, TypesHold, TokensInitially, TokenNext, PTL DEF Spec
-----------------------------------------------------------------------------
(* What a race of checkouts can change *)

Present(i) == profile[i].status # "absent"

RowsAgree == \A i \in Operations :
    Present(i) => profile[i].id = i /\ profile[i].entitlements = profile[i].tier

\* An operation that found nothing is no reactivation, and a row there is by
\* now came in a race with it; one that found a row writes that row, which
\* is as it was unless the operation raced.
FoundNothing(o) ==
    /\ opCopy[o] = NoProfile /\ opKind[o] # "reactivate"
    /\ "free" \in paid
    /\ \A i \in Operations : profile[i].status # "absent" => {i, o} \subseteq raced

FoundRow(o) ==
    /\ opCopy[o].id \in Operations /\ opCopy[o].status # "absent"
    /\ opCopy[o].entitlements = opCopy[o].tier /\ opCopy[o].updated < opStamp[o]
    /\ profile[opCopy[o].id].status # "absent" /\ profile[opCopy[o].id].tier \in paid
    /\ o \notin raced => profile[opCopy[o].id] = opCopy[o]

CopiesAgree == \A o \in AtWork : FoundNothing(o) \/ FoundRow(o)

RacesNoted ==
    /\ \A o, p \in AtWork : o = p \/ {o, p} \subseteq raced
    /\ \A i, k \in Operations : Present(i) /\ Present(k) => i = k \/ {i, k} \subseteq raced

\* A row with a tier that counts no more is older than one that counts and
\* than what any operation at work will write; so are all rows, for an
\* operation that is alone.
PaidIsLatest ==
    /\ (\A i \in Operations : ~Present(i)) => "free" \in paid
    /\ \A i \in Operations : Present(i) /\ profile[i].tier \notin paid =>
          /\ \E k \in Operations : /\ Present(k) /\ profile[k].tier \in paid
                                  /\ profile[i].updated < profile[k].updated
          /\ \A o \in AtWork : profile[i].updated < opStamp[o]
    /\ \A o \in AtWork \ raced : \A i \in Operations :
          Present(i) => profile[i].updated < opStamp[o]

ProfileInvariant == RowsAgree /\ CopiesAgree /\ RacesNoted /\ PaidIsLatest

LEMMA RowsArePresent ==
    ASSUME SubscriptionTypeOK
    PROVE  /\ \A p \in Rows : \E i \in Operations : Present(i) /\ p = profile[i]
           /\ \A i \in Operations : Present(i) => profile[i] \in Rows
  BY DEF SubscriptionTypeOK, Rows, Present

\* The newest row is one that counts.
LEMMA LatestIsPaid ==
    ASSUME SubscriptionInvariant, ProfileInvariant
    PROVE  /\ Latest.tier \in paid
           /\ \/ Latest = NoProfile /\ \A i \in Operations : ~Present(i)
              \/ Latest.id \in Operations /\ Present(Latest.id) /\ Latest = profile[Latest.id]
  <1>t. SubscriptionTypeOK
    BY DEF SubscriptionInvariant
  <1>1. CASE Rows = {}
    <2>1. Latest = NoProfile /\ \A i \in Operations : ~Present(i)
      BY <1>t, <1>1, LatestIs, RowsArePresent
    <2> QED
      BY <2>1 DEF ProfileInvariant, PaidIsLatest, NoProfile
  <1>2. CASE Rows # {}
    <2>1. Latest \in Rows /\ \A p \in Rows : p.updated <= Latest.updated
      BY <1>2, LatestIs
    <2>2. PICK i \in Operations : Present(i) /\ Latest = profile[i]
      BY <1>t, <2>1, RowsArePresent
    <2>3. profile[i].id = i
      BY <2>2 DEF ProfileInvariant, RowsAgree
    <2>4. profile[i].tier \in paid
      <3> SUFFICES ASSUME profile[i].tier \notin paid PROVE FALSE
        OBVIOUS
      <3>1. PICK k \in Operations : Present(k) /\ profile[i].updated < profile[k].updated
        BY <2>2 DEF ProfileInvariant, PaidIsLatest
      <3>2. profile[k].updated <= profile[i].updated
        BY <1>t, <2>1, <2>2, <3>1, RowsArePresent
      <3>3. profile[i].updated \in Nat /\ profile[k].updated \in Nat
        BY <1>t DEF SubscriptionTypeOK, ProfileRow
      <3> QED
        BY <3>1, <3>2, <3>3
    <2> QED
      BY <2>2, <2>3, <2>4
  <1> QED
    BY <1>1, <1>2

\* The columns a flush leaves in the row.
LEMMA Flushed ==
    ASSUME NEW row \in ProfileRow, NEW copy \in ProfileRow, NEW changed \in ProfileRow,
           row.entitlements = row.tier, copy.entitlements = copy.tier,
           changed.entitlements = changed.tier, changed.id = copy.id,
           row.status # "absent", changed.status # "absent", copy.updated # changed.updated
    PROVE  LET flushed == FlushProfile(row, copy, changed)
           IN  /\ flushed.id = row.id /\ flushed.status # "absent"
               /\ flushed.entitlements = flushed.tier /\ flushed.updated = changed.updated
               /\ flushed.tier = IF changed.tier = copy.tier THEN row.tier ELSE changed.tier
  BY DEF FlushProfile, ProfileRow

\* What an operation makes of the copy it read.
LEMMA DecidedKeeps ==
    ASSUME SubscriptionTypeOK, NEW o \in Operations,
           opKind[o] = "reactivate" => opCopy[o] # NoProfile,
           opCopy[o].entitlements = opCopy[o].tier
    PROVE  /\ Decided(o).id = opCopy[o].id
           /\ opCopy[o] = NoProfile \/ opCopy[o].status # "absent" => Decided(o).status # "absent"
           /\ Decided(o).tier = IF opKind[o] \in SubscriptionTiers THEN opKind[o] ELSE opCopy[o].tier
           /\ Decided(o).entitlements = Decided(o).tier
  <1> DEFINE copy == opCopy[o]
             at == opStamp[o]
  <1>1. copy \in ProfileRow /\ opKind[o] \in Kinds /\ copy.entitlements = copy.tier
    BY DEF SubscriptionTypeOK
  <1>2. Decided(o) = CASE opKind[o] = "cancel"     -> CanceledProfile(copy, at)
                       [] opKind[o] = "reactivate" -> Reactivated(copy, at)
                       [] OTHER                    -> CheckedOut(copy, opKind[o], at)
    BY DEF Decided
  <1>3. copy = NoProfile \/ copy.status # "absent" =>
            /\ CanceledProfile(copy, at).status # "absent"
            /\ copy # NoProfile => Reactivated(copy, at).status # "absent"
    <2> HIDE DEF copy, at
    <2> QED
      BY <1>1 DEF CanceledProfile, Reactivated, ProfileRow, NoProfile
  <1>4. /\ CanceledProfile(copy, at).id = copy.id /\ CanceledProfile(copy, at).tier = copy.tier
        /\ CanceledProfile(copy, at).entitlements = copy.tier
        /\ Reactivated(copy, at).id = copy.id /\ Reactivated(copy, at).tier = copy.tier
        /\ Reactivated(copy, at).entitlements = copy.tier
    <2> HIDE DEF copy, at
    <2> QED
      BY <1>1 DEF CanceledProfile, Reactivated, ProfileRow, NoProfile
  <1>5. ASSUME NEW tier \in SubscriptionTiers
        PROVE  /\ CheckedOut(copy, tier, at).id = copy.id
               /\ CheckedOut(copy, tier, at).tier = tier
               /\ CheckedOut(copy, tier, at).entitlements = tier
               /\ CheckedOut(copy, tier, at).status = "active"
    <2> HIDE DEF copy, at
    <2> QED
      BY <1>1 DEF CheckedOut, ProfileRow
  <1> HIDE DEF copy, at
  <1> QED
    BY <1>1, <1>2, <1>3, <1>4, <1>5 DEF Kinds, SubscriptionTiers, copy

LEMMA ProfileInitially == Init => ProfileInvariant
  BY DEF Init, SubscriptionInit, ProfileInvariant, RowsAgree, CopiesAgree, RacesNoted,
         PaidIsLatest, Present, AtWork, NoProfile

LEMMA ReadKeepsProfile ==
    ASSUME SubscriptionInvariant, ProfileInvariant, NEW o \in Operations, NEW kind \in Kinds,
           OperationRead(o, kind)
    PROVE  ProfileInvariant'
  <1>t. SubscriptionTypeOK
    BY DEF SubscriptionInvariant
  <1>1. /\ AtWork' = AtWork \cup {o} /\ o \notin AtWork
        /\ opCopy' = [opCopy EXCEPT ![o] = Latest]
        /\ opKind' = [opKind EXCEPT ![o] =
                          IF kind = "reactivate" /\ Latest = NoProfile THEN "free" ELSE kind]
        /\ stamp' = stamp + 1 /\ opStamp' = [opStamp EXCEPT ![o] = stamp + 1]
        /\ opCopy \in [Operations -> ProfileRow] /\ opKind \in [Operations -> Kinds]
        /\ opStamp \in [Operations -> Nat] /\ stamp \in Nat
        /\ profile' = profile /\ paid' = paid
        /\ raced' = IF AtWork = {} THEN raced ELSE raced \cup AtWork \cup {o}
    BY <1>t DEF OperationRead, AtWork, SubscriptionTypeOK
  <1>2. /\ opCopy'[o] = Latest /\ opStamp'[o] = stamp + 1
        /\ opKind'[o] = "reactivate" => Latest # NoProfile
        /\ \A p \in AtWork : /\ p \in Operations /\ p # o /\ opCopy'[p] = opCopy[p]
                             /\ opKind'[p] = opKind[p] /\ opStamp'[p] = opStamp[p] /\ p \in raced'
    BY <1>1 DEF AtWork
  <1>3. /\ \A i \in Operations : Present(i)' = Present(i)
        /\ \A i \in Operations : profile[i].updated \in Nat /\ profile[i].updated < stamp + 1
    BY <1>1, <1>t DEF Present, SubscriptionInvariant, SubscriptionTypeOK, ProfileRow
  <1>4. RowsAgree'
    BY <1>1, <1>3 DEF ProfileInvariant, RowsAgree
  <1>5. RacesNoted'
    BY <1>1, <1>3 DEF ProfileInvariant, RacesNoted
  <1>6. CopiesAgree'
    <2>1. ASSUME NEW p \in AtWork
          PROVE  FoundNothing(p)' \/ FoundRow(p)'
      <3>1. raced \subseteq raced'
        BY <1>1
      <3>2. CASE FoundNothing(p)
        BY <1>1, <1>2, <3>1, <3>2 DEF FoundNothing, NoProfile
      <3>3. CASE FoundRow(p)
        BY <1>1, <1>2, <3>1, <3>3 DEF FoundRow
      <3> QED
        BY <3>2, <3>3 DEF ProfileInvariant, CopiesAgree
    <2>2. CASE Latest = NoProfile
      <3>1. \A i \in Operations : ~Present(i)
        BY <2>2, LatestIsPaid DEF NoProfile, Present
      <3>2. "free" \in paid'
        BY <1>1, <3>1 DEF ProfileInvariant, PaidIsLatest
      <3>3. FoundNothing(o)'
        BY <1>1, <1>2, <2>2, <3>1, <3>2 DEF FoundNothing, Present, NoProfile
      <3> QED
        BY <1>1, <2>1, <3>3 DEF CopiesAgree
    <2>3. CASE Latest # NoProfile
      <3>1. /\ Latest.id \in Operations /\ Present(Latest.id) /\ Latest = profile[Latest.id]
            /\ Latest.tier \in paid
        BY <2>3, LatestIsPaid
      <3>2. /\ Latest.status # "absent" /\ Latest.entitlements = Latest.tier
            /\ Latest.updated < stamp + 1
        BY <1>3, <3>1 DEF ProfileInvariant, RowsAgree, Present
      <3>3. FoundRow(o)'
        <4> DEFINE newest == Latest
        <4>1. /\ opCopy'[o] = newest /\ opStamp'[o] = stamp + 1 /\ profile' = profile /\ paid' = paid
              /\ newest.id \in Operations /\ newest = profile[newest.id] /\ newest.tier \in paid
              /\ newest.status # "absent" /\ newest.entitlements = newest.tier
              /\ newest.updated < stamp + 1
          BY <1>1, <1>2, <3>1, <3>2
        <4> HIDE DEF newest
        <4> QED
          BY <4>1 DEF FoundRow
      <3> QED
        BY <1>1, <2>1, <3>3 DEF CopiesAgree
    <2> QED
      BY <2>2, <2>3
  <1>7. PaidIsLatest'
    <2>1. \A i \in Operations : Present(i) /\ profile[i].tier \notin paid =>
             \A p \in AtWork' : profile[i].updated < opStamp'[p]
      BY <1>1, <1>2, <1>3 DEF ProfileInvariant, PaidIsLatest
    <2>2. \A p \in AtWork' \ raced' : \A i \in Operations :
             Present(i) => profile[i].updated < opStamp'[p]
      BY <1>1, <1>2, <1>3
    <2> QED
      BY <1>1, <1>3, <2>1, <2>2 DEF ProfileInvariant, PaidIsLatest
  <1> QED
    BY <1>4, <1>5, <1>6, <1>7 DEF ProfileInvariant

\* The row a commit writes, and that nobody's copy says otherwise of it.
LEMMA CommitWrites ==
    ASSUME SubscriptionInvariant, ProfileInvariant, NEW o \in Operations, OperationCommit(o)
    PROVE  \E i \in Operations :
              /\ \A j \in Operations \ {i} : profile'[j] = profile[j]
              /\ profile'[i].status # "absent" /\ profile'[i].id = i
              /\ profile'[i].entitlements = profile'[i].tier
              /\ profile'[i].updated = opStamp[o]
              /\ profile'[i].tier \in paid'
              /\ IF opCopy[o] = NoProfile THEN i = o ELSE Present(i) /\ i = opCopy[o].id
  <1> DEFINE decided == Decided(o)
             stored == [decided EXCEPT !.id = o]
  <1>t. SubscriptionTypeOK
    BY DEF SubscriptionInvariant
  <1>1. /\ o \in AtWork
        /\ paid' = IF opKind[o] \notin SubscriptionTiers THEN paid
                   ELSE (IF o \in raced THEN paid ELSE {}) \cup {opKind[o]}
        /\ opCopy[o] \in ProfileRow /\ profile \in [Operations -> ProfileRow]
        /\ opStamp[o] \in Nat
    BY <1>t DEF OperationCommit, AtWork, SubscriptionTypeOK
  <1>2. decided \in ProfileRow /\ decided.updated = opStamp[o]
    BY <1>t, DecidedIs
  <1>3. /\ opCopy[o].entitlements = opCopy[o].tier
        /\ opKind[o] = "reactivate" => opCopy[o] # NoProfile
        /\ opCopy[o] = NoProfile \/ opCopy[o].status # "absent"
    BY <1>1 DEF ProfileInvariant, CopiesAgree, FoundNothing, FoundRow, NoProfile
  <1>4. /\ decided.id = opCopy[o].id /\ decided.status # "absent"
        /\ decided.tier = IF opKind[o] \in SubscriptionTiers THEN opKind[o] ELSE opCopy[o].tier
        /\ decided.entitlements = decided.tier
    BY <1>t, <1>3, DecidedKeeps
  <1>5. CASE opCopy[o] = NoProfile
    <2>1. profile' = [profile EXCEPT ![o] = stored]
      BY <1>5 DEF OperationCommit
    <2>2. /\ stored.id = o /\ stored.status = decided.status /\ stored.tier = decided.tier
          /\ stored.entitlements = decided.entitlements /\ stored.updated = decided.updated
      <3> HIDE DEF decided
      <3> QED
        BY <1>2 DEF ProfileRow
    <2>3. profile'[o] = stored /\ \A j \in Operations \ {o} : profile'[j] = profile[j]
      BY <1>1, <2>1
    <2>4. decided.tier \in paid'
      <3>1. CASE opKind[o] \in SubscriptionTiers
        BY <1>1, <1>4, <3>1
      <3>2. CASE opKind[o] \notin SubscriptionTiers
        <4>1. "free" \in paid /\ opCopy[o].tier = "free"
          BY <1>1, <1>5 DEF ProfileInvariant, CopiesAgree, FoundNothing, FoundRow, NoProfile, Present
        <4> QED
          BY <1>1, <1>4, <3>2, <4>1
      <3> QED
        BY <3>1, <3>2
    <2> HIDE DEF decided, stored
    <2> QED
      BY <1>2, <1>4, <1>5, <2>2, <2>3, <2>4
  <1>6. CASE opCopy[o] # NoProfile
    <2> DEFINE copy == opCopy[o]
               i == copy.id
               flushed == FlushProfile(profile[i], copy, decided)
    <2>1. /\ i \in Operations /\ copy.status # "absent" /\ copy.updated < opStamp[o]
          /\ Present(i) /\ profile[i].tier \in paid
          /\ o \notin raced => profile[i] = copy
      BY <1>1, <1>6 DEF ProfileInvariant, CopiesAgree, FoundNothing, FoundRow, Present
    <2>2. profile' = [profile EXCEPT ![i] = flushed]
      BY <1>6 DEF OperationCommit
    <2>3. profile'[i] = flushed /\ \A j \in Operations \ {i} : profile'[j] = profile[j]
      <3> HIDE DEF flushed
      <3> QED
        BY <1>1, <2>1, <2>2
    <2>4. /\ profile[i] \in ProfileRow /\ profile[i].id = i
          /\ profile[i].entitlements = profile[i].tier /\ profile[i].status # "absent"
      BY <1>1, <2>1 DEF ProfileInvariant, RowsAgree, Present
    <2>5. copy.updated # decided.updated
      BY <1>1, <1>2, <2>1 DEF ProfileRow
    <2> HIDE DEF decided
    <2>6. /\ flushed.id = i /\ flushed.status # "absent" /\ flushed.entitlements = flushed.tier
          /\ flushed.updated = decided.updated
          /\ flushed.tier = IF decided.tier = copy.tier THEN profile[i].tier ELSE decided.tier
      BY <1>1, <1>2, <1>3, <1>4, <2>4, <2>5, Flushed
    <2> HIDE DEF flushed, i
    <2>7. flushed.tier \in paid'
      <3>1. CASE opKind[o] \notin SubscriptionTiers
        BY <1>1, <1>4, <2>1, <2>6, <3>1
      <3>2. CASE opKind[o] \in SubscriptionTiers /\ o \in raced
        BY <1>1, <1>4, <2>1, <2>6, <3>2
      <3>3. CASE opKind[o] \in SubscriptionTiers /\ o \notin raced
        BY <1>1, <1>4, <2>1, <2>6, <3>3
      <3> QED
        BY <3>1, <3>2, <3>3
    <2> QED
      BY <1>2, <1>6, <2>1, <2>3, <2>6, <2>7 DEF i
  <1> QED
    BY <1>5, <1>6

LEMMA CommitKeepsProfile ==
    ASSUME SubscriptionInvariant, ProfileInvariant, NEW o \in Operations, OperationCommit(o)
    PROVE  ProfileInvariant'
  <1>t. SubscriptionTypeOK
    BY DEF SubscriptionInvariant
  <1>1. /\ AtWork' = AtWork \ {o} /\ o \in AtWork
        /\ opCopy' = [opCopy EXCEPT ![o] = NoProfile]
        /\ opKind' = opKind /\ opStamp' = opStamp /\ raced' = raced
        /\ paid' = IF opKind[o] \notin SubscriptionTiers THEN paid
                   ELSE (IF o \in raced THEN paid ELSE {}) \cup {opKind[o]}
        /\ opCopy \in [Operations -> ProfileRow] /\ profile \in [Operations -> ProfileRow]
        /\ opStamp \in [Operations -> Nat]
    BY <1>t DEF OperationCommit, AtWork, SubscriptionTypeOK
  <1>2. PICK i \in Operations :
              /\ \A j \in Operations \ {i} : profile'[j] = profile[j]
              /\ profile'[i].status # "absent" /\ profile'[i].id = i
              /\ profile'[i].entitlements = profile'[i].tier
              /\ profile'[i].updated = opStamp[o]
              /\ profile'[i].tier \in paid'
              /\ IF opCopy[o] = NoProfile THEN i = o ELSE Present(i) /\ i = opCopy[o].id
    BY CommitWrites
  <1>3. Present(i)' /\ \A j \in Operations \ {i} : Present(j)' = Present(j)
    BY <1>2 DEF Present
  <1>4. \A p \in AtWork' : /\ p \in Operations /\ p \in AtWork /\ {o, p} \subseteq raced /\ p # o
                           /\ opCopy'[p] = opCopy[p]
    BY <1>1 DEF ProfileInvariant, RacesNoted, AtWork
  <1>5. RowsAgree'
    BY <1>2, <1>3 DEF ProfileInvariant, RowsAgree
  <1>6. \A j \in Operations \ {i} : Present(j) => {i, j} \subseteq raced
    <2>1. CASE opCopy[o] = NoProfile
      BY <1>1, <1>2, <2>1 DEF ProfileInvariant, CopiesAgree, FoundNothing, FoundRow, NoProfile, Present
    <2>2. CASE opCopy[o] # NoProfile
      BY <1>2, <2>2 DEF ProfileInvariant, RacesNoted
    <2> QED
      BY <2>1, <2>2
  <1>7. RacesNoted'
    BY <1>1, <1>3, <1>6 DEF ProfileInvariant, RacesNoted
  <1>8. \A p \in AtWork' : paid \subseteq paid'
    BY <1>1, <1>4
  <1>9. CopiesAgree'
    <2> SUFFICES ASSUME NEW p \in AtWork' PROVE FoundNothing(p)' \/ FoundRow(p)'
      BY DEF CopiesAgree
    <2>1. p \in AtWork /\ p \in raced /\ o \in raced /\ opCopy'[p] = opCopy[p] /\ paid \subseteq paid'
      BY <1>4, <1>8
    <2>2. CASE FoundNothing(p)
      <3>1. i \in raced
        <4>1. CASE opCopy[o] = NoProfile
          BY <1>2, <2>1, <4>1
        <4>2. CASE opCopy[o] # NoProfile
          BY <1>2, <2>2, <4>2 DEF FoundNothing, Present
        <4> QED
          BY <4>1, <4>2
      <3>2. \A k \in Operations : profile'[k].status # "absent" => {k, p} \subseteq raced
        BY <1>2, <2>1, <2>2, <3>1 DEF FoundNothing
      <3> QED
        BY <1>1, <2>1, <2>2, <3>2 DEF FoundNothing, NoProfile
    <2>3. CASE FoundRow(p)
      <3>1. profile'[opCopy[p].id].tier \in paid' /\ profile'[opCopy[p].id].status # "absent"
        BY <1>2, <2>1, <2>3 DEF FoundRow
      <3> QED
        BY <1>1, <2>1, <2>3, <3>1 DEF FoundRow
    <2> QED
      BY <2>1, <2>2, <2>3 DEF ProfileInvariant, CopiesAgree
  <1>10. PaidIsLatest'
    <2>1. \A j \in Operations : profile[j].updated \in Nat
      BY <1>1 DEF ProfileRow
    <2>2. ASSUME NEW j \in Operations \ {i}, Present(j), profile[j].tier \notin paid'
          PROVE  /\ profile[j].updated < opStamp[o]
                 /\ \A p \in AtWork' : profile[j].updated < opStamp[p]
      <3>1. CASE paid \subseteq paid'
        BY <1>1, <2>2, <3>1 DEF ProfileInvariant, PaidIsLatest
      <3>2. CASE ~ (paid \subseteq paid')
        <4>1. o \notin raced /\ AtWork' = {}
          BY <1>1, <1>8, <3>2
        <4> QED
          BY <1>1, <2>2, <4>1 DEF ProfileInvariant, PaidIsLatest
      <3> QED
        BY <3>1, <3>2
    <2>3. \A j \in Operations : Present(j)' /\ profile'[j].tier \notin paid' =>
             /\ \E k \in Operations : /\ Present(k)' /\ profile'[k].tier \in paid'
                                      /\ profile'[j].updated < profile'[k].updated
             /\ \A p \in AtWork' : profile'[j].updated < opStamp'[p]
      BY <1>1, <1>2, <1>3, <2>2
    <2>4. AtWork' \ raced' = {}
      BY <1>1, <1>4
    <2> QED
      BY <1>3, <2>3, <2>4 DEF PaidIsLatest
  <1> QED
    BY <1>5, <1>7, <1>9, <1>10 DEF ProfileInvariant

\* Nothing else touches the rows or an operation's copy.
LEMMA RestKeepsProfile ==
    ASSUME ProfileInvariant, UNCHANGED <<profile, opPc, opKind, opCopy, opStamp, raced, paid>>
    PROVE  ProfileInvariant'
  BY DEF ProfileInvariant, RowsAgree, CopiesAgree, FoundNothing, FoundRow, RacesNoted,
         PaidIsLatest, Present, AtWork, NoProfile

LEMMA ProfileNext == AdmissionTypes /\ ProfileInvariant /\ [Next]_vars => ProfileInvariant'
  <1> SUFFICES ASSUME AdmissionTypes, ProfileInvariant, [Next]_vars PROVE ProfileInvariant'
    OBVIOUS
  <1>1. SubscriptionInvariant
    BY DEF AdmissionTypes
  <1>2. CASE SubscriptionNext
    <2>1. ASSUME NEW o \in Operations, NEW kind \in Kinds, OperationRead(o, kind)
          PROVE  ProfileInvariant'
      BY <1>1, <2>1, ReadKeepsProfile
    <2>2. ASSUME NEW o \in Operations, OperationCommit(o) PROVE ProfileInvariant'
      BY <1>1, <2>2, CommitKeepsProfile
    <2>3. CASE IssueRead \/ IssueSign \/ Tick
      BY <2>3, RestKeepsProfile DEF IssueRead, IssueSign, Tick
    <2> QED
      BY <1>2, <2>1, <2>2, <2>3 DEF SubscriptionNext
  <1>3. CASE UNCHANGED subscriptionVars
    BY <1>3, RestKeepsProfile DEF subscriptionVars
  <1> QED
    BY <1>2, <1>3 DEF Next, vars

\* Whatever checkouts, cancellations and reactivations of a subject overlap,
\* the newest profile has the tier of the last checkout, or of one that raced
\* since a checkout was last alone; only operations that raced leave a second
\* row (start_manual_checkout, cancel_subscription, reactivate_subscription).
THEOREM LastCheckoutCounts == Spec => []CheckoutsTakeEffect
  <1>1. AdmissionTypes /\ ProfileInvariant => CheckoutsTakeEffect
    <2> SUFFICES ASSUME AdmissionTypes, ProfileInvariant PROVE CheckoutsTakeEffect
      OBVIOUS
    <2>1. SubscriptionInvariant /\ SubscriptionTypeOK
      BY DEF AdmissionTypes, SubscriptionInvariant
    <2>2. Latest.tier \in paid
      BY <2>1, LatestIsPaid
    <2>3. ASSUME NEW p \in Rows
          PROVE  \E i \in Operations : /\ Present(i) /\ p = profile[i] /\ p.id = i
                                       /\ p.entitlements = p.tier
      BY <2>1, RowsArePresent DEF ProfileInvariant, RowsAgree
    <2>4. ASSUME NEW p \in Rows, NEW q \in Rows
          PROVE  p = q \/ {p.id, q.id} \subseteq raced
      <3>1. PICK i \in Operations : Present(i) /\ p = profile[i] /\ p.id = i
        BY <2>3
      <3>2. PICK k \in Operations : Present(k) /\ q = profile[k] /\ q.id = k
        BY <2>3
      <3> QED
        BY <3>1, <3>2 DEF ProfileInvariant, RacesNoted
    <2> QED
      BY <2>2, <2>3, <2>4 DEF CheckoutsTakeEffect
  <1> QED
    BY <1>1, TypesHold, ProfileInitially, ProfileNext, PTL DEF Spec
=============================================================================
