--------------------------- MODULE TemplatePolicy ---------------------------
(***************************************************************************)
(* One row of workflow_templates: the number of its enabled steps and the  *)
(* policy, which has no columns and is encoded in the tags                 *)
(* (_tags_with_policy, _template_policy_from_tags).  A client sends tags   *)
(* and, optionally, a policy; every write stores tags that spell the whole *)
(* policy out.                                                             *)
(*                                                                         *)
(* Tags are reduced to the keys that decide something: what the first tag  *)
(* of a key says, NoTag or 0 when there is none.  Names, free tags, risk   *)
(* level, tool scopes (encoded like the tier) and the enabled flag (which  *)
(* nothing consults) are left out.                                         *)
(***************************************************************************)
EXTENDS Naturals

CONSTANTS StepCounts,   \* numbers of enabled steps clients choose
          TagChoices,   \* tags clients send
          PolicyChoices,\* policies clients send
          Missing,      \* a field a request leaves out
          MaxEdits      \* bound: creations, updates and imports

Tiers == {"free", "pro", "power"}
NoTag == "absent"

TemplateTags == [tier : Tiers \cup {NoTag}, approval : {"required", "none", NoTag}, units : Nat]
Policy == [tier : Tiers, approval : BOOLEAN, units : Nat \ {0}]

ASSUME TemplateAssumption ==
    /\ StepCounts \subseteq Nat
    /\ TagChoices \subseteq TemplateTags
    /\ PolicyChoices \subseteq Policy
    /\ Missing \notin StepCounts
    /\ Missing \notin TagChoices
    /\ Missing \notin PolicyChoices
    /\ MaxEdits \in Nat

VARIABLES
    template,   \* the row: [steps, tags]
    version,    \* how often it has been written; 0: it does not exist
    declared,   \* history: what requests last said of each part of its policy
    dropped     \* history: parts that the tags sent last did not name

templateVars == <<template, version, declared, dropped>>
-----------------------------------------------------------------------------
Rank == [free |-> 0, pro |-> 1, power |-> 2]

UnitsOf(tags, steps) ==
    IF tags.units > 0 THEN tags.units ELSE IF steps = 0 THEN 1 ELSE steps

PolicyFromTags(tags, steps) ==
    [tier     |-> IF tags.tier = NoTag THEN "pro" ELSE tags.tier,
     approval |-> tags.approval = "required",
     units    |-> UnitsOf(tags, steps)]

\* Mutant: the tags of the request win over its policy.
TagsOverPolicy(tags, policy, steps) ==
    LET p == IF policy = Missing \/ tags.tier # NoTag THEN PolicyFromTags(tags, steps) ELSE policy
    IN  [tier |-> p.tier, approval |-> IF p.approval THEN "required" ELSE "none", units |-> p.units]

\* What is stored: the request's policy, or else the one its tags spell.
TagsWithPolicy(tags, policy, steps) ==
    LET p == IF policy = Missing THEN PolicyFromTags(tags, steps) ELSE policy
    IN  [tier |-> p.tier, approval |-> IF p.approval THEN "required" ELSE "none", units |-> p.units]

PolicyOf(row) == PolicyFromTags(row.tags, row.steps)

NoTemplate == [steps |-> 0, tags |-> [tier |-> NoTag, approval |-> NoTag, units |-> 0]]

TemplateInit ==
    /\ template = NoTemplate
    /\ version = 0
    /\ declared = PolicyOf(NoTemplate)
    /\ dropped = {}

WriteTemplate(steps, tags) ==
    /\ version < MaxEdits
    /\ version' = version + 1
    /\ template' = [steps |-> steps, tags |-> tags]

\* create_workflow_template, and import_workflow_templates, which replaces a
\* row of the same name: the request is the whole template, and what it does
\* not name has its default.  Both validate that a step is enabled.
PutTemplate ==
    \E steps \in StepCounts \ {0}, tags \in TagChoices, policy \in PolicyChoices \cup {Missing} :
        /\ WriteTemplate(steps, TagsWithPolicy(tags, policy, steps))
        /\ declared' = IF policy = Missing THEN PolicyFromTags(tags, steps) ELSE policy
        /\ dropped' = {}

\* History: what a request with these tags and this policy says.
Declaring(tags, policy) ==
    IF policy # Missing THEN policy
    ELSE IF tags = Missing THEN declared
    ELSE [tier     |-> IF tags.tier = NoTag THEN declared.tier ELSE tags.tier,
          approval |-> IF tags.approval = NoTag THEN declared.approval ELSE tags.approval = "required",
          units    |-> IF tags.units = 0 THEN declared.units ELSE tags.units]

\* History: what a request with these tags and this policy leaves unsaid.
Dropping(tags, policy) ==
    IF policy # Missing THEN {}
    ELSE IF tags = Missing THEN dropped
    ELSE (IF tags.tier = NoTag THEN {"tier"} ELSE {})
         \cup (IF tags.approval = NoTag THEN {"approval"} ELSE {})
         \cup (IF tags.units = 0 THEN {"units"} ELSE {})

\* update_workflow_template.  The policy is that of the request or else of
\* the tags: the request's, if it has any, or the ones stored.  No step has
\* to be enabled.
UpdateTemplate ==
    /\ version > 0
    /\ \E steps \in StepCounts \cup {Missing}, tags \in TagChoices \cup {Missing},
          policy \in PolicyChoices \cup {Missing} :
        LET nextSteps == IF steps = Missing THEN template.steps ELSE steps
            nextTags  == IF tags = Missing THEN template.tags ELSE tags
            existing  == PolicyFromTags(nextTags, nextSteps)
        IN  /\ <<steps, tags, policy>> # <<Missing, Missing, Missing>>
            /\ WriteTemplate(nextSteps,
                   TagsWithPolicy(nextTags, IF policy = Missing THEN existing ELSE policy, nextSteps))
            /\ declared' = Declaring(tags, policy)
            /\ dropped' = Dropping(tags, policy)

TemplateNext == PutTemplate \/ UpdateTemplate
-----------------------------------------------------------------------------
(* Properties *)

TemplateTypeOK ==
    /\ template \in [steps : Nat, tags : TemplateTags]
    /\ version \in 0..MaxEdits
    /\ declared \in Policy
    /\ dropped \subseteq {"tier", "approval", "units"}

\* Each part of the policy read back from the tags is what a request last
\* said of it, whatever tags came with a policy and however often the steps
\* were edited since, with one exception: tags sent without a policy replace
\* the stored ones, and a part they do not name is lost.  The tier is then
\* pro, whatever it was, and no approval is required.
DeclaredPolicyHolds ==
    /\ \A part \in {"tier", "approval", "units"} \ dropped :
          PolicyOf(template)[part] = declared[part]
    /\ "tier" \in dropped => PolicyOf(template).tier = "pro"
    /\ "approval" \in dropped => ~PolicyOf(template).approval
=============================================================================
