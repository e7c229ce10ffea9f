---------------------------- MODULE Subscription ----------------------------
(***************************************************************************)
(* The subscription of one subject: rows of subscription_profiles, the     *)
(* operations start_manual_checkout, cancel_subscription and reactivate_   *)
(* subscription, and the signed tokens of GET /monetization/entitlement.   *)
(*                                                                         *)
(* An operation reads the newest row, decides on its copy and commits      *)
(* later; a flush writes the columns that differ from the copy.  No row is *)
(* unique to a subject.  Time is an integer; the handlers are short        *)
(* against a unit of it, so it does not pass while one is at work.         *)
(***************************************************************************)
EXTENDS Naturals, FiniteSets

CONSTANTS Operations,   \* checkouts, cancellations and reactivations
          Period,       \* length of a paid period
          TTL,          \* life of a token
          MaxTime       \* bound on the clock

ASSUME SubscriptionAssumption ==
    /\ IsFiniteSet(Operations)
    /\ Period \in Nat \ {0} /\ TTL \in Nat \ {0} /\ MaxTime \in Nat
    /\ 0 \notin Operations

SubscriptionTiers == {"free", "pro", "power"}

VARIABLES
    now,
    profile,     \* rows by id; an operation inserts one row at most
    stamp,       \* updated_at given to the newest operation
    opPc, opKind, opCopy, opStamp,   \* an operation at work, and its copy
    signing,     \* copy of the profile a token is being issued for
    tokens,      \* tokens in clients' hands
    raced,       \* history: operations that were at work while another was
    paid,        \* history: tiers of the checkouts one of which is the last
    lastInForce  \* history: when a tier was last in force

subscriptionVars == <<now, profile, stamp, opPc, opKind, opCopy, opStamp, signing, tokens,
                      raced, paid, lastInForce>>
-----------------------------------------------------------------------------
NoProfile == [id |-> 0, tier |-> "free", status |-> "absent", ends |-> 0,
              cancel |-> FALSE, entitlements |-> "free", updated |-> 0]

Rows == {p \in {profile[i] : i \in DOMAIN profile} : p.status # "absent"}

\* _get_latest_profile_model
Latest ==
    IF Rows = {} THEN NoProfile
    ELSE CHOOSE p \in Rows : \A q \in Rows : q.updated <= p.updated

InForce(p) == p.status = "active" /\ p.ends > now

Kinds == {"cancel", "reactivate"} \cup SubscriptionTiers   \* a tier: a checkout of it

SubscriptionInit ==
    /\ now = 1
    /\ profile = [o \in Operations |-> NoProfile]
    /\ stamp = 0
    /\ opPc = [o \in Operations |-> "idle"]
    /\ opKind = [o \in Operations |-> "cancel"]
    /\ opCopy = [o \in Operations |-> NoProfile]
    /\ opStamp = [o \in Operations |-> 0]
    /\ signing = NoProfile
    /\ tokens = {}
    /\ raced = {}
    /\ paid = {"free"}
    /\ lastInForce = [t \in SubscriptionTiers |-> 0]

AtWork == {o \in Operations : opPc[o] = "loaded"}

\* The query for the newest row, and utcnow.  A reactivation that finds no
\* profile is a checkout of the free tier from there on.
OperationRead(o, kind) ==
    /\ opPc[o] = "idle"
    /\ opPc' = [opPc EXCEPT ![o] = "loaded"]
    /\ opKind' = [opKind EXCEPT ![o] = IF kind = "reactivate" /\ Latest = NoProfile THEN "free" ELSE kind]
    /\ opCopy' = [opCopy EXCEPT ![o] = Latest]
    /\ stamp' = stamp + 1
    /\ opStamp' = [opStamp EXCEPT ![o] = stamp + 1]
    /\ raced' = IF AtWork = {} THEN raced ELSE raced \cup AtWork \cup {o}
    /\ UNCHANGED <<now, profile, signing, tokens, paid>>

\* Columns whose value differs from the copy are written.
FlushProfile(row, copy, changed) ==
    [c \in DOMAIN row |-> IF changed[c] = copy[c] THEN row[c] ELSE changed[c]]

CheckedOut(copy, tier, at) ==
    [copy EXCEPT !.tier = tier, !.status = "active", !.cancel = FALSE, !.updated = at,
                 !.entitlements = tier,
                 !.ends = IF copy.ends <= now THEN now + Period ELSE copy.ends]

\* Mutant: a cancellation takes the paid tier away at once.
CanceledAtOnce(copy, at) == [copy EXCEPT !.cancel = TRUE, !.tier = "free", !.updated = at]

\* Mutant: a cancellation writes a status no other operation expects.
CanceledStatus(copy, at) == [copy EXCEPT !.status = "canceled", !.cancel = TRUE, !.updated = at]

\* The first cancellation of an unknown subject leaves an inactive row.
CanceledProfile(copy, at) ==
    IF copy = NoProfile
    THEN [copy EXCEPT !.status = "inactive", !.ends = now + Period, !.cancel = TRUE, !.updated = at]
    ELSE [copy EXCEPT !.cancel = TRUE, !.updated = at]

Reactivated(copy, at) ==
    [copy EXCEPT !.cancel = FALSE, !.updated = at,
                 !.status = IF @ = "canceled" THEN "active" ELSE @]

Decided(o) ==
    CASE opKind[o] = "cancel"     -> CanceledProfile(opCopy[o], opStamp[o])
      [] opKind[o] = "reactivate" -> Reactivated(opCopy[o], opStamp[o])
      [] OTHER                    -> CheckedOut(opCopy[o], opKind[o], opStamp[o])

\* The highest updated_at wins the row: two commits of one row write the
\* column in the order of their commits.
OperationCommit(o) ==
    /\ opPc[o] = "loaded"
    /\ opPc' = [opPc EXCEPT ![o] = "done"]
    /\ profile' =
         IF opCopy[o] = NoProfile THEN [profile EXCEPT ![o] = [Decided(o) EXCEPT !.id = o]]
         ELSE [profile EXCEPT ![opCopy[o].id] = FlushProfile(@, opCopy[o], Decided(o))]
    /\ opCopy' = [opCopy EXCEPT ![o] = NoProfile]
    /\ paid' = IF opKind[o] \notin SubscriptionTiers THEN paid
               ELSE (IF o \in raced THEN paid ELSE {}) \cup {opKind[o]}
    /\ UNCHANGED <<now, stamp, opKind, opStamp, signing, tokens, raced>>
-----------------------------------------------------------------------------
(* Tokens *)

IssueRead ==
    /\ signing = NoProfile /\ Rows # {}
    /\ signing' = Latest
    /\ UNCHANGED <<now, profile, stamp, opPc, opKind, opCopy, opStamp, tokens, raced, paid>>

MaySign(p) == InForce(p)

\* 409 when the profile is inactive or its period has ended.
IssueSign ==
    /\ signing # NoProfile
    /\ tokens' = IF MaySign(signing) THEN tokens \cup {[tier |-> signing.tier, exp |-> now + TTL]} ELSE tokens
    /\ signing' = NoProfile
    /\ UNCHANGED <<now, profile, stamp, opPc, opKind, opCopy, opStamp, raced, paid>>

Tick ==
    /\ now < MaxTime
    /\ AtWork = {} /\ signing = NoProfile
    /\ now' = now + 1
    /\ UNCHANGED <<profile, stamp, opPc, opKind, opCopy, opStamp, signing, tokens, raced, paid>>

\* History: what is in force after a step was so at that time.
NoteInForce ==
    lastInForce' = [t \in SubscriptionTiers |->
        IF InForce(Latest)' /\ Latest'.tier = t THEN now' ELSE lastInForce[t]]

SubscriptionNext ==
    \/ \E o \in Operations : (\E kind \in Kinds : OperationRead(o, kind)) \/ OperationCommit(o)
    \/ IssueRead
    \/ IssueSign
    \/ Tick

\* Mutant: an expired token is accepted.
Accepted(token) == TRUE

Valid(token) == token.exp > now
-----------------------------------------------------------------------------
(* Properties *)

ProfileRow == [id : Operations \cup {0}, tier : SubscriptionTiers,
               status : {"absent", "inactive", "active"}, ends : Nat, cancel : BOOLEAN,
               entitlements : SubscriptionTiers, updated : Nat]

SubscriptionTypeOK ==
    /\ now \in Nat /\ stamp \in Nat
    /\ profile \in [Operations -> ProfileRow]
    /\ opPc \in [Operations -> {"idle", "loaded", "done"}]
    /\ opKind \in [Operations -> Kinds]
    /\ opCopy \in [Operations -> ProfileRow]
    /\ opStamp \in [Operations -> Nat]
    /\ signing \in ProfileRow
    /\ tokens \subseteq [tier : SubscriptionTiers, exp : Nat]
    /\ raced \subseteq Operations
    /\ paid \subseteq SubscriptionTiers
    /\ lastInForce \in [SubscriptionTiers -> Nat]

\* Two first checkouts at once leave two profiles, and one of two checkouts
\* at once is the last; but what a race decides ends with it.  The tier of
\* the newest profile is that of the last checkout, or of one that raced
\* since a checkout was last alone, whatever was canceled; no row has the
\* entitlements of another tier, and it takes a race to insert a second.
CheckoutsTakeEffect ==
    /\ Latest.tier \in paid
    /\ \A p \in Rows : p.entitlements = p.tier
    /\ \A p, q \in Rows : p = q \/ {p.id, q.id} \subseteq raced
=============================================================================
