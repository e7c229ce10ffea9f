---------------------------- MODULE UsageMetering ----------------------------
(***************************************************************************)
(* The quota of one subject in one billing period: what an API call does   *)
(* around the run it asks for (enforce_monetization_policy_for_run before, *)
(* _write_monetization_event after it), and backfill_current_period_       *)
(* usage_counters, which every request for usage or commercial metrics and *)
(* every start of a process execute.                                       *)
(*                                                                         *)
(* Each call or refresh has a session of its own.  A session reads the     *)
(* newest counter row, keeps the copy, and updates the row later; its      *)
(* flush locks the row until it commits but reads it no more.  A subject   *)
(* without an active subscription has no counter: its usage logs are       *)
(* counted instead.                                                        *)
(***************************************************************************)
EXTENDS Naturals, FiniteSets

CONSTANTS Calls,        \* calls of one metered endpoint
          Refreshes,    \* executions of the counter backfill
          Limit,        \* runs the plan allows in the period
          MaxCrashes    \* bound: failures that end calls or refreshes or hide the logs

ASSUME MeteringAssumption ==
    /\ IsFiniteSet(Calls) /\ IsFiniteSet(Refreshes) /\ Calls # {}
    /\ Calls \cap Refreshes = {}
    /\ Limit \in Nat \ {0}
    /\ MaxCrashes \in Nat

VARIABLES
    subscribed,   \* the subject has an active profile
    present,      \* ids of the period's committed rows of usage_counters
    used,         \* column of those rows
    lastId,       \* newest id given out
    usageLog,     \* calls whose usage_recorded log is committed
    executed,     \* calls whose run was executed or queued
    billed,       \* calls that have updated a counter
    pc,           \* where a session is
    copy,         \* its copy of the counter; id 0: there was none
    counted,      \* logs a refresh has counted
    crashes,
    raced         \* history: the sessions that were at work while another was

state == <<subscribed, present, used, lastId, usageLog, executed, billed, pc,
           copy, counted, crashes>>
vars == <<state, raced>>
-----------------------------------------------------------------------------
Sessions == Calls \cup Refreshes
Ids == 1..Cardinality(Sessions)   \* a session inserts one row at most
NoCopy == [id |-> 0, used |-> 0]

Init ==
    /\ subscribed \in BOOLEAN
    /\ present \in IF subscribed THEN {{}, {1}} ELSE {{}}
    /\ lastId = Cardinality(present)
    /\ used = [i \in Ids |-> 0]
    /\ usageLog = {} /\ executed = {} /\ billed = {}
    /\ pc = [s \in Sessions |-> "idle"]
    /\ copy = [s \in Sessions |-> NoCopy]
    /\ counted = [b \in Refreshes |-> 0]
    /\ crashes = 0
    /\ raced = {}

Goto(s, there) == pc' = [pc EXCEPT ![s] = there]

\* The lookup of _upsert_current_period_counters: the row with the highest id.
NewestCopy ==
    IF present = {} THEN NoCopy
    ELSE LET newest == CHOOSE i \in present : \A k \in present : k <= i
         IN  [id |-> newest, used |-> used[newest]]

ReadCounter(s, there) ==
    /\ copy' = [copy EXCEPT ![s] = NewestCopy]
    /\ Goto(s, there)
    /\ UNCHANGED <<subscribed, present, used, lastId, usageLog, executed, billed, counted, crashes>>

\* A refresh has flushed and not committed: nobody else updates that row.
Locked(i) == \E b \in Refreshes : pc[b] = "counting" /\ copy[b].id = i

\* The flush: an UPDATE that must get the row's lock, or an INSERT.
Flush(s) ==
    IF copy[s].id = 0 THEN lastId' = lastId + 1
    ELSE ~Locked(copy[s].id) /\ UNCHANGED lastId

\* ... and the commit, which leaves the value n in s's row.
CommitRow(i, n) ==
    /\ present' = present \cup {i}
    /\ used' = [used EXCEPT ![i] = n]
-----------------------------------------------------------------------------
(* A call *)

\* Mutant: one unit too many.
HasRoomAtLimit(n) == n <= Limit

HasRoom(n) == n < Limit

CheckRead(c) ==
    /\ pc[c] = "idle" /\ subscribed
    /\ ReadCounter(c, "checking")

\* The decision is committed with its log; an update leaves `used` alone.
CheckCommit(c) ==
    /\ pc[c] = "checking"
    /\ Flush(c)
    /\ IF copy[c].id = 0 THEN CommitRow(lastId', 0) ELSE UNCHANGED <<present, used>>
    /\ Goto(c, IF HasRoom(copy[c].used) THEN "admitted" ELSE "refused")
    /\ copy' = [copy EXCEPT ![c] = NoCopy]
    /\ UNCHANGED <<subscribed, usageLog, executed, billed, counted, crashes>>

\* Without a profile: _count_usage_events.
CheckLogs(c) ==
    /\ pc[c] = "idle" /\ ~subscribed
    /\ Goto(c, IF HasRoom(Cardinality(usageLog)) THEN "admitted" ELSE "refused")
    /\ UNCHANGED <<subscribed, present, used, lastId, usageLog, executed, billed, copy, counted, crashes>>

\* _count_usage_events answers 0 when its query fails, and the call goes on.
CountFails(c) ==
    /\ pc[c] = "idle" /\ ~subscribed
    /\ crashes < MaxCrashes
    /\ crashes' = crashes + 1
    /\ Goto(c, IF HasRoom(0) THEN "admitted" ELSE "refused")
    /\ UNCHANGED <<subscribed, present, used, lastId, usageLog, executed, billed, copy, counted>>

\* run_orchestration's commits, or those of an enqueue.
Execute(c) ==
    /\ pc[c] = "admitted"
    /\ executed' = executed \cup {c}
    /\ Goto(c, "executed")
    /\ UNCHANGED <<subscribed, present, used, lastId, usageLog, billed, copy, counted, crashes>>

\* log_agent_action; without a profile record_plan_usage returns at once.
LogUsage(c) ==
    /\ pc[c] = "executed"
    /\ usageLog' = usageLog \cup {c}
    /\ Goto(c, IF subscribed THEN "logged" ELSE "done")
    /\ UNCHANGED <<subscribed, present, used, lastId, executed, billed, copy, counted, crashes>>

\* record_plan_usage
RecordRead(c) ==
    /\ pc[c] = "logged"
    /\ ReadCounter(c, "recording")

RecordCommit(c) ==
    /\ pc[c] = "recording"
    /\ Flush(c)
    /\ CommitRow(IF copy[c].id = 0 THEN lastId' ELSE copy[c].id, copy[c].used + 1)
    /\ billed' = billed \cup {c}
    /\ copy' = [copy EXCEPT ![c] = NoCopy]
    /\ Goto(c, "done")
    /\ UNCHANGED <<subscribed, usageLog, executed, counted, crashes>>
-----------------------------------------------------------------------------
(* backfill_current_period_usage_counters *)

RefreshRead(b) ==
    /\ pc[b] = "idle" /\ subscribed
    /\ ReadCounter(b, "refreshing")

\* The flush, and the logs of the moment.
RefreshCount(b) ==
    /\ pc[b] = "refreshing"
    /\ Flush(b)
    /\ copy' = [copy EXCEPT ![b].id = IF @ = 0 THEN lastId' ELSE @]
    /\ counted' = [counted EXCEPT ![b] = Cardinality(usageLog)]
    /\ Goto(b, "counting")
    /\ UNCHANGED <<subscribed, present, used, usageLog, executed, billed, crashes>>

\* Mutant: the logs are added to the counter.
RefreshedAdding(b) == copy[b].used + counted[b]

\* Mutant: what the logs have and the counter has not.
RefreshedDifference(b) == counted[b] - copy[b].used

\* Mutant: the counter is kept when it is anything but zero.
RefreshedIfZero(b) == IF copy[b].used = 0 THEN counted[b] ELSE copy[b].used

\* The counter is only ever raised, judged by the copy.
Refreshed(b) == IF copy[b].used < counted[b] THEN counted[b] ELSE copy[b].used

\* A value equal to the copy is not written.
RefreshCommit(b) ==
    /\ pc[b] = "counting"
    /\ CommitRow(copy[b].id, IF Refreshed(b) = copy[b].used THEN used[copy[b].id] ELSE Refreshed(b))
    /\ copy' = [copy EXCEPT ![b] = NoCopy]
    /\ Goto(b, "done")
    /\ UNCHANGED <<subscribed, lastId, usageLog, executed, billed, counted, crashes>>

\* Without a profile there is nothing to refresh.
RefreshNothing(b) ==
    /\ pc[b] = "idle" /\ ~subscribed
    /\ Goto(b, "done")
    /\ UNCHANGED <<subscribed, present, used, lastId, usageLog, executed, billed, copy, counted, crashes>>
-----------------------------------------------------------------------------
Working == {s \in Sessions : pc[s] \notin {"idle", "refused", "done", "lost"}}

\* An exception ends one, the death of a process all that it serves; what
\* was flushed and not committed is rolled back.
Interrupt ==
    /\ crashes < MaxCrashes
    /\ crashes' = crashes + 1
    /\ \E gone \in (SUBSET Working) \ {{}} :
          /\ pc' = [s \in Sessions |-> IF s \in gone THEN "lost" ELSE pc[s]]
          /\ copy' = [s \in Sessions |-> IF s \in gone THEN NoCopy ELSE copy[s]]
    /\ UNCHANGED <<subscribed, present, used, lastId, usageLog, executed, billed, counted>>

CallProceeds(c) ==
    \/ CheckRead(c)
    \/ CheckCommit(c)
    \/ CheckLogs(c)
    \/ CountFails(c)
    \/ Execute(c)
    \/ LogUsage(c)
    \/ RecordRead(c)
    \/ RecordCommit(c)

RefreshProceeds(b) ==
    \/ RefreshRead(b)
    \/ RefreshCount(b)
    \/ RefreshCommit(b)
    \/ RefreshNothing(b)

Quiet == (\A s \in Sessions : pc[s] \in {"refused", "done", "lost"}) /\ UNCHANGED state

Step ==
    \/ \E c \in Calls : CallProceeds(c)
    \/ \E b \in Refreshes : RefreshProceeds(b)
    \/ Interrupt
    \/ Quiet

\* Behaviours without an overlap are what the tests exercise, and what a
\* lock on the counter taken at the check would enforce.
NoteOverlap == raced' = IF Cardinality(Working') > 1 THEN raced \cup Working' ELSE raced

overlapped == raced # {}

Next == Step /\ NoteOverlap

Spec == Init /\ [][Next]_vars
-----------------------------------------------------------------------------
(* Properties *)

TypeOK ==
    /\ subscribed \in BOOLEAN
    /\ present \subseteq Ids
    /\ used \in [Ids -> Nat]
    /\ lastId \in Nat
    /\ usageLog \subseteq Calls /\ executed \subseteq Calls /\ billed \subseteq Calls
    /\ pc \in [Sessions -> {"idle", "checking", "admitted", "refused", "executed", "logged",
                            "recording", "refreshing", "counting", "done", "lost"}]
    /\ copy \in [Sessions -> [id : Ids \cup {0}, used : Nat]]
    /\ counted \in [Refreshes -> Nat]
    /\ crashes \in Nat
    /\ raced \subseteq Sessions

\* However recordings and refreshes interleave, overwrite each other or
\* count the same run, a run is billed twice at most: once by the refresh
\* that counted its log and once by its own recording.
BilledTwiceAtMost == \A i \in present :
    used[i] <= Cardinality(usageLog) + Cardinality(billed)

\* One at a time: a subject never gets more runs than its plan allows, but
\* for one for each failure that came between a run and its recording or
\* made the count of the logs fail, which admits the call; and as long as
\* nothing failed it gets all of them.
QuotaIsExact == ~overlapped =>
    /\ Cardinality(executed) <= Limit + crashes
    /\ crashes = 0 =>
          \A c \in Calls : pc[c] = "refused" => Cardinality(executed) = Limit

\* Two calls that overlap can both be admitted on the last unit; but what a
\* race gives away is its own calls' runs.  The others still fit in the
\* plan, however many raced before or after them.
RacesOverrunAlone == Cardinality(executed \ raced) <= Limit + crashes

\* A recording that overlaps another, or a refresh, can be overwritten, or
\* made in a row that a second insert then hides; but none undoes what a
\* session recorded while it was alone: the newest counter has all of those.
RacesLoseTheirOwn == present # {} => NewestCopy.used >= Cardinality(billed \ raced)

\* One at a time: the period has one counter, it is never ahead of the logs
\* and, when nobody is at work and nothing has failed, says what they say.
CounterFollowsLogs == ~overlapped =>
    /\ Cardinality(present) <= 1
    /\ \A i \in present :
          /\ used[i] <= Cardinality(usageLog)
          /\ Working = {} /\ crashes = 0 => used[i] = Cardinality(usageLog)

\* One at a time: a refresh makes up for every recording a failure cost.
RefreshRepairs == [][\A b \in Refreshes :
    ~overlapped /\ pc[b] = "counting" /\ pc'[b] = "done" =>
        \E i \in present' : used'[i] = Cardinality(usageLog)]_vars

\* docs/deployment-evidence.md, "without double counting": a refresh and the
\* recording of a run never both bill it.
NoDoubleCounting == \A i \in present : used[i] <= Cardinality(usageLog)
=============================================================================
