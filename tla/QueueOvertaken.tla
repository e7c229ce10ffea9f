--------------------------- MODULE QueueOvertaken ---------------------------
(***************************************************************************)
(* OrchestrationQueue with a history of the requests that were overtaken:  *)
(* another session committed the job after they read it and before they    *)
(* wrote what they decided on that copy.                                   *)
(***************************************************************************)
EXTENDS OrchestrationQueue

VARIABLE overtaken

historyVars == <<vars, overtaken>>

Stale == {r \in Requests : (Deciding(r) \/ pc[r] = "preparing") /\ loaded[r] # job[target[r]]}

HistoryInit == Init /\ overtaken = {}

HistoryNext == Next /\ overtaken' = overtaken \cup Stale'

HistorySpec == HistoryInit /\ [][HistoryNext]_historyVars /\ Fairness
-----------------------------------------------------------------------------
(* Properties *)

\* The limit of attempts is judged on a copy; each request that was overtaken
\* may start the job once more than the limit allows, and whatever else
\* overlaps none but these does.
OverrunsAreOvertaken == \A j \in Jobs :
    job[j].attempts <= MaxAttempts + Cardinality({r \in overtaken : target[r] = j})

\* The end of a job stands: a retry queues one that failed or was canceled,
\* and otherwise its status changes only after some request on the job was
\* overtaken, like a cancel that read it before it started.
EndingsStand == [][\A j \in Jobs :
    job[j].status \in {"succeeded", "failed", "canceled"} /\ job'[j].status # job[j].status =>
        \/ job[j].status # "succeeded" /\ job'[j].status = "queued"
        \/ \E r \in overtaken : target[r] = j]_historyVars
=============================================================================
