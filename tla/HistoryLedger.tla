---------------------------- MODULE HistoryLedger ----------------------------
(***************************************************************************)
(* services/history_ledger.py: append_history_event, called by every       *)
(* session that writes evidence.  A session looks its event up by uid and, *)
(* if it is not there, inserts it and commits.  Nothing is locked between  *)
(* the two: the unique constraint on event_uid decides, and the session    *)
(* that comes second rolls back and takes the first one's row.             *)
(*                                                                         *)
(* An event stands for its uid: a record of its source row (run and step)  *)
(* and its type.  The hash of the previous event is stored but nothing     *)
(* ever reads it: left out.                                                *)
(***************************************************************************)
EXTENDS Sequences

CONSTANTS Writers,   \* sessions that append
          Events,    \* what can be appended
          NoEvent    \* not one of them

VARIABLES
    historyEvents,   \* committed rows of history_events, in id order
    appending        \* the event a session found missing and will insert

LedgerInit ==
    /\ historyEvents = << >>
    /\ appending = [w \in Writers |-> NoEvent]

\* Mutant: a uid made of the source row alone.
RecordedSource(e) ==
    \E i \in DOMAIN historyEvents :
        historyEvents[i].run = e.run /\ historyEvents[i].step = e.step

\* A row with this uid is committed.
Recorded(e) == \E i \in DOMAIN historyEvents : historyEvents[i] = e

\* The lookup: an event that exists is returned and nothing is written.
AppendRead(w, e) ==
    /\ appending' = [appending EXCEPT ![w] = IF Recorded(e) THEN NoEvent ELSE e]
    /\ UNCHANGED historyEvents

\* Mutant: no unique constraint on event_uid.
AppendCommitAlways(w) ==
    /\ appending[w] # NoEvent
    /\ historyEvents' = Append(historyEvents, appending[w])
    /\ appending' = [appending EXCEPT ![w] = NoEvent]

\* The insert: the constraint turns a second one into a lookup.
AppendCommit(w) ==
    /\ appending[w] # NoEvent
    /\ historyEvents' = IF Recorded(appending[w]) THEN historyEvents
                        ELSE Append(historyEvents, appending[w])
    /\ appending' = [appending EXCEPT ![w] = NoEvent]
-----------------------------------------------------------------------------
LedgerTypeOK ==
    /\ historyEvents \in Seq(Events)
    /\ appending \in [Writers -> Events \cup {NoEvent}]

Ledger == {historyEvents[i] : i \in DOMAIN historyEvents}
=============================================================================
