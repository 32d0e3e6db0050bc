------------------------------- MODULE Notices -------------------------------
(***************************************************************************)
(* The agents' in-app notifications (services/notification.py): an alert   *)
(* is broadcast as one row for each agent who is active, so that everyone  *)
(* reads for themselves, or as one row of nobody's that all agents see.    *)
(* It commits with the transaction that raised it, while agents read and   *)
(* staff come and go.                                                      *)
(***************************************************************************)
EXTENDS Integers, FiniteSets

CONSTANTS
    Staff,          \* agents
    Everyone,       \* agent_id NULL
    Alerts          \* new orders, escalations, flagged payments, low stock

ASSUME NoticesAssumption == Everyone \notin Staff

VARIABLES
    onDuty,         \* Agent.active
    stage,          \* what became of the transaction that raises an alert
    written,        \* the rows it has flushed
    notice,         \* committed Notification rows
    dealtWith       \* history: the agents who have marked an alert, one or all

noticeVars == << onDuty, stage, written, notice, dealtWith >>

NoticeRow == [alert : Alerts, to : Staff \cup {Everyone}, read : BOOLEAN]

-----------------------------------------------------------------------------

\* Mutant of Recipients: an alert nobody is there for is not written.
RecipientsOnDuty == onDuty

\* broadcast: "Nobody to notify yet: keep an unassigned row so it isn't lost."
Recipients == IF onDuty = {} THEN {Everyone} ELSE onDuty

\* notify_new_order and its like, in a transaction of the worker's or a request's.
Broadcast(a) ==
    /\ stage[a] = "none"
    /\ stage' = [stage EXCEPT ![a] = "raising"]
    /\ written' = [written EXCEPT ![a] =
                        {[alert |-> a, to |-> r, read |-> FALSE] : r \in Recipients}]
    /\ UNCHANGED << onDuty, notice, dealtWith >>

CommitBroadcast(a) ==
    /\ stage[a] = "raising"
    /\ stage' = [stage EXCEPT ![a] = "raised"]
    /\ notice' = notice \cup written[a]
    /\ written' = [written EXCEPT ![a] = {}]
    /\ UNCHANGED << onDuty, dealtWith >>

\* What raised the alert is rolled back, and the alert with it.
DropBroadcast(a) ==
    /\ stage[a] = "raising"
    /\ stage' = [stage EXCEPT ![a] = "none"]
    /\ written' = [written EXCEPT ![a] = {}]
    /\ UNCHANGED << onDuty, notice, dealtWith >>

\* _visible_to
VisibleTo(g) == {n \in notice : n.to \in {g, Everyone}}

\* unread_count, and list_notifications when only unread ones are asked for.
Unread(g) == {n \in VisibleTo(g) : ~ n.read}

Marked(ns) == (notice \ ns) \cup {[n EXCEPT !.read = TRUE] : n \in ns}

\* mark_read; a row that has been read is left alone.
MarkRead(g, n) ==
    /\ g \in onDuty
    /\ n \in VisibleTo(g)
    /\ notice' = Marked({n})
    /\ dealtWith' = [dealtWith EXCEPT ![n.alert] = @ \cup {g}]
    /\ UNCHANGED << onDuty, stage, written >>

\* mark_all_read, which also takes what has come since the agent last looked.
MarkAllRead(g) ==
    /\ g \in onDuty
    /\ notice' = Marked(Unread(g))
    /\ dealtWith' = [a \in Alerts |->
                        dealtWith[a] \cup IF \E n \in Unread(g) : n.alert = a THEN {g} ELSE {}]
    /\ UNCHANGED << onDuty, stage, written >>

\* Staff are hired and switched off in the database, not by the program.
StaffChange(g) ==
    /\ onDuty' = IF g \in onDuty THEN onDuty \ {g} ELSE onDuty \cup {g}
    /\ UNCHANGED << stage, written, notice, dealtWith >>

NoticesInit ==
    /\ onDuty = {}
    /\ stage = [a \in Alerts |-> "none"]
    /\ written = [a \in Alerts |-> {}]
    /\ notice = {}
    /\ dealtWith = [a \in Alerts |-> {}]

NoticesNext ==
    \/ \E a \in Alerts : Broadcast(a) \/ CommitBroadcast(a) \/ DropBroadcast(a)
    \/ \E g \in Staff :
        \/ \E n \in notice : MarkRead(g, n)
        \/ MarkAllRead(g)
        \/ StaffChange(g)

NoticesSpec == NoticesInit /\ [][NoticesNext]_noticeVars

-----------------------------------------------------------------------------
(* Properties.                                                             *)

NoticesTypeOK ==
    /\ onDuty \subseteq Staff
    /\ stage \in [Alerts -> {"none", "raising", "raised"}]
    /\ written \in [Alerts -> SUBSET NoticeRow]
    /\ notice \subseteq NoticeRow
    /\ dealtWith \in [Alerts -> SUBSET Staff]

\* No alert is lost and nobody reads for a colleague.  Once what raised it has
\* committed, an alert is unread somewhere until an agent has dealt with it; it
\* ceases to be unread for an agent it was written to only when that agent marks
\* it, and for all when it was written to nobody and one of them does; and no
\* agent has it twice, whoever comes and goes meanwhile.
AlertsReachStaff ==
    /\ \A n \in notice :
           n.read => dealtWith[n.alert] \cap (IF n.to = Everyone THEN Staff ELSE {n.to}) # {}
    /\ \A a \in Alerts : stage[a] = "raised" =>
           /\ dealtWith[a] = {} => \E n \in notice : n.alert = a /\ ~ n.read
           /\ \A g \in Staff : Cardinality({n \in VisibleTo(g) : n.alert = a}) <= 1
=============================================================================
