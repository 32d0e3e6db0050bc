------------------------------- MODULE OrderMail -------------------------------
(***************************************************************************)
(* The e-mails about an order (services/email.py, workers/email_tasks.py,  *)
(* the admin's order routes).  Whoever sends one asks email_log whether a  *)
(* mail of its type has gone out, sends, and writes the log; the worker's  *)
(* jobs and the admins' requests do so side by side.                       *)
(***************************************************************************)
EXTENDS Integers, FiniteSets

CONSTANTS
    Letters,        \* occasions to send a mail: jobs and admins' requests
    Kinds,          \* EmailType
    KindOf,         \* the type of each
    MaxMailCuts     \* bound: deliveries whose sender lost track of them

ASSUME OrderMailAssumption == KindOf \in [Letters -> Kinds] /\ MaxMailCuts \in Nat

VARIABLES
    letter,         \* where each occasion stands
    mailLog,        \* committed EmailLog rows of the order, as << occasion, status >>
    received,       \* history: mails of a type the customer has got
    crossed,        \* history: types two senders worked on at once
    mailCuts        \* history: types of the mails whose sender lost track

mailVars == << letter, mailLog, received, crossed, mailCuts >>

Steps == {"waiting", "queued", "sending", "sent", "failed", "logged", "dropped"}

Under(k) == {l \in Letters : KindOf[l] = k /\ letter[l] \in {"sending", "sent", "failed"}}

-----------------------------------------------------------------------------

\* What the mail is about has happened: confirm_order or update_order_status has
\* committed, or the settlement's job is queued.
Occasion(l) ==
    /\ letter[l] = "waiting"
    /\ letter' = [letter EXCEPT ![l] = "queued"]
    /\ UNCHANGED << mailLog, received, crossed, mailCuts >>

\* Mutant of AlreadySent: any entry of the type will do, even a failed attempt;
\* and no entry of another sender.
AlreadySentByMe(l) == << l, "sent" >> \in mailLog

\* _already_sent.
AlreadySent(l) == \E m \in Letters : KindOf[m] = KindOf[l] /\ << m, "sent" >> \in mailLog

\* send_order_email up to the delivery: nothing to do when a mail of the type
\* has gone out, nor without an order or a recipient.
CheckLog(l) ==
    /\ letter[l] = "queued"
    /\ \/ /\ ~ AlreadySent(l)
          /\ letter' = [letter EXCEPT ![l] = "sending"]
          /\ crossed' = IF Under(KindOf[l]) = {} THEN crossed ELSE crossed \cup {KindOf[l]}
       \/ /\ letter' = [letter EXCEPT ![l] = "dropped"]
          /\ UNCHANGED crossed
    /\ UNCHANGED << mailLog, received, mailCuts >>

\* _deliver: the server takes the mail or does not.
Deliver(l) ==
    /\ letter[l] = "sending"
    /\ \/ /\ letter' = [letter EXCEPT ![l] = "sent"]
          /\ received' = [received EXCEPT ![KindOf[l]] = @ + 1]
       \/ /\ letter' = [letter EXCEPT ![l] = "failed"]
          /\ UNCHANGED received
    /\ UNCHANGED << mailLog, crossed, mailCuts >>

\* _record and the commit.
RecordMail(l) ==
    /\ letter[l] \in {"sent", "failed"}
    /\ mailLog' = mailLog \cup {<< l, letter[l] >>}
    /\ letter' = [letter EXCEPT ![l] = "logged"]
    /\ UNCHANGED << received, crossed, mailCuts >>

\* The server has taken the mail but its answer is late, or the worker stops
\* before the commit; a job that was stopped is run again.
LoseTrack(l) ==
    /\ letter[l] \in {"sending", "sent"}
    /\ Cardinality(mailCuts) < MaxMailCuts
    /\ received' = IF letter[l] = "sending"
                     THEN [received EXCEPT ![KindOf[l]] = @ + 1] ELSE received
    /\ \E step \in {"queued", "failed", "dropped"} :
        /\ step = "failed" => letter[l] = "sending"
        /\ letter' = [letter EXCEPT ![l] = step]
    /\ mailCuts' = mailCuts \cup {KindOf[l]}
    /\ UNCHANGED << mailLog, crossed >>

OrderMailInit ==
    /\ letter = [l \in Letters |-> "waiting"]
    /\ mailLog = {}
    /\ received = [k \in Kinds |-> 0]
    /\ crossed = {}
    /\ mailCuts = {}

OrderMailNext ==
    \E l \in Letters :
        \/ Occasion(l)
        \/ CheckLog(l)
        \/ Deliver(l)
        \/ RecordMail(l)
        \/ LoseTrack(l)

OrderMailSpec == OrderMailInit /\ [][OrderMailNext]_mailVars

-----------------------------------------------------------------------------
(* Properties.                                                             *)

OrderMailTypeOK ==
    /\ letter \in [Letters -> Steps]
    /\ mailLog \subseteq Letters \X {"sent", "failed"}
    /\ received \in [Kinds -> Nat]
    /\ crossed \subseteq Kinds
    /\ mailCuts \subseteq Kinds

\* "A retried job will not send a second copy": the customer gets one mail of a
\* type about an order, through failed deliveries, repeated occasions and jobs
\* that ran out of turn; but not when two senders are at it together or one
\* loses track of its delivery.  And no mail counts as sent that was not.
OneMailPerKind ==
    /\ \A k \in Kinds \ (crossed \cup mailCuts) : received[k] <= 1
    /\ \A l \in Letters : << l, "sent" >> \in mailLog => received[KindOf[l]] >= 1
=============================================================================
