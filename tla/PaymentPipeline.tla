--------------------------- MODULE PaymentPipeline --------------------------
(***************************************************************************)
(* From a payment event of the gateway to the settled Payment row:         *)
(* routers/webhook.py records the event and enqueues a job, workers run    *)
(* workers/webhook_processor.py, which calls services/payment.py, and two  *)
(* cron jobs re-drive forgotten events and expire unpaid links.            *)
(*                                                                         *)
(* A job is one database transaction at READ COMMITTED: a select sees what *)
(* others have committed and takes no lock, an update locks its row until  *)
(* the transaction ends, and a transaction's own writes become visible to  *)
(* the others when it commits.  The steps below are its statements.        *)
(***************************************************************************)
EXTENDS Integers

CONSTANTS
    Orders,
    Payments,       \* payment links; each has its Payment row
    OrderOf,        \* Payment.order_id
    Events,         \* events of the gateway, by WebhookEvent.event_id
    PaymentOf,      \* the link an event is about
    Verdict,        \* what settle_payment reads in the event's payload
    Workers,        \* job slots of the worker processes
    NoEvent,        \* the job of an idle slot
    MaxCopies,      \* bound: jobs queued for one event when another is added
    MaxFaults       \* bound: handler exceptions and worker crashes

Verdicts == {"success", "mismatch", "failed", "pending"}

ASSUME RowsAssumption ==
    /\ OrderOf \in [Payments -> Orders]
    /\ PaymentOf \in [Events -> Payments]
    /\ Verdict \in [Events -> Verdicts]
    /\ NoEvent \notin Events
ASSUME LimitsAssumption == MaxCopies \in Nat \ {0} /\ MaxFaults \in Nat

\* The gateway reports the success of a link in one event.
ASSUME OneSuccess ==
    \A e, f \in Events :
        Verdict[e] = "success" /\ Verdict[f] = "success" /\ PaymentOf[e] = PaymentOf[f]
            => e = f

VARIABLES
    orderStatus,    \* Order.status; "none": no such row yet
    opened,         \* links the gateway has, whether or not their rows are committed
    payment,        \* Payment.status; "none": no such row yet
    overdue,        \* pending payments past Payment.expires_at
    notices,        \* NEW_ORDER notifications, per payment that caused them
    ledger,         \* WebhookEvent.status; "none": no such row yet
    unsent,         \* events recorded by a request that has not enqueued them yet
    queue,          \* jobs waiting in Redis, per event
    pc, job,        \* where each slot is in its job, and the job's event
    seen,           \* Payment.status as the job has read it
    wrote,          \* the Payment.status it has flushed; "none": no row locked
    early,          \* history: successes recorded before their Payment row was committed
    expiring,       \* rows the expiry cron has read and not yet updated
    faults          \* handler exceptions and crashes so far

vars == << orderStatus, opened, payment, overdue, notices, ledger, unsent, queue, pc, job,
           seen, wrote, early, expiring, faults >>

shopVars == << orderStatus, opened, overdue >>
slotVars == << pc, job, seen, wrote >>

PaymentStatuses == {"pending", "success", "failed", "expired", "flagged"}

-----------------------------------------------------------------------------
(* Row locks, as the statements executed so far imply them.                *)

\* _claim flushes the new attempt count, which locks the event's row.
EventLocked(e) ==
    \E w \in Workers : job[w] = e /\ pc[w] \in {"claimed", "read", "written", "marking"}

PaymentLocked(p) ==
    \E w \in Workers : wrote[w] # "none" /\ PaymentOf[job[w]] = p

\* The end of a job: its locks are gone, and what it had not committed.
Free(w) ==
    /\ pc' = [pc EXCEPT ![w] = "idle"]
    /\ job' = [job EXCEPT ![w] = NoEvent]
    /\ seen' = [seen EXCEPT ![w] = "none"]
    /\ wrote' = [wrote EXCEPT ![w] = "none"]

-----------------------------------------------------------------------------
(* The shop and the gateway.                                               *)

\* checkout or retry_payment: create_payment_link opens a link at the gateway.
\* From then on it can be paid, and the gateway can report it; the Payment row,
\* and with checkout the order itself, are the transaction's and not committed.
OpenLink(p) ==
    LET o == OrderOf[p] IN
    /\ p \notin opened
    /\ \/ orderStatus[o] = "pending_payment"
       \/ orderStatus[o] = "none" /\ \A r \in opened : OrderOf[r] # o
    /\ opened' = opened \cup {p}
    /\ UNCHANGED << orderStatus, payment, overdue, notices, ledger, unsent, queue, slotVars, early,
                    expiring, faults >>

\* The request, or the turn of a WhatsApp conversation, commits.  One that is
\* rolled back never does: nobody tells the gateway, and the link stays.
CommitLink(p) ==
    LET o == OrderOf[p] IN
    /\ p \in opened
    /\ payment[p] = "none"
    /\ payment' = [payment EXCEPT ![p] = "pending"]
    /\ orderStatus' = [orderStatus EXCEPT ![o] = IF @ = "none" THEN "pending_payment" ELSE @]
    /\ UNCHANGED << opened, overdue, notices, ledger, unsent, queue, slotVars, early, expiring, faults >>

\* cancel_order: the payments of the order are left alone.
CancelOrder(o) ==
    /\ orderStatus[o] = "pending_payment"
    /\ orderStatus' = [orderStatus EXCEPT ![o] = "cancelled"]
    /\ UNCHANGED << opened, payment, overdue, notices, ledger, unsent, queue, slotVars, early,
                    expiring, faults >>

\* Only pending rows are asked for their age.
LinkExpires(p) ==
    /\ payment[p] = "pending"
    /\ p \notin overdue
    /\ overdue' = overdue \cup {p}
    /\ UNCHANGED << orderStatus, opened, payment, notices, ledger, unsent, queue, slotVars, early,
                    expiring, faults >>

\* cashfree_webhook: _record_event commits the row.  A repeated delivery finds
\* it, or loses the race on the unique index, and is acknowledged as it is.
\* Whether we have the payment is not asked here.
Receive(e) ==
    /\ PaymentOf[e] \in opened
    /\ ledger[e] = "none"
    /\ ledger' = [ledger EXCEPT ![e] = "pending"]
    /\ unsent' = unsent \cup {e}
    /\ early' = IF payment[PaymentOf[e]] = "none" /\ Verdict[e] = "success"
                THEN early \cup {e} ELSE early
    /\ UNCHANGED << shopVars, payment, notices, queue, slotVars, expiring, faults >>

Enqueue(e) ==
    /\ e \in unsent
    /\ unsent' = unsent \ {e}
    /\ queue' = [queue EXCEPT ![e] = @ + 1]
    /\ UNCHANGED << shopVars, payment, notices, ledger, slotVars, early, expiring, faults >>

\* Redis is unreachable, or the request dies between the two steps.
EnqueueFails(e) ==
    /\ e \in unsent
    /\ unsent' = unsent \ {e}
    /\ UNCHANGED << shopVars, payment, notices, ledger, queue, slotVars, early, expiring, faults >>

\* Mutant of Sweep: it looks for events that have failed.
SweepFailed(e) ==
    /\ ledger[e] = "failed"
    /\ queue[e] < MaxCopies
    /\ queue' = [queue EXCEPT ![e] = @ + 1]
    /\ UNCHANGED << shopVars, payment, notices, ledger, unsent, slotVars, early, expiring, faults >>

\* sweep_pending_events.  A pending event may well be queued or running: the
\* sweep only looks at the row's age.  Its bound on attempts never bites: the
\* count is committed by the transaction that marks the event processed.
Sweep(e) ==
    /\ ledger[e] = "pending"
    /\ queue[e] < MaxCopies
    /\ queue' = [queue EXCEPT ![e] = @ + 1]
    /\ UNCHANGED << shopVars, payment, notices, ledger, unsent, slotVars, early, expiring, faults >>

-----------------------------------------------------------------------------
(* process_payment_event.                                                  *)

\* A slot takes the job and loads the event; a processed one is skipped.
Start(w, e) ==
    /\ pc[w] = "idle"
    /\ queue[e] > 0
    /\ queue' = [queue EXCEPT ![e] = @ - 1]
    /\ IF ledger[e] = "processed"
       THEN UNCHANGED << pc, job >>
       ELSE /\ pc' = [pc EXCEPT ![w] = "loaded"]
            /\ job' = [job EXCEPT ![w] = e]
    /\ UNCHANGED << shopVars, payment, notices, ledger, unsent, seen, wrote, early, expiring, faults >>

\* Mutant of Claim: the attempt is counted without flushing it.
ClaimUnflushed(w) ==
    /\ pc[w] = "loaded"
    /\ pc' = [pc EXCEPT ![w] = "claimed"]
    /\ UNCHANGED << shopVars, payment, notices, ledger, unsent, queue, job, seen, wrote, early, expiring, faults >>

\* _claim flushes attempts + 1, which waits for whoever has the event's row.
\* The status loaded before the wait is not looked at again.
Claim(w) ==
    /\ pc[w] = "loaded"
    /\ ~ EventLocked(job[w])
    /\ pc' = [pc EXCEPT ![w] = "claimed"]
    /\ UNCHANGED << shopVars, payment, notices, ledger, unsent, queue, job, seen, wrote, early, expiring, faults >>

\* find_payment_for_event; "none": it finds no row that is committed.
ReadPayment(w) ==
    /\ pc[w] = "claimed"
    /\ pc' = [pc EXCEPT ![w] = "read"]
    /\ seen' = [seen EXCEPT ![w] = payment[PaymentOf[job[w]]]]
    /\ UNCHANGED << shopVars, payment, notices, ledger, unsent, queue, job, wrote, early, expiring, faults >>

\* Mutant of Settlement: an expired link is taken for a settled one.
SettlementUnlessExpired(w) ==
    IF seen[w] \in {"none", "success", "expired"}
    THEN "none"
    ELSE CASE Verdict[job[w]] = "mismatch" -> "flagged"
           [] OTHER -> Verdict[job[w]]

\* The status settle_payment gives the row; "none" if there is no row, which is
\* logged and reported to the caller, or if it is settled already.
Settlement(w) ==
    IF seen[w] \in {"none", "success"}
    THEN "none"
    ELSE CASE Verdict[job[w]] = "mismatch" -> "flagged"
           [] OTHER -> Verdict[job[w]]

\* settle_payment flushes: from here on the Payment row is locked.
WritePayment(w) ==
    /\ pc[w] = "read"
    /\ Settlement(w) # "none" => ~ PaymentLocked(PaymentOf[job[w]])
    /\ pc' = [pc EXCEPT ![w] = "written"]
    /\ wrote' = [wrote EXCEPT ![w] = Settlement(w)]
    /\ UNCHANGED << shopVars, payment, notices, ledger, unsent, queue, job, seen, early, expiring, faults >>

\* _mark_processed, the notifications of _after_payment and the commit.  Only a
\* changed status is part of the update.  The event is processed whether or not
\* its payment was found.
Commit(w) ==
    LET e == job[w]
        p == PaymentOf[e]
    IN
    /\ pc[w] = "written"
    /\ payment' = IF wrote[w] \in {"none", seen[w]}
                  THEN payment
                  ELSE [payment EXCEPT ![p] = wrote[w]]
    /\ notices' = IF wrote[w] = "success" THEN [notices EXCEPT ![p] = @ + 1] ELSE notices
    /\ ledger' = [ledger EXCEPT ![e] = "processed"]
    /\ Free(w)
    /\ UNCHANGED << shopVars, unsent, queue, early, expiring, faults >>

-----------------------------------------------------------------------------
(* What can go wrong in a job.                                             *)

\* An exception in settle_payment.  If a flush raised it, the session has
\* already rolled the transaction back; otherwise the transaction is still open,
\* and its locks are held, while the handler awaits _persist_failure.  What the
\* job has read is of no use any more.
HandlerFails(w, rolledBack) ==
    /\ pc[w] = "read" \/ (pc[w] = "claimed" /\ ~ rolledBack)
    /\ faults < MaxFaults
    /\ faults' = faults + 1
    /\ pc' = [pc EXCEPT ![w] = IF rolledBack THEN "rolledback" ELSE "marking"]
    /\ seen' = [seen EXCEPT ![w] = "none"]
    /\ UNCHANGED << shopVars, payment, notices, ledger, unsent, queue, job, wrote, early, expiring >>

\* _persist_failure updates the event's row in a transaction of its own, so it
\* waits for every other transaction that has the row, the handler's included.
\* The mark goes over whatever another job has made of the event.
MarkFailed(w) ==
    /\ pc[w] \in {"marking", "rolledback"}
    /\ ~ EventLocked(job[w])
    /\ ledger' = [ledger EXCEPT ![job[w]] = "failed"]
    /\ Free(w)
    /\ UNCHANGED << shopVars, payment, notices, unsent, queue, early, expiring, faults >>

\* job_timeout: a job that waits for ever is cancelled and rolled back.
JobTimesOut(w) ==
    /\ pc[w] = "marking"
    /\ EventLocked(job[w])
    /\ Free(w)
    /\ UNCHANGED << shopVars, payment, notices, ledger, unsent, queue, early, expiring, faults >>

\* The worker dies, or an exception is raised outside the handler's try: the
\* transaction is rolled back.  Redis runs a dead worker's job again.
Abort(w, again) ==
    /\ pc[w] \in {"loaded", "claimed", "read", "written"}
    /\ faults < MaxFaults
    /\ faults' = faults + 1
    /\ queue' = IF again THEN [queue EXCEPT ![job[w]] = @ + 1] ELSE queue
    /\ Free(w)
    /\ UNCHANGED << shopVars, payment, notices, ledger, unsent, early, expiring >>

-----------------------------------------------------------------------------
(* expire_payments.                                                        *)

ReadStale ==
    /\ expiring = {}
    /\ expiring' = { p \in overdue : payment[p] = "pending" }
    /\ expiring' # {}
    /\ UNCHANGED << shopVars, payment, notices, ledger, unsent, queue, slotVars, early, faults >>

\* The rows are updated by key: what has become of them meanwhile is not asked.
WriteExpired ==
    /\ expiring # {}
    /\ \A p \in expiring : ~ PaymentLocked(p)
    /\ payment' = [p \in Payments |-> IF p \in expiring THEN "expired" ELSE payment[p]]
    /\ expiring' = {}
    /\ UNCHANGED << shopVars, notices, ledger, unsent, queue, slotVars, early, faults >>

-----------------------------------------------------------------------------
Init ==
    /\ orderStatus = [o \in Orders |-> "none"]
    /\ opened = {}
    /\ payment = [p \in Payments |-> "none"]
    /\ overdue = {}
    /\ notices = [p \in Payments |-> 0]
    /\ ledger = [e \in Events |-> "none"]
    /\ unsent = {}
    /\ queue = [e \in Events |-> 0]
    /\ pc = [w \in Workers |-> "idle"]
    /\ job = [w \in Workers |-> NoEvent]
    /\ seen = [w \in Workers |-> "none"]
    /\ wrote = [w \in Workers |-> "none"]
    /\ early = {}
    /\ expiring = {}
    /\ faults = 0

Step(w) ==
    \/ \E e \in Events : Start(w, e)
    \/ Claim(w)
    \/ ReadPayment(w)
    \/ WritePayment(w)
    \/ Commit(w)
    \/ JobTimesOut(w)
    \/ MarkFailed(w)

Fault(w) ==
    \/ \E rolledBack \in BOOLEAN : HandlerFails(w, rolledBack)
    \/ \E again \in BOOLEAN : Abort(w, again)

Next ==
    \/ \E p \in Payments : OpenLink(p) \/ CommitLink(p) \/ LinkExpires(p)
    \/ \E o \in Orders : CancelOrder(o)
    \/ \E e \in Events : Receive(e) \/ Enqueue(e) \/ EnqueueFails(e) \/ Sweep(e)
    \/ \E w \in Workers : Step(w) \/ Fault(w)
    \/ ReadStale
    \/ WriteExpired

Spec == Init /\ [][Next]_vars

\* The workers work, the sweep fires every ten minutes, and a job that is
\* stuck is cancelled after two.  Requests may die, shoppers may do nothing.
Fairness ==
    /\ \A w \in Workers : WF_vars(Step(w))
    /\ \A e \in Events : WF_vars(Sweep(e))

FairSpec == Spec /\ Fairness

-----------------------------------------------------------------------------
(* Properties.                                                             *)

\* Type invariant; a slot has a job exactly when it is not idle, and holds the
\* lock of a Payment row only at the end of it.
TypeOK ==
    /\ orderStatus \in [Orders -> {"none", "pending_payment", "cancelled"}]
    /\ opened \subseteq Payments
    /\ payment \in [Payments -> PaymentStatuses \cup {"none"}]
    /\ overdue \subseteq Payments
    /\ notices \in [Payments -> Nat]
    /\ ledger \in [Events -> {"none", "pending", "processed", "failed"}]
    /\ unsent \subseteq Events
    /\ queue \in [Events -> Nat]
    /\ pc \in [Workers -> {"idle", "loaded", "claimed", "read", "written", "marking", "rolledback"}]
    /\ job \in [Workers -> Events \cup {NoEvent}]
    /\ seen \in [Workers -> PaymentStatuses \cup {"none"}]
    /\ wrote \in [Workers -> PaymentStatuses \cup {"none"}]
    /\ early \subseteq Events
    /\ expiring \subseteq Payments
    /\ faults \in 0..MaxFaults
    /\ \A w \in Workers :
        /\ job[w] = NoEvent <=> pc[w] = "idle"
        /\ wrote[w] # "none" => pc[w] = "written"

\* Settling twice must not double-apply anything (README, "Webhook
\* idempotency"): however often an event is delivered, swept and run, no job
\* settles and announces a payment whose row says success when it commits.
SettlesOnlyUnsettled ==
    [][\A p \in Payments : notices'[p] > notices[p] => payment[p] # "success"]_vars

\* The ledger tells the truth about money: if the event of a success is marked
\* processed, its payment was settled and announced, and nothing else announces
\* one.  Neither half may survive a crash without the other.  The exception is
\* the event settle_payment finds no payment for (payment.py:255): it is marked
\* processed like any other, no sweep looks at it again, and the money is with
\* the gateway.  That takes an event recorded while its link's row was not
\* committed; whatever is recorded later finds the row.
SuccessEvents(p) == { e \in Events : PaymentOf[e] = p /\ Verdict[e] = "success" }
AnnouncedByLedger ==
    \A p \in Payments :
        /\ \A e \in SuccessEvents(p) :
              ledger[e] = "processed" => notices[p] > 0 \/ e \in early
        /\ notices[p] > 0 => \E e \in SuccessEvents(p) : ledger[e] \in {"processed", "failed"}

\* Work is not lost (enqueue's docstring): an event that was recorded does not
\* stay pending, whichever enqueue, job or worker was lost on the way.
RecordedIsHandled == \A e \in Events : (ledger[e] = "pending") ~> (ledger[e] # "pending")

\* "Fail payment links that were never completed" (expire_payments): a link
\* that was completed stays completed.
CompletedStaysCompleted ==
    [][\A p \in Payments : payment[p] = "success" => payment'[p] = "success"]_vars

\* "Record the failure in its own transaction" (_persist_failure): a handler
\* that gets there does not end without the mark.
FailuresAreMarked ==
    [][\A w \in Workers :
        pc[w] \in {"marking", "rolledback"} /\ pc'[w] = "idle" => ledger'[job[w]] = "failed"]_vars

\* "Payment moves the order to pending_confirmation" (README, "Order
\* lifecycle"): a settled payment does not leave its order awaiting payment.
PaidOrdersMoveOn ==
    \A p \in Payments :
        (payment[p] = "success") ~> (orderStatus[OrderOf[p]] # "pending_payment")
=============================================================================
