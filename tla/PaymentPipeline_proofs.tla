----------------------- MODULE PaymentPipeline_proofs -----------------------
(***************************************************************************)
(* Proofs about PaymentPipeline, for any number of payments, events and    *)
(* workers and any number of queued copies and faults.                     *)
(***************************************************************************)
EXTENDS PaymentPipeline, TLAPS

LockingPcs == {"claimed", "read", "written", "marking"}

\* The row lock of an event has one holder.
OneHolder ==
    \A v, w \in Workers :
        job[v] = job[w] /\ pc[v] \in LockingPcs /\ pc[w] \in LockingPcs => v = w

\* A job's flushed status is the one settle_payment computed from what it read.
WritesSettlement == \A w \in Workers : pc[w] = "written" => wrote[w] = Settlement(w)

\* While a job is about to settle a success, nobody else settles that payment:
\* if its row says success, the job has read that.
SuccessIsSeen ==
    \A w \in Workers :
        /\ pc[w] \in {"read", "written"}
        /\ Verdict[job[w]] = "success"
        /\ payment[PaymentOf[job[w]]] = "success"
        => seen[w] = "success"

\* A payment is settled and announced together, and stays announced.
SettledIsAnnounced ==
    /\ \A p \in Payments : payment[p] = "success" => notices[p] > 0
    /\ \A w \in Workers :
        seen[w] = "success" => pc[w] # "idle" /\ notices[PaymentOf[job[w]]] > 0

\* What is queued, sent or worked on has been recorded; and a success recorded
\* while there was no row of its payment is known as early, whoever reads the row.
RecordedFirst ==
    /\ \A e \in Events :
        /\ e \in unsent \/ queue[e] > 0 => ledger[e] # "none"
        /\ Verdict[e] = "success" /\ ledger[e] # "none" /\ payment[PaymentOf[e]] = "none"
              => e \in early
    /\ \A w \in Workers : pc[w] # "idle" => ledger[job[w]] # "none"

RowlessIsEarly ==
    \A w \in Workers :
        pc[w] \in {"read", "written"} /\ Verdict[job[w]] = "success" /\ seen[w] = "none"
            => job[w] \in early

IInv ==
    /\ TypeOK
    /\ RecordedFirst
    /\ RowlessIsEarly
    /\ OneHolder
    /\ WritesSettlement
    /\ SuccessIsSeen
    /\ SettledIsAnnounced
    /\ AnnouncedByLedger

\* The type invariant is inductive.
LEMMA TypeInit == Init => TypeOK
  BY RowsAssumption, LimitsAssumption DEF Init, TypeOK

\* A job's flushed status is a payment status.
LEMMA SettlementType ==
  ASSUME TypeOK, NEW w \in Workers, pc[w] = "read"
  PROVE  Settlement(w) \in PaymentStatuses \cup {"none"}
  <1>1. job[w] \in Events
    BY DEF TypeOK
  <1>2. Verdict[job[w]] \in Verdicts
    BY <1>1, RowsAssumption
  <1>. QED
    BY <1>2 DEF Settlement, Verdicts, PaymentStatuses

LEMMA TypeStep == TypeOK /\ [Next]_vars => TypeOK'
  <1>. SUFFICES ASSUME TypeOK, [Next]_vars PROVE TypeOK'
    OBVIOUS
  <1>. USE RowsAssumption, LimitsAssumption
  <1>1. ASSUME NEW p \in Payments, OpenLink(p) \/ CommitLink(p) PROVE TypeOK'
    BY <1>1 DEF TypeOK, OpenLink, CommitLink, slotVars, PaymentStatuses
  <1>2. ASSUME NEW p \in Payments, LinkExpires(p) PROVE TypeOK'
    BY <1>2 DEF TypeOK, LinkExpires, slotVars
  <1>3. ASSUME NEW o \in Orders, CancelOrder(o) PROVE TypeOK'
    BY <1>3 DEF TypeOK, CancelOrder, slotVars
  <1>4. ASSUME NEW e \in Events, Receive(e) \/ Enqueue(e) \/ EnqueueFails(e) \/ Sweep(e)
        PROVE  TypeOK'
    BY <1>4 DEF TypeOK, Receive, Enqueue, EnqueueFails, Sweep, slotVars, shopVars
  <1>5. ASSUME NEW w \in Workers, NEW e \in Events, Start(w, e) PROVE TypeOK'
    BY <1>5 DEF TypeOK, Start, shopVars
  <1>6. ASSUME NEW w \in Workers, Claim(w) PROVE TypeOK'
    BY <1>6 DEF TypeOK, Claim, shopVars
  <1>7. ASSUME NEW w \in Workers, ReadPayment(w) PROVE TypeOK'
    <2>1. job[w] \in Events
      BY <1>7 DEF TypeOK, ReadPayment
    <2>. QED
      BY <1>7, <2>1 DEF TypeOK, ReadPayment, shopVars
  <1>8. ASSUME NEW w \in Workers, WritePayment(w) PROVE TypeOK'
    <2>1. Settlement(w) \in PaymentStatuses \cup {"none"}
      BY <1>8, SettlementType DEF WritePayment
    <2>. QED
      BY <1>8, <2>1 DEF TypeOK, WritePayment, shopVars
  <1>9. ASSUME NEW w \in Workers, Commit(w) PROVE TypeOK'
    <2>1. job[w] \in Events
      BY <1>9 DEF TypeOK, Commit
    <2>. QED
      BY <1>9, <2>1 DEF TypeOK, Commit, Free, shopVars
  <1>10. ASSUME NEW w \in Workers, NEW r \in BOOLEAN, HandlerFails(w, r) PROVE TypeOK'
    BY <1>10 DEF TypeOK, HandlerFails, shopVars
  <1>11. ASSUME NEW w \in Workers, JobTimesOut(w) PROVE TypeOK'
    BY <1>11 DEF TypeOK, JobTimesOut, Free, shopVars
  <1>12. ASSUME NEW w \in Workers, MarkFailed(w) PROVE TypeOK'
    BY <1>12 DEF TypeOK, MarkFailed, Free, shopVars
  <1>13. ASSUME NEW w \in Workers, NEW again \in BOOLEAN, Abort(w, again) PROVE TypeOK'
    <2>1. job[w] \in Events
      BY <1>13 DEF TypeOK, Abort
    <2>. QED
      BY <1>13, <2>1 DEF TypeOK, Abort, Free, shopVars
  <1>14. CASE ReadStale \/ WriteExpired
    BY <1>14 DEF TypeOK, ReadStale, WriteExpired, shopVars, slotVars, PaymentStatuses
  <1>15. CASE UNCHANGED vars
    BY <1>15 DEF TypeOK, vars
  <1>. QED
    BY <1>1, <1>2, <1>3, <1>4, <1>5, <1>6, <1>7, <1>8, <1>9, <1>10, <1>11, <1>12,
       <1>13, <1>14, <1>15 DEF Next, Step, Fault

\* Every reachable state of the pipeline is well typed: a slot has a job exactly
\* when it is busy, and holds the lock of a Payment row only at the job's end.
THEOREM TypeCorrect == Spec => []TypeOK
  BY TypeInit, TypeStep, PTL DEF Spec

-----------------------------------------------------------------------------
(* The steps outside the jobs: no slot moves, nothing is announced, nothing is *)
(* settled, and an event is only ever recorded.                              *)

Outside ==
    \/ \E p \in Payments : OpenLink(p) \/ CommitLink(p) \/ LinkExpires(p)
    \/ \E o \in Orders : CancelOrder(o)
    \/ \E e \in Events : Receive(e) \/ Enqueue(e) \/ EnqueueFails(e) \/ Sweep(e)
    \/ ReadStale
    \/ WriteExpired
    \/ UNCHANGED vars

Quiet ==
    /\ UNCHANGED << notices, pc, job, seen, wrote >>
    /\ \A p \in Payments : payment'[p] = "success" => payment[p] = "success"
    /\ \A e \in Events :
        ledger'[e] = ledger[e] \/ (ledger[e] = "none" /\ ledger'[e] = "pending")
    /\ early \subseteq early'

LEMMA OutsideIsQuiet == TypeOK /\ Outside => Quiet
  <1>. SUFFICES ASSUME TypeOK, Outside PROVE Quiet
    OBVIOUS
  <1>1. ASSUME NEW p \in Payments, OpenLink(p) \/ CommitLink(p) \/ LinkExpires(p) PROVE Quiet
    BY <1>1 DEF TypeOK, OpenLink, CommitLink, LinkExpires, slotVars, Quiet
  <1>2. ASSUME NEW o \in Orders, CancelOrder(o) PROVE Quiet
    BY <1>2 DEF CancelOrder, slotVars, Quiet
  <1>3. ASSUME NEW e \in Events, Receive(e) \/ Enqueue(e) \/ EnqueueFails(e) \/ Sweep(e)
        PROVE  Quiet
    BY <1>3 DEF TypeOK, Receive, Enqueue, EnqueueFails, Sweep, slotVars, shopVars, Quiet
  <1>4. CASE ReadStale \/ WriteExpired
    BY <1>4 DEF TypeOK, ReadStale, WriteExpired, slotVars, shopVars, Quiet
  <1>5. CASE UNCHANGED vars
    BY <1>5 DEF vars, Quiet
  <1>. QED
    BY <1>1, <1>2, <1>3, <1>4, <1>5 DEF Outside

\* A step is one of a job, or outside them all.
LEMMA StepKinds ==
  ASSUME [Next]_vars
  PROVE  Outside \/ \E w \in Workers : Step(w) \/ Fault(w)
  BY DEF Next, Outside

\* Of a job's steps, only the commit touches payments and notices, and only the
\* commit and the failure marker touch the ledger.
LEMMA OnlyCommitWrites ==
  ASSUME TypeOK, NEW w \in Workers, Step(w) \/ Fault(w)
  PROVE  \/ Commit(w)
         \/ /\ UNCHANGED << payment, notices >>
            /\ \A e \in Events : ledger'[e] = ledger[e] \/ ledger'[e] = "failed"
  <1>1. CASE MarkFailed(w)
    BY <1>1 DEF TypeOK, MarkFailed, shopVars
  <1>2. ASSUME NEW e \in Events, Start(w, e) PROVE UNCHANGED << payment, notices, ledger >>
    BY <1>2 DEF Start
  <1>3. CASE Claim(w) \/ ReadPayment(w) \/ WritePayment(w) \/ JobTimesOut(w)
    BY <1>3 DEF Claim, ReadPayment, WritePayment, JobTimesOut
  <1>4. CASE Fault(w)
    BY <1>4 DEF Fault, HandlerFails, Abort
  <1>. QED
    BY <1>1, <1>2, <1>3, <1>4 DEF Step

\* What a job's step does to its own slot; the other slots keep theirs.
SlotStep(w) ==
    /\ \A v \in Workers \ {w} :
        pc'[v] = pc[v] /\ job'[v] = job[v] /\ seen'[v] = seen[v] /\ wrote'[v] = wrote[v]
    /\ \/ pc'[w] = "idle" /\ seen'[w] = "none"
       \/ pc'[w] = pc[w] /\ job'[w] = job[w] /\ seen'[w] = seen[w] /\ wrote'[w] = wrote[w]
       \/ pc'[w] = "loaded" /\ pc[w] = "idle" /\ seen'[w] = seen[w]
       \/ pc'[w] = "rolledback" /\ job'[w] = job[w] /\ seen'[w] = "none"
       \/ /\ pc'[w] = "marking" /\ pc[w] \in {"claimed", "read"}
          /\ job'[w] = job[w] /\ seen'[w] = "none"
       \/ Claim(w) /\ pc'[w] = "claimed" /\ job'[w] = job[w] /\ seen'[w] = seen[w]
       \/ /\ ReadPayment(w) /\ pc'[w] = "read" /\ job'[w] = job[w]
          /\ seen'[w] = payment[PaymentOf[job[w]]]
       \/ /\ WritePayment(w) /\ pc'[w] = "written" /\ job'[w] = job[w]
          /\ seen'[w] = seen[w] /\ wrote'[w] = Settlement(w)

LEMMA JobMovesSlot ==
  ASSUME TypeOK, NEW w \in Workers, Step(w) \/ Fault(w)
  PROVE  SlotStep(w)
  <1>1. ASSUME NEW e \in Events, Start(w, e) PROVE SlotStep(w)
    BY <1>1 DEF TypeOK, Start, SlotStep
  <1>2. CASE Claim(w)
    BY <1>2 DEF TypeOK, Claim, SlotStep
  <1>3. CASE ReadPayment(w)
    BY <1>3 DEF TypeOK, ReadPayment, SlotStep
  <1>4. CASE WritePayment(w)
    BY <1>4 DEF TypeOK, WritePayment, SlotStep
  <1>5. CASE Commit(w) \/ JobTimesOut(w) \/ MarkFailed(w)
    BY <1>5 DEF TypeOK, Commit, JobTimesOut, MarkFailed, Free, SlotStep
  <1>6. ASSUME NEW r \in BOOLEAN, HandlerFails(w, r) PROVE SlotStep(w)
    BY <1>6 DEF TypeOK, HandlerFails, SlotStep
  <1>7. ASSUME NEW again \in BOOLEAN, Abort(w, again) PROVE SlotStep(w)
    BY <1>7 DEF TypeOK, Abort, Free, SlotStep
  <1>. QED
    BY <1>1, <1>2, <1>3, <1>4, <1>5, <1>6, <1>7 DEF Step, Fault

-----------------------------------------------------------------------------
(* Each part of IInv is preserved.                                         *)

\* A job locks its event's row only when nobody has it, and keeps to that event.
LEMMA HolderStep == TypeOK /\ OneHolder /\ [Next]_vars => OneHolder'
  <1>. SUFFICES ASSUME TypeOK, OneHolder, [Next]_vars PROVE OneHolder'
    OBVIOUS
  <1>1. CASE Outside
    BY <1>1, OutsideIsQuiet DEF Quiet, OneHolder, LockingPcs
  <1>2. ASSUME NEW w \in Workers, Step(w) \/ Fault(w) PROVE OneHolder'
    <2>1. SlotStep(w)
      BY <1>2, JobMovesSlot
    <2>2. SUFFICES ASSUME NEW v \in Workers, v # w, job'[v] = job'[w],
                          pc'[v] \in LockingPcs, pc'[w] \in LockingPcs
                   PROVE  FALSE
      BY <2>1 DEF OneHolder, SlotStep, LockingPcs
    <2>3. job[v] = job'[w] /\ pc[v] \in LockingPcs
      BY <2>1, <2>2 DEF SlotStep
    <2>4. CASE Claim(w) /\ job'[w] = job[w]
      <3>1. ~ EventLocked(job[w])
        BY <2>4 DEF Claim
      <3>. QED
        BY <3>1, <2>3, <2>4 DEF EventLocked, LockingPcs
    <2>5. CASE pc[w] \in LockingPcs /\ job'[w] = job[w]
      BY <2>2, <2>3, <2>5 DEF OneHolder
    <2>6. (Claim(w) /\ job'[w] = job[w]) \/ (pc[w] \in LockingPcs /\ job'[w] = job[w])
      BY <2>1, <2>2 DEF SlotStep, LockingPcs, ReadPayment, WritePayment
    <2>. QED
      BY <2>4, <2>5, <2>6
  <1>. QED
    BY <1>1, <1>2, StepKinds

\* Between the flush and the commit a job's data stay as they are.
LEMMA WritesStep == TypeOK /\ WritesSettlement /\ [Next]_vars => WritesSettlement'
  <1>. SUFFICES ASSUME TypeOK, WritesSettlement, [Next]_vars PROVE WritesSettlement'
    OBVIOUS
  <1>1. CASE Outside
    BY <1>1, OutsideIsQuiet DEF Quiet, WritesSettlement, Settlement
  <1>2. ASSUME NEW w \in Workers, Step(w) \/ Fault(w) PROVE WritesSettlement'
    <2>1. SlotStep(w)
      BY <1>2, JobMovesSlot
    <2>2. SUFFICES ASSUME NEW v \in Workers, pc'[v] = "written"
                   PROVE  wrote'[v] = Settlement(v)'
      BY DEF WritesSettlement
    <2>3. CASE job'[v] = job[v] /\ seen'[v] = seen[v] /\ pc[v] = "written" /\ wrote'[v] = wrote[v]
      BY <2>3 DEF WritesSettlement, Settlement
    <2>4. CASE job'[v] = job[v] /\ seen'[v] = seen[v] /\ wrote'[v] = Settlement(v)
      BY <2>4 DEF Settlement
    <2>. QED
      BY <2>1, <2>2, <2>3, <2>4 DEF SlotStep
  <1>. QED
    BY <1>1, <1>2, StepKinds

\* A job that commits a success does so for a payment that is not settled, and
\* its event is the one that reports the success of that payment.
LEMMA CommitOfSuccess ==
  ASSUME TypeOK, WritesSettlement, SuccessIsSeen,
         NEW w \in Workers, Commit(w), wrote[w] = "success"
  PROVE  /\ job[w] \in Events
         /\ Verdict[job[w]] = "success"
         /\ payment[PaymentOf[job[w]]] # "success"
  <1>1. pc[w] = "written" /\ job[w] \in Events
    BY DEF Commit, TypeOK
  <1>2. wrote[w] = Settlement(w) /\ Verdict[job[w]] \in Verdicts
    BY <1>1, RowsAssumption DEF WritesSettlement
  <1>3. Verdict[job[w]] = "success" /\ seen[w] # "success"
    BY <1>2 DEF Settlement, Verdicts
  <1>. QED
    BY <1>1, <1>3 DEF SuccessIsSeen

\* Only a job with the same event could settle the payment between a job's read
\* and its commit, and the event's row lock keeps it out.
LEMMA SeenStep ==
  TypeOK /\ OneHolder /\ WritesSettlement /\ SuccessIsSeen /\ [Next]_vars => SuccessIsSeen'
  <1>. SUFFICES ASSUME TypeOK, OneHolder, WritesSettlement, SuccessIsSeen, [Next]_vars
                PROVE  SuccessIsSeen'
    OBVIOUS
  <1>. USE RowsAssumption
  <1>1. CASE Outside
    <2>. SUFFICES ASSUME NEW v \in Workers, pc'[v] \in {"read", "written"},
                         Verdict[job'[v]] = "success",
                         payment'[PaymentOf[job'[v]]] = "success"
                  PROVE  seen'[v] = "success"
      BY DEF SuccessIsSeen
    <2>1. Quiet
      BY <1>1, OutsideIsQuiet
    <2>2. pc[v] = pc'[v] /\ job[v] = job'[v] /\ seen[v] = seen'[v]
      BY <2>1 DEF Quiet
    <2>3. job[v] \in Events
      BY <2>2 DEF TypeOK
    <2>4. payment[PaymentOf[job[v]]] = "success"
      BY <2>1, <2>2, <2>3 DEF Quiet
    <2>. QED
      BY <2>2, <2>4 DEF SuccessIsSeen
  <1>2. ASSUME NEW w \in Workers, Step(w) \/ Fault(w) PROVE SuccessIsSeen'
    <2>. SUFFICES ASSUME NEW v \in Workers, pc'[v] \in {"read", "written"},
                         Verdict[job'[v]] = "success",
                         payment'[PaymentOf[job'[v]]] = "success"
                  PROVE  seen'[v] = "success"
      BY DEF SuccessIsSeen
    <2>1. SlotStep(w)
      BY <1>2, JobMovesSlot
    <2>2. CASE Commit(w)
      <3>1. v # w /\ pc[v] = pc'[v] /\ job[v] = job'[v] /\ seen[v] = seen'[v]
        BY <2>1, <2>2 DEF SlotStep, Commit, Free, TypeOK
      <3>2. job[v] \in Events /\ job[w] \in Events /\ pc[w] = "written"
        BY <2>2, <3>1 DEF TypeOK, Commit
      <3>3. ~ (wrote[w] = "success" /\ PaymentOf[job[w]] = PaymentOf[job[v]])
        <4>. SUFFICES ASSUME wrote[w] = "success", PaymentOf[job[w]] = PaymentOf[job[v]]
                      PROVE  FALSE
          OBVIOUS
        <4>1. Verdict[job[w]] = "success"
          BY <2>2, CommitOfSuccess
        <4>2. job[w] = job[v]
          BY <3>1, <3>2, <4>1, OneSuccess
        <4>. QED
          BY <3>1, <3>2, <4>2 DEF OneHolder, LockingPcs
      <3>4. payment[PaymentOf[job[v]]] = "success"
        BY <2>2, <3>1, <3>2, <3>3 DEF Commit, TypeOK
      <3>. QED
        BY <3>1, <3>4 DEF SuccessIsSeen
    <2>3. CASE UNCHANGED payment
      BY <2>1, <2>3 DEF SlotStep, SuccessIsSeen, TypeOK, WritePayment
    <2>. QED
      BY <1>2, <2>2, <2>3, OnlyCommitWrites
  <1>. QED
    BY <1>1, <1>2, StepKinds

\* Settled and announced is one commit, and notices only grow.
LEMMA AnnouncedStep == TypeOK /\ SettledIsAnnounced /\ [Next]_vars => SettledIsAnnounced'
  <1>. SUFFICES ASSUME TypeOK, SettledIsAnnounced, [Next]_vars PROVE SettledIsAnnounced'
    OBVIOUS
  <1>. USE RowsAssumption
  <1>1. CASE Outside
    BY <1>1, OutsideIsQuiet DEF Quiet, SettledIsAnnounced
  <1>2. ASSUME NEW w \in Workers, Step(w) \/ Fault(w) PROVE SettledIsAnnounced'
    <2>1. SlotStep(w)
      BY <1>2, JobMovesSlot
    <2>2. ASSUME NEW p \in Payments
          PROVE  /\ notices[p] > 0 => notices'[p] > 0
                 /\ payment'[p] = "success" => notices'[p] > 0
      <3>1. CASE Commit(w)
        <4>1. job[w] \in Events /\ PaymentOf[job[w]] \in Payments
          BY <3>1 DEF Commit, TypeOK
        <4>2. notices[p] \in Nat
          BY DEF TypeOK
        <4>. QED
          BY <3>1, <4>1, <4>2 DEF Commit, TypeOK, SettledIsAnnounced
      <3>2. CASE UNCHANGED << payment, notices >>
        BY <3>2 DEF SettledIsAnnounced
      <3>. QED
        BY <1>2, <3>1, <3>2, OnlyCommitWrites
    <2>3. ASSUME NEW v \in Workers, seen'[v] = "success"
          PROVE  pc'[v] # "idle" /\ notices'[PaymentOf[job'[v]]] > 0
      <3>1. CASE seen[v] = "success" /\ job'[v] = job[v] /\ pc'[v] # "idle"
        <4>1. pc[v] # "idle" /\ notices[PaymentOf[job[v]]] > 0
          BY <3>1 DEF SettledIsAnnounced
        <4>2. job[v] \in Events /\ PaymentOf[job[v]] \in Payments
          BY <4>1 DEF TypeOK
        <4>. QED
          BY <2>2, <3>1, <4>1, <4>2
      <3>2. CASE v = w /\ ReadPayment(w) /\ pc'[w] = "read" /\ job'[w] = job[w]
                 /\ seen'[w] = payment[PaymentOf[job[w]]]
        <4>1. job[w] \in Events /\ PaymentOf[job[w]] \in Payments
          BY <3>2 DEF TypeOK, ReadPayment
        <4>2. notices[PaymentOf[job[w]]] > 0
          BY <2>3, <3>2, <4>1 DEF SettledIsAnnounced
        <4>. QED
          BY <2>2, <3>2, <4>1, <4>2
      <3>3. seen[v] = "success" => pc[v] # "idle"
        BY DEF SettledIsAnnounced
      <3>. QED
        BY <2>1, <2>3, <3>1, <3>2, <3>3 DEF SlotStep, Claim, WritePayment
    <2>. QED
      BY <2>2, <2>3 DEF SettledIsAnnounced
  <1>. QED
    BY <1>1, <1>2, StepKinds

\* A job leaves alone what requests have recorded, and a Payment row stays.
LEMMA JobsRecordNothing ==
  ASSUME TypeOK, WritesSettlement, NEW w \in Workers, Step(w) \/ Fault(w)
  PROVE  /\ UNCHANGED << early, unsent >>
         /\ \A e \in Events : ledger[e] # "none" => ledger'[e] # "none"
         /\ \A e \in Events : ledger[e] = "none" => ledger'[e] = "none" \/ job[w] = e
         /\ \A p \in Payments : payment'[p] = "none" => payment[p] = "none"
         /\ \A e \in Events : queue'[e] > 0 => queue[e] > 0 \/ (pc[w] # "idle" /\ job[w] = e)
  <1>. USE RowsAssumption
  <1>1. ASSUME NEW e \in Events, Start(w, e)
        PROVE  /\ UNCHANGED << early, unsent, ledger, payment >>
               /\ \A f \in Events : queue'[f] > 0 => queue[f] > 0
    BY <1>1 DEF Start, TypeOK
  <1>2. CASE Claim(w) \/ ReadPayment(w) \/ WritePayment(w) \/ JobTimesOut(w)
    BY <1>2 DEF Claim, ReadPayment, WritePayment, JobTimesOut
  <1>3. CASE Commit(w)
    <2>1. job[w] \in Events /\ wrote[w] \in PaymentStatuses \cup {"none"}
      BY <1>3 DEF Commit, TypeOK
    <2>. QED
      BY <1>3, <2>1 DEF Commit, TypeOK, PaymentStatuses
  <1>4. CASE MarkFailed(w)
    BY <1>4 DEF MarkFailed, TypeOK
  <1>5. CASE Fault(w)
    <2>1. ASSUME NEW r \in BOOLEAN, HandlerFails(w, r)
          PROVE  UNCHANGED << early, unsent, ledger, payment, queue >>
      BY <2>1 DEF HandlerFails
    <2>2. ASSUME NEW again \in BOOLEAN, Abort(w, again)
          PROVE  /\ UNCHANGED << early, unsent, ledger, payment >>
                 /\ \A f \in Events : queue'[f] > 0 => queue[f] > 0 \/ (pc[w] # "idle" /\ job[w] = f)
      BY <2>2 DEF Abort, TypeOK
    <2>. QED
      BY <1>5, <2>1, <2>2 DEF Fault
  <1>. QED
    BY <1>1, <1>2, <1>3, <1>4, <1>5 DEF Step

\* Outside the jobs, a record comes before its job, and an early one is noted.
LEMMA RecordsOutside ==
  ASSUME TypeOK, RecordedFirst, Outside
  PROVE  /\ \A e \in Events : e \in unsent' \/ queue'[e] > 0 => ledger'[e] # "none"
         /\ \A e \in Events :
              Verdict[e] = "success" /\ ledger'[e] # "none" /\ payment'[PaymentOf[e]] = "none"
                 => e \in early'
  <1>. USE RowsAssumption DEF RecordedFirst
  <1>1. ASSUME NEW p \in Payments, OpenLink(p) \/ CommitLink(p) \/ LinkExpires(p)
        PROVE  /\ UNCHANGED << ledger, unsent, queue, early >>
               /\ \A r \in Payments : payment'[r] = "none" => payment[r] = "none"
    BY <1>1 DEF OpenLink, CommitLink, LinkExpires, TypeOK
  <1>2. ASSUME NEW o \in Orders, CancelOrder(o) PROVE UNCHANGED << ledger, unsent, queue, early, payment >>
    BY <1>2 DEF CancelOrder
  <1>3. CASE ReadStale \/ WriteExpired
    <2>1. UNCHANGED << ledger, unsent, queue, early >>
      BY <1>3 DEF ReadStale, WriteExpired
    <2>2. \A r \in Payments : payment'[r] = "none" => payment[r] = "none"
      BY <1>3 DEF ReadStale, WriteExpired, TypeOK
    <2>. QED
      BY <2>1, <2>2
  <1>4. ASSUME NEW e \in Events, Receive(e)
        PROVE  /\ \A f \in Events : f \in unsent' \/ queue'[f] > 0 => ledger'[f] # "none"
               /\ \A f \in Events :
                    Verdict[f] = "success" /\ ledger'[f] # "none" /\ payment'[PaymentOf[f]] = "none"
                       => f \in early'
    BY <1>4 DEF Receive, TypeOK
  <1>5. ASSUME NEW e \in Events, Enqueue(e) \/ EnqueueFails(e) \/ Sweep(e)
        PROVE  /\ \A f \in Events : f \in unsent' \/ queue'[f] > 0 => ledger'[f] # "none"
               /\ UNCHANGED << ledger, payment, early >>
    BY <1>5 DEF Enqueue, EnqueueFails, Sweep, TypeOK
  <1>6. CASE UNCHANGED vars
    BY <1>6 DEF vars
  <1>. QED
    BY <1>1, <1>2, <1>3, <1>4, <1>5, <1>6 DEF Outside

LEMMA RecordedStep ==
  TypeOK /\ WritesSettlement /\ RecordedFirst /\ [Next]_vars => RecordedFirst'
  <1>. SUFFICES ASSUME TypeOK, WritesSettlement, RecordedFirst, [Next]_vars PROVE RecordedFirst'
    OBVIOUS
  <1>. USE RowsAssumption
  <1>1. CASE Outside
    <2>1. Quiet
      BY <1>1, OutsideIsQuiet
    <2>2. ASSUME NEW w \in Workers, pc'[w] # "idle" PROVE ledger'[job'[w]] # "none"
      <3>1. pc[w] # "idle" /\ job'[w] = job[w] /\ job[w] \in Events
        BY <2>1, <2>2 DEF Quiet, TypeOK
      <3>. QED
        BY <2>1, <3>1 DEF Quiet, RecordedFirst
    <2>. QED
      BY <1>1, <2>2, RecordsOutside DEF RecordedFirst
  <1>2. ASSUME NEW w \in Workers, Step(w) \/ Fault(w) PROVE RecordedFirst'
    <2>1. /\ UNCHANGED << early, unsent >>
          /\ \A e \in Events : ledger[e] # "none" => ledger'[e] # "none"
          /\ \A e \in Events : ledger[e] = "none" => ledger'[e] = "none" \/ job[w] = e
          /\ \A p \in Payments : payment'[p] = "none" => payment[p] = "none"
          /\ \A e \in Events : queue'[e] > 0 => queue[e] > 0 \/ (pc[w] # "idle" /\ job[w] = e)
      BY <1>2, JobsRecordNothing
    <2>2. \A e \in Events : e \in unsent' \/ queue'[e] > 0 => ledger'[e] # "none"
      BY <2>1 DEF RecordedFirst
    <2>3. ASSUME NEW e \in Events, ledger'[e] # "none" PROVE ledger[e] # "none"
      <3>1. CASE ledger'[e] = ledger[e]
        BY <2>3, <3>1
      <3>2. CASE job[w] = e
        BY <3>2 DEF RecordedFirst, TypeOK
      <3>. QED
        BY <2>1, <2>3, <3>1, <3>2
    <2>4. \A v \in Workers : pc'[v] # "idle" => ledger'[job'[v]] # "none"
      <3>1. ASSUME NEW e \in Events, Start(w, e)
            PROVE  \A v \in Workers : pc'[v] # "idle" => ledger'[job'[v]] # "none"
        BY <3>1 DEF Start, TypeOK, RecordedFirst
      <3>2. CASE ~ \E e \in Events : Start(w, e)
        <4>1. \A v \in Workers : pc'[v] # "idle" => pc[v] # "idle" /\ job'[v] = job[v]
          BY <1>2, <3>2 DEF Step, Fault, Claim, ReadPayment, WritePayment, Commit, JobTimesOut,
                            MarkFailed, HandlerFails, Abort, Free, TypeOK
        <4>. QED
          BY <2>1, <4>1 DEF RecordedFirst, TypeOK
      <3>. QED
        BY <3>1, <3>2
    <2>. QED
      BY <2>1, <2>2, <2>3, <2>4 DEF RecordedFirst
  <1>. QED
    BY <1>1, <1>2, StepKinds

LEMMA RowlessStep ==
  TypeOK /\ WritesSettlement /\ RecordedFirst /\ RowlessIsEarly /\ [Next]_vars => RowlessIsEarly'
  <1>. SUFFICES ASSUME TypeOK, WritesSettlement, RecordedFirst, RowlessIsEarly, [Next]_vars
                PROVE  RowlessIsEarly'
    OBVIOUS
  <1>. USE RowsAssumption
  <1>1. CASE Outside
    BY <1>1, OutsideIsQuiet DEF Quiet, RowlessIsEarly
  <1>2. ASSUME NEW w \in Workers, Step(w) \/ Fault(w) PROVE RowlessIsEarly'
    <2>1. SlotStep(w) /\ early' = early
      BY <1>2, JobMovesSlot, JobsRecordNothing
    <2>2. SUFFICES ASSUME NEW v \in Workers, pc'[v] \in {"read", "written"},
                          Verdict[job'[v]] = "success", seen'[v] = "none"
                   PROVE  job'[v] \in early
      BY <2>1 DEF RowlessIsEarly
    <2>3. CASE v = w /\ ReadPayment(w) /\ job'[w] = job[w] /\ seen'[w] = payment[PaymentOf[job[w]]]
      BY <2>2, <2>3 DEF RecordedFirst, ReadPayment, TypeOK
    <2>4. CASE job'[v] = job[v] /\ seen'[v] = seen[v] /\ pc[v] \in {"read", "written"}
      BY <2>2, <2>4 DEF RowlessIsEarly
    <2>. QED
      BY <2>1, <2>2, <2>3, <2>4 DEF SlotStep, WritePayment
  <1>. QED
    BY <1>1, <1>2, StepKinds

\* A processed success was announced, and an announced payment has its event
\* processed, or marked failed afterwards.
LEMMA LedgerStep ==
  /\ TypeOK /\ WritesSettlement /\ SuccessIsSeen /\ SettledIsAnnounced /\ RowlessIsEarly
  /\ AnnouncedByLedger /\ [Next]_vars
  => AnnouncedByLedger'
  <1>. SUFFICES ASSUME TypeOK, WritesSettlement, SuccessIsSeen, SettledIsAnnounced, RowlessIsEarly,
                       AnnouncedByLedger, [Next]_vars, NEW p \in Payments
                PROVE  /\ \A e \in SuccessEvents(p) :
                             ledger'[e] = "processed" => notices'[p] > 0 \/ e \in early'
                       /\ notices'[p] > 0 =>
                            \E e \in SuccessEvents(p) : ledger'[e] \in {"processed", "failed"}
    BY DEF AnnouncedByLedger, SuccessEvents
  <1>. USE RowsAssumption
  <1>1. SuccessEvents(p) \subseteq Events
    BY DEF SuccessEvents
  <1>2. /\ \A e \in SuccessEvents(p) : ledger[e] = "processed" => notices[p] > 0 \/ e \in early
        /\ notices[p] > 0 => \E e \in SuccessEvents(p) : ledger[e] \in {"processed", "failed"}
    BY DEF AnnouncedByLedger
  <1>3. CASE Outside
    BY <1>1, <1>2, <1>3, OutsideIsQuiet DEF Quiet
  <1>4. ASSUME NEW w \in Workers, Step(w) \/ Fault(w) PROVE early' = early
    BY <1>4, JobsRecordNothing
  <1>5. ASSUME NEW w \in Workers, Commit(w)
        PROVE  /\ \A e \in SuccessEvents(p) :
                     ledger'[e] = "processed" => notices'[p] > 0 \/ e \in early
               /\ notices'[p] > 0 =>
                    \E e \in SuccessEvents(p) : ledger'[e] \in {"processed", "failed"}
    <2>1. job[w] \in Events /\ PaymentOf[job[w]] \in Payments /\ wrote[w] = Settlement(w)
      BY <1>5 DEF Commit, TypeOK, WritesSettlement
    <2>2. ledger' = [ledger EXCEPT ![job[w]] = "processed"] /\ notices[p] \in Nat
      BY <1>5 DEF Commit, TypeOK
    <2>3. notices[p] > 0 => notices'[p] > 0
      BY <1>5, <2>1, <2>2 DEF Commit, TypeOK
    <2>4. job[w] \in SuccessEvents(p) => notices'[p] > 0 \/ job[w] \in early
      <3>1. SUFFICES ASSUME job[w] \in SuccessEvents(p) PROVE notices'[p] > 0 \/ job[w] \in early
        OBVIOUS
      <3>2. PaymentOf[job[w]] = p /\ Verdict[job[w]] = "success" /\ pc[w] = "written"
        BY <1>5, <3>1 DEF SuccessEvents, Commit
      <3>3. CASE seen[w] = "success"
        BY <2>3, <3>2, <3>3 DEF SettledIsAnnounced
      <3>4. CASE seen[w] = "none"
        BY <3>2, <3>4 DEF RowlessIsEarly
      <3>5. CASE seen[w] \notin {"none", "success"}
        <4>1. wrote[w] = "success"
          BY <2>1, <3>2, <3>5 DEF Settlement
        <4>. QED
          BY <1>5, <2>2, <3>2, <4>1 DEF Commit, TypeOK
      <3>. QED
        BY <3>3, <3>4, <3>5
    <2>5. notices'[p] > 0 => notices[p] > 0 \/ job[w] \in SuccessEvents(p)
      <3>1. CASE wrote[w] = "success" /\ PaymentOf[job[w]] = p
        BY <1>5, <2>1, <3>1, CommitOfSuccess DEF SuccessEvents
      <3>2. CASE ~ (wrote[w] = "success" /\ PaymentOf[job[w]] = p)
        BY <1>5, <2>1, <3>2 DEF Commit, TypeOK
      <3>. QED
        BY <3>1, <3>2
    <2>. QED
      BY <1>1, <1>2, <2>1, <2>2, <2>3, <2>4, <2>5 DEF TypeOK
  <1>6. CASE /\ UNCHANGED << payment, notices, early >>
             /\ \A e \in Events : ledger'[e] = ledger[e] \/ ledger'[e] = "failed"
    BY <1>1, <1>2, <1>6
  <1>. QED
    BY <1>3, <1>4, <1>5, <1>6, StepKinds, OnlyCommitWrites

-----------------------------------------------------------------------------
(* The theorems.                                                           *)

LEMMA Inductive == IInv /\ [Next]_vars => IInv'
  BY TypeStep, RecordedStep, RowlessStep, HolderStep, WritesStep, SeenStep, AnnouncedStep,
     LedgerStep DEF IInv

LEMMA InitIInv == Init => IInv
  <1>. SUFFICES ASSUME Init PROVE IInv
    OBVIOUS
  <1>1. OneHolder /\ WritesSettlement /\ SuccessIsSeen
    BY DEF Init, OneHolder, LockingPcs, WritesSettlement, SuccessIsSeen
  <1>2. SettledIsAnnounced
    BY DEF Init, SettledIsAnnounced
  <1>3. AnnouncedByLedger
    BY DEF Init, AnnouncedByLedger, SuccessEvents
  <1>4. RecordedFirst /\ RowlessIsEarly
    BY DEF Init, RecordedFirst, RowlessIsEarly
  <1>. QED
    BY TypeInit, <1>1, <1>2, <1>3, <1>4 DEF IInv

LEMMA Invariance == Spec => []IInv
  BY InitIInv, Inductive, PTL DEF Spec

\* The ledger and the settlement agree, whatever is delivered, queued and run
\* how many times, and whatever crashes: a processed success was announced, unless
\* it was recorded before its Payment row was committed, and nothing is announced
\* without the event of its success.
THEOREM LedgerIsTrue == Spec => []AnnouncedByLedger
  BY Invariance, PTL DEF IInv

\* No job settles and announces a payment whose row already says success: the
\* lock on the event's row keeps the other jobs of that event out between a
\* job's read of the payment and its commit.
THEOREM SettledOnce == Spec => SettlesOnlyUnsettled
  <1>1. IInv /\ [Next]_vars =>
          [\A p \in Payments : notices'[p] > notices[p] => payment[p] # "success"]_vars
    <2>. SUFFICES ASSUME IInv, [Next]_vars, NEW p \in Payments, notices'[p] > notices[p]
                  PROVE  payment[p] # "success"
      OBVIOUS
    <2>. USE RowsAssumption
    <2>1. notices[p] \in Nat
      BY DEF IInv, TypeOK
    <2>2. ASSUME NEW w \in Workers, Commit(w) PROVE payment[p] # "success"
      <3>1. wrote[w] = "success" /\ PaymentOf[job[w]] = p
        BY <2>1, <2>2 DEF Commit, IInv, TypeOK
      <3>. QED
        BY <2>2, <3>1, CommitOfSuccess DEF IInv
    <2>3. notices' # notices
      BY <2>1
    <2>. QED
      BY <2>2, <2>3, StepKinds, OutsideIsQuiet, OnlyCommitWrites DEF IInv, Quiet
  <1>. QED
    BY <1>1, Invariance, PTL DEF SettlesOnlyUnsettled, Spec
=============================================================================
