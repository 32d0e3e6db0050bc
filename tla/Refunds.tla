------------------------------- MODULE Refunds -------------------------------
(***************************************************************************)
(* Refunds of one captured payment (services/payment.py initiate_refund    *)
(* and settle_refund, the admin's route, the gateway).  A request reads    *)
(* what has been refunded so far, inserts its own row, asks the gateway    *)
(* and commits: the gateway may have acted on a refund whose row is rolled *)
(* back, and its event may overtake the commit.                            *)
(***************************************************************************)
EXTENDS Integers, FiniteSets

CONSTANTS
    RefundKeys,     \* idempotency keys: each request draws a new one
    Captured,       \* units of money in the order's latest successful payment
    MaxCutOff       \* bound: requests that end without commit after the gateway was asked

ASSUME RefundsAssumption == IsFiniteSet(RefundKeys) /\ Captured \in Nat /\ MaxCutOff \in Nat

VARIABLES
    refund,         \* committed Refund rows, by idempotency key
    request,        \* the requests of the admins, by the key they have drawn
    gateway,        \* what the gateway has done about a key
    announced,      \* keys whose final status the gateway has sent an event about
    cutOff,         \* history: keys of requests that lost track of the gateway
    overlapped,     \* history: keys of requests that ran at the same time
    localOnly       \* history: keys of requests no gateway was configured for

refundVars == << refund, request, gateway, announced, cutOff, overlapped, localOnly >>

RefundStatus == {"pending", "success", "failed"}
RowOf == [status : RefundStatus \cup {"none"}, amount : 0 .. Captured]
RequestOf == [pc : {"idle", "asking", "answered", "done"}, amount : 0 .. Captured,
              status : RefundStatus]

InFlight == {k \in RefundKeys : request[k].pc \in {"asking", "answered"}}

-----------------------------------------------------------------------------

\* The units of money of some refunds, and how many they are.
Coins(keys, amount) == {u \in keys \X (1 .. Captured) : u[2] <= amount[u[1]]}
AmountOf(keys, amount) == Cardinality(Coins(keys, amount))

\* Mutant of RefundedTotal: only finished refunds count.
FinishedTotal ==
    AmountOf({k \in RefundKeys : refund[k].status = "success"},
        [k \in RefundKeys |-> refund[k].amount])

\* _refunded_total: what other transactions have committed.
Standing == {k \in RefundKeys : refund[k].status \in {"pending", "success"}}
RefundedTotal == AmountOf(Standing, [k \in RefundKeys |-> refund[k].amount])

\* initiate_refund up to the flush of the pending row.
Begin(k, pc, status) ==
    /\ request[k].pc = "idle"
    /\ \E x \in 1 .. Captured - RefundedTotal :
        request' = [request EXCEPT ![k] = [pc |-> pc, amount |-> x, status |-> status]]
    /\ overlapped' = IF InFlight = {} THEN overlapped ELSE overlapped \cup InFlight \cup {k}
    /\ UNCHANGED << refund, gateway, announced, cutOff >>

AskRefund(k) == Begin(k, "asking", "pending") /\ UNCHANGED localOnly

\* Without the gateway's credentials the row is marked SUCCESS, and nobody is asked.
MarkLocally(k) ==
    /\ Begin(k, "answered", "success")
    /\ localOnly' = localOnly \cup {k}

\* The status the row gets from refund_status; CANCELLED counts as failed.
RecordedAs(answer) == IF answer \in {"success", "failed"} THEN answer ELSE "pending"

\* The gateway takes the refund on, and says how far it has got.
GatewayAnswers(k) ==
    /\ request[k].pc = "asking"
    /\ \E answer \in RefundStatus :
        /\ gateway' = [gateway EXCEPT ![k] = answer]
        /\ request' = [request EXCEPT ![k].pc = "answered", ![k].status = RecordedAs(answer)]
    /\ UNCHANGED << refund, announced, cutOff, overlapped, localOnly >>

\* PaymentError: the row is marked FAILED and rolled back with the request.
GatewayRefuses(k) ==
    /\ request[k].pc = "asking"
    /\ request' = [request EXCEPT ![k].pc = "done"]
    /\ UNCHANGED << refund, gateway, announced, cutOff, overlapped, localOnly >>

\* The answer is lost (PaymentError too), or the process dies before the commit.
LoseAnswer(k) ==
    /\ request[k].pc \in {"asking", "answered"}
    /\ Cardinality(cutOff) < MaxCutOff
    /\ gateway' = [gateway EXCEPT ![k] = IF request[k].pc = "asking" THEN "pending" ELSE @]
    /\ request' = [request EXCEPT ![k].pc = "done"]
    /\ cutOff' = cutOff \cup {k}
    /\ UNCHANGED << refund, announced, overlapped, localOnly >>

\* Mutant of CommitRefund: what the gateway has not paid yet is not kept.
CommitPaidRefund(k) ==
    /\ request[k].pc = "answered"
    /\ request' = [request EXCEPT ![k].pc = "done"]
    /\ refund' = [refund EXCEPT ![k] =
                    IF request[k].status = "success"
                    THEN [status |-> "success", amount |-> request[k].amount] ELSE @]
    /\ UNCHANGED << gateway, announced, cutOff, overlapped, localOnly >>

\* refund_order commits.
CommitRefund(k) ==
    /\ request[k].pc = "answered"
    /\ request' = [request EXCEPT ![k].pc = "done"]
    /\ refund' = [refund EXCEPT ![k] = [status |-> request[k].status, amount |-> request[k].amount]]
    /\ UNCHANGED << gateway, announced, cutOff, overlapped, localOnly >>

\* The gateway finishes a refund; from then on it delivers the event about it,
\* any number of times.
GatewaySettles(k) ==
    /\ gateway[k] # "none"
    /\ k \notin announced
    /\ \E s \in {"success", "failed"} :
        /\ gateway[k] \in {s, "pending"}
        /\ gateway' = [gateway EXCEPT ![k] = s]
    /\ announced' = announced \cup {k}
    /\ UNCHANGED << refund, request, cutOff, overlapped, localOnly >>

\* settle_refund.  An event that overtakes the commit matches nothing, and is
\* done with: the row then stays pending.
SettleRefund(k) ==
    /\ k \in announced
    /\ refund[k].status # "none"
    /\ refund' = [refund EXCEPT ![k].status = gateway[k]]
    /\ UNCHANGED << request, gateway, announced, cutOff, overlapped, localOnly >>

RefundsInit ==
    /\ refund = [k \in RefundKeys |-> [status |-> "none", amount |-> 0]]
    /\ request = [k \in RefundKeys |-> [pc |-> "idle", amount |-> 0, status |-> "pending"]]
    /\ gateway = [k \in RefundKeys |-> "none"]
    /\ announced = {}
    /\ cutOff = {}
    /\ overlapped = {}
    /\ localOnly = {}

RefundsNext ==
    \E k \in RefundKeys :
        \/ AskRefund(k)
        \/ MarkLocally(k)
        \/ GatewayAnswers(k)
        \/ GatewayRefuses(k)
        \/ LoseAnswer(k)
        \/ CommitRefund(k)
        \/ GatewaySettles(k)
        \/ SettleRefund(k)

RefundsSpec == RefundsInit /\ [][RefundsNext]_refundVars

-----------------------------------------------------------------------------
(* Properties.                                                             *)

RefundsTypeOK ==
    /\ refund \in [RefundKeys -> RowOf]
    /\ request \in [RefundKeys -> RequestOf]
    /\ gateway \in [RefundKeys -> RefundStatus \cup {"none"}]
    /\ announced \subseteq RefundKeys
    /\ cutOff \subseteq RefundKeys
    /\ overlapped \subseteq RefundKeys
    /\ localOnly \subseteq RefundKeys

\* Money the gateway has paid out, or will, for requests it has taken on.
PaidOut ==
    AmountOf({k \in RefundKeys : gateway[k] \in {"pending", "success"}},
        [k \in RefundKeys |-> request[k].amount])

\* If requests do not overlap and none loses track of the gateway, refunds
\* never exceed the payment, whatever the gateway answers and whenever its
\* events come: a pending refund keeps its share until it has failed.
RefundsWithinPayment == overlapped = {} /\ cutOff = {} => PaidOut <= Captured

\* Money that leaves is on record: the gateway works on no refund without a row
\* or a request that is about to commit one, unless that request was cut off
\* between the gateway and its commit; and what a row says of the outcome is what
\* the gateway did, whether the request wrote it or an event, but for a refund that
\* was marked without a gateway, which nobody pays.
MoneyOutIsRecorded ==
    /\ \A k \in RefundKeys \ cutOff :
           gateway[k] \in {"pending", "success"} => refund[k].status # "none" \/ k \in InFlight
    /\ \A k \in RefundKeys :
           refund[k].status \in {"success", "failed"} =>
                gateway[k] = IF k \in localOnly THEN "none" ELSE refund[k].status
=============================================================================
