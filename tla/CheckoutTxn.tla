---------------------------- MODULE CheckoutTxn -----------------------------
(***************************************************************************)
(* The statements of checkout, retry_payment and cancel_order              *)
(* (app/services/order.py) and of the reservation and coupon calls they    *)
(* make, interleaved.  Module Fulfilment runs each of these operations     *)
(* alone; here every request is a PostgreSQL transaction at READ           *)
(* COMMITTED, and only the row locks it takes keep the others out.         *)
(*                                                                         *)
(* A statement sees what is committed, and what its own transaction has    *)
(* flushed.  The session does not autoflush, so the rows reserve_inventory *)
(* adds are invisible, to itself too, until the end.  The stock does not   *)
(* change and no hold runs out: a transaction takes moments.  Failed       *)
(* requests roll back, as they do on the web routes.                       *)
(***************************************************************************)
EXTENDS Integers, FiniteSets

CONSTANTS
    Variants,       \* product variants, by primary key
    Stock,          \* ProductVariant.stock
    Carts,
    Lines,          \* the variants in each cart, one unit of each
    Discounted,     \* the carts that carry the coupon
    MaxUses,        \* Coupon.max_uses
    Checkouts, Retries, Cancels,    \* the requests
    Subject         \* the cart a checkout is for, the order a retry or a cancel is for

\* A checkout request stands for the order it creates as well.
Orders == Checkouts
Requests == Checkouts \cup Retries \cup Cancels
Reservers == Checkouts \cup Retries

ASSUME RequestsAssumption ==
    /\ Checkouts \cap Retries = {}
    /\ Checkouts \cap Cancels = {}
    /\ Retries \cap Cancels = {}
    /\ \A t \in Checkouts : Subject[t] \in Carts
    /\ \A t \in Retries \cup Cancels : Subject[t] \in Orders
ASSUME ShopAssumption ==
    /\ Variants \subseteq Nat
    /\ Stock \in [Variants -> Nat]
    /\ Lines \in [Carts -> (SUBSET Variants) \ {{}}]
    /\ MaxUses \in Nat
    /\ IsFiniteSet(Variants)
    /\ IsFiniteSet(Requests)

VARIABLES
    active,     \* committed reservation rows, neither released nor used: request and variant
    status,     \* Order.status, "none" before the order's row is committed
    usage,      \* orders with a committed CouponUsage row
    pc,         \* how far each request has come
    doomed,     \* the rows it has selected to release
    locked      \* the variants it has locked FOR UPDATE

vars == << active, status, usage, pc, doomed, locked >>
db == << active, status, usage >>

OrderOf(t) == IF t \in Checkouts THEN t ELSE Subject[t]
CartOf(t) == Subject[OrderOf(t)]
Wanted(t) == Lines[CartOf(t)]

Row == Reservers \X Variants
RowsOf(v) == { r \in active : r[2] = v }

\* Where a request holds what it has flushed or locked, up to its commit.
Flushed == {"locking", "redeeming", "placing", "redeemed"}

Init ==
    /\ active = {}
    /\ status = [o \in Orders |-> "none"]
    /\ usage = {}
    /\ pc = [t \in Requests |-> "idle"]
    /\ doomed = [t \in Requests |-> {}]
    /\ locked = [t \in Requests |-> {}]

-----------------------------------------------------------------------------
(* Reads without a lock.                                                   *)

\* get_active_cart finds the cart until an order of it is committed;
\* retry_payment and an unpaid cancel_order want a pending order.
Load(t) ==
    /\ pc[t] = "idle"
    /\ IF t \in Checkouts
       THEN \A o \in Orders : Subject[o] = Subject[t] => status[o] = "none"
       ELSE status[Subject[t]] = "pending"
    /\ pc' = [pc EXCEPT ![t] = "loaded"]
    /\ UNCHANGED << db, doomed, locked >>

\* The SELECT of release_reservations: a checkout releases by cart, the others
\* by order.
Select(t) ==
    /\ pc[t] = "loaded"
    /\ pc' = [pc EXCEPT ![t] = "selected"]
    /\ doomed' = [doomed EXCEPT ![t] =
           { r \in active : IF t \in Checkouts THEN CartOf(r[1]) = CartOf(t)
                                               ELSE OrderOf(r[1]) = OrderOf(t) }]
    /\ UNCHANGED << db, locked >>

-----------------------------------------------------------------------------
(* Statements that wait for another transaction's locks.                   *)

\* Row locks: t updates a reservation row u has updated, or the order row
\* both of them cancel.
WaitsForRow(t, u) ==
    /\ pc[t] = "selected"
    /\ pc[u] \in Flushed
    /\ \/ doomed[t] \cap doomed[u] # {}
       \/ {t, u} \subseteq Cancels /\ Subject[t] = Subject[u]

\* The flush of release_reservations, with cancel_order's new status.  The
\* UPDATE is by primary key: a row another transaction released meanwhile is
\* released again.
Flush(t) ==
    /\ pc[t] = "selected"
    /\ \A u \in Requests \ {t} : ~ WaitsForRow(t, u)
    /\ pc' = [pc EXCEPT ![t] = IF t \in Cancels THEN "placing" ELSE "locking"]
    /\ UNCHANGED << db, doomed, locked >>

\* Mutant of NextVariants: the cart's lines as they come.
NextVariantsUnsorted(t) == IF pc[t] = "locking" THEN Wanted(t) \ locked[t] ELSE {}

\* The variants whose lock t may ask for now: reserve_inventory goes through
\* the cart by variant id, retry_payment through order.items as they come.
NextVariants(t) ==
    LET left == Wanted(t) \ locked[t] IN
    IF pc[t] # "locking" THEN {}
    ELSE { v \in left : t \in Checkouts => \A w \in left : v <= w }

\* reserved_quantity: what the transaction counts as held by others.  A checkout
\* leaves its own cart's rows out, a retry counts every row it has not released.
Held(t, v) ==
    { r \in RowsOf(v) \ doomed[t] : t \in Checkouts => CartOf(r[1]) # CartOf(t) }

\* Mutant of LockVariant: the variant is read without FOR UPDATE.
ReadVariant(t, v) ==
    /\ v \in NextVariants(t)
    /\ Cardinality(Held(t, v)) < Stock[v]
    /\ locked' = [locked EXCEPT ![t] = @ \cup {v}]
    /\ UNCHANGED << db, pc, doomed >>

\* SELECT ... FOR UPDATE on the variant, and the check that a unit is left;
\* if none is, the request fails (Fail).
LockVariant(t, v) ==
    /\ v \in NextVariants(t)
    /\ \A u \in Requests : v \notin locked[u]
    /\ Cardinality(Held(t, v)) < Stock[v]
    /\ locked' = [locked EXCEPT ![t] = @ \cup {v}]
    /\ UNCHANGED << db, pc, doomed >>

\* All variants are held.  price_cart validates the coupon without a lock and
\* drops one that is used up; a retry has no coupon to redeem.
Price(t) ==
    /\ pc[t] = "locking"
    /\ locked[t] = Wanted(t)
    /\ LET redeems == /\ t \in Checkouts
                      /\ CartOf(t) \in Discounted
                      /\ Cardinality(usage) < MaxUses
       IN  pc' = [pc EXCEPT ![t] = IF redeems THEN "redeeming" ELSE "placing"]
    /\ UNCHANGED << db, doomed, locked >>

\* Mutant of LockCoupon: validate_coupon(lock=False).
ReadCoupon(t) ==
    /\ pc[t] = "redeeming"
    /\ Cardinality(usage) < MaxUses
    /\ pc' = [pc EXCEPT ![t] = "redeemed"]
    /\ UNCHANGED << db, doomed, locked >>

\* validate_coupon(lock=True) counts the uses once more, now under the
\* coupon's lock; a used up coupon makes the request fail.
LockCoupon(t) ==
    /\ pc[t] = "redeeming"
    /\ \A u \in Requests : pc[u] # "redeemed"
    /\ Cardinality(usage) < MaxUses
    /\ pc' = [pc EXCEPT ![t] = "redeemed"]
    /\ UNCHANGED << db, doomed, locked >>

-----------------------------------------------------------------------------
(* The end of a request.                                                   *)

End(t) ==
    /\ pc' = [pc EXCEPT ![t] = "ended"]
    /\ doomed' = [doomed EXCEPT ![t] = {}]
    /\ locked' = [locked EXCEPT ![t] = {}]

\* The rows t inserts: one per line, for a checkout and a retry.
Inserted(t) == IF t \in Reservers THEN {t} \X Wanted(t) ELSE {}

\* Order, usage, cart and payment rows are flushed and the route commits.  The
\* cart's and the order's other columns are written by key; two checkouts of
\* one cart have met at its variants before.
Commit(t) ==
    /\ pc[t] \in {"placing", "redeemed"}
    /\ active' = (active \ doomed[t]) \cup Inserted(t)
    /\ status' = IF t \in Retries THEN status
                 ELSE [status EXCEPT ![OrderOf(t)] =
                          IF t \in Cancels THEN "cancelled" ELSE "pending"]
    /\ usage' = IF t \in Cancels THEN usage \ {OrderOf(t)}
                ELSE IF pc[t] = "redeemed" THEN usage \cup {OrderOf(t)} ELSE usage
    /\ End(t)

\* Mutant of Fail: the exception is swallowed and the session commits.
FailSwallowed(t) ==
    /\ pc[t] \notin {"idle", "ended"}
    /\ active' = active \ doomed[t]
    /\ End(t)
    /\ UNCHANGED << status, usage >>

\* An exception at any statement (no stock, no coupon, the gateway refuses the
\* link, a deadlock is broken) or a crash: the transaction is rolled back.
Fail(t) ==
    /\ pc[t] \notin {"idle", "ended"}
    /\ End(t)
    /\ UNCHANGED db

Step(t) ==
    \/ Load(t)
    \/ Select(t)
    \/ Flush(t)
    \/ \E v \in Variants : LockVariant(t, v)
    \/ Price(t)
    \/ LockCoupon(t)
    \/ Commit(t)
    \/ Fail(t)

Next == \E t \in Requests : Step(t)

Spec == Init /\ [][Next]_vars

-----------------------------------------------------------------------------
(* Properties.                                                             *)

TypeOK ==
    /\ active \subseteq Row
    /\ status \in [Orders -> {"none", "pending", "cancelled"}]
    /\ usage \subseteq Orders
    /\ pc \in [Requests -> Flushed \cup {"idle", "loaded", "selected", "ended"}]
    /\ doomed \in [Requests -> SUBSET Row]
    /\ locked \in [Requests -> SUBSET Variants]

\* "The availability check and the reservation insert cannot interleave": no
\* order of the statements of concurrent checkouts, retries and cancellations
\* holds more units of a variant than there are.
HoldsFitStock == \A v \in Variants : Cardinality(RowsOf(v)) <= Stock[v]

\* However the requests interleave, max_uses bounds the orders that redeemed
\* the coupon: the count validate_coupon makes is still right at the commit.
CouponLimitHolds == Cardinality(usage) <= MaxUses

\* An order the shopper can still pay has a hold on each of its lines, also
\* when a retry of it fails, races another retry or a cancellation.
PendingOrdersKeepHold ==
    \A o \in Orders : status[o] = "pending" =>
        \A v \in Wanted(o) : \E t \in Reservers : << t, v >> \in active /\ OrderOf(t) = o

\* t waits for a lock u holds.
WaitsFor(t, u) ==
    \/ WaitsForRow(t, u)
    \/ NextVariants(t) \cap locked[u] # {}
    \/ pc[t] = "redeeming" /\ pc[u] = "redeemed"

\* "Variants are locked in a stable ID order to avoid deadlocks": no set of
\* checkouts waits in a circle, for variants or for the coupon.
NoCheckoutDeadlock ==
    ~ \E S \in SUBSET Checkouts :
        S # {} /\ \A t \in S : \E u \in S : WaitsFor(t, u)
=============================================================================
