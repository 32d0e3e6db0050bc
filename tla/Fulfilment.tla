----------------------------- MODULE Fulfilment -----------------------------
(***************************************************************************)
(* Carts, stock holds and orders: app/services/cart.py, order.py and the   *)
(* coupon calls they make.  Every service operation is one action, as if   *)
(* its database transaction ran alone.  What is concurrent here is         *)
(* everything that happens between two operations: links and holds that    *)
(* run out, payments captured by the gateway and settled later, the        *)
(* cleanup jobs, other shoppers.                                           *)
(*                                                                         *)
(* A reservation row belongs to a cart and, once checkout has created it,  *)
(* to an order.  A user has one active cart at a time and checkout retires *)
(* it, so the row's owner is either a user (the active cart, no order yet) *)
(* or an order.  All the rows of one owner are written by one call and     *)
(* share one expires_at, so they lapse together.                           *)
(***************************************************************************)
EXTENDS OrderStatus, Integers, FiniteSets

CONSTANTS
    Users,              \* shoppers
    Nobody,             \* the buyer of an order row that does not exist yet
    Orders,             \* order rows that can be created
    Variants,           \* product variants, by primary key
    MaxQty,             \* bound: the largest quantity of a cart line
    InitialStock,       \* ProductVariant.stock when the shop opens
    MaxUses,            \* Coupon.max_uses
    PerUserLimit,       \* Coupon.per_user_limit
    StockEdits,         \* values an admin may write over a variant's stock
    TimelySettlement    \* see HoldLapses

ASSUME OwnersAssumption ==
    /\ IsFiniteSet(Users)
    /\ IsFiniteSet(Orders)
    /\ Users \cap Orders = {}
    /\ Nobody \notin Users
ASSUME VariantsAssumption == Variants \subseteq Nat /\ IsFiniteSet(Variants)
ASSUME BoundsAssumption ==
    /\ MaxQty \in Nat \ {0}
    /\ InitialStock \in [Variants -> Nat]
    /\ MaxUses \in Nat
    /\ PerUserLimit \in Nat
    /\ StockEdits \subseteq Nat
    /\ TimelySettlement \in BOOLEAN

VARIABLES
    stock,          \* ProductVariant.stock
    cart,           \* quantities of each user's active cart
    cartCoupon,     \* users whose active cart carries the coupon
    staleCarts,     \* users whose active cart is past Cart.expires_at
    hold,           \* active reservation rows: neither released nor committed
    lapsed,         \* owners whose rows are past InventoryReservation.expires_at
    committed,      \* rows with committed_at set
    status,         \* Order.status, or "none" while there is no such row
    buyer, lines,   \* Order.user_id, OrderItem.quantity
    usage,          \* orders that have a CouponUsage row
    couponActive,   \* Coupon.active
    link,           \* the order's payment links, as the gateway sees them
    captured,       \* orders for which the gateway has taken the money
    returnable      \* orders delivered less than return_window_days ago

vars == << stock, cart, cartCoupon, staleCarts, hold, lapsed, committed, status,
           buyer, lines, usage, couponActive, link, captured, returnable >>

cartVars   == << cart, cartCoupon, staleCarts >>
holdVars   == << hold, lapsed, committed >>
orderVars  == << status, buyer, lines, returnable >>
couponVars == << usage, couponActive >>
payVars    == << link, captured >>

Owners   == Users \cup Orders
Lines    == [Variants -> 0..MaxQty]
NoLines  == [v \in Variants |-> 0]

-----------------------------------------------------------------------------
(* Stock availability.                                                     *)

\* The sum of qty over a finite set S: the number of its units, each tagged
\* with the member of S it belongs to.
Units(S, qty) == { w \in S \X (1..MaxQty) : w[2] <= qty[w[1]] }
Total(S, qty) == Cardinality(Units(S, qty))

\* reserved_quantity: what unexpired active rows hold, summed over the carts
\* that are not excluded.
HeldOf(v) == [w \in Owners |-> hold[w][v]]
Reserved(v, owners) == Total(owners \ lapsed, HeldOf(v))

\* Mutant of Fits: what other carts hold is not subtracted.
FitsPhysicalStock(want, v, others) == want[v] <= stock[v]

\* `stock - held` covers every line asked for, other owners' holds included.
Fits(want, v, others) == want[v] <= stock[v] - Reserved(v, others)

Drop(owners) == [w \in Owners |-> IF w \in owners THEN NoLines ELSE hold[w]]

\* release_reservations of every row these owners have.
Release(owners) ==
    /\ hold' = Drop(owners)
    /\ lapsed' = lapsed \ owners

\* release_reservations(from), then fresh rows for `owner` in one batch.
ReleaseAndHold(from, owner, want) ==
    /\ hold' = [Drop(from) EXCEPT ![owner] = want]
    /\ lapsed' = lapsed \ (from \cup {owner})

-----------------------------------------------------------------------------
(* The cart.                                                               *)

\* expire_cart: the carts become EXPIRED; the users' next carts start empty.
Retire(users) ==
    /\ cart' = [u \in Users |-> IF u \in users THEN NoLines ELSE cart[u]]
    /\ cartCoupon' = cartCoupon \ users
    /\ staleCarts' = staleCarts \ users

\* add_item and update_item set a line to n: get_or_create_cart first replaces
\* a cart that is past its expiry, the item then has to be available, and
\* touch_cart pushes the expiry out.
SetItem(u, v, n) ==
    LET opened == IF u \in staleCarts THEN NoLines ELSE cart[u] IN
    /\ n <= stock[v] - Reserved(v, Owners \ {u})
    /\ cart' = [cart EXCEPT ![u] = [opened EXCEPT ![v] = n]]
    /\ staleCarts' = staleCarts \ {u}
    /\ IF u \in staleCarts
       THEN /\ Release({u})
            /\ cartCoupon' = cartCoupon \ {u}
       ELSE UNCHANGED << hold, lapsed, cartCoupon >>
    /\ UNCHANGED << stock, committed, orderVars, couponVars, payVars >>

AddItem(u, v, n) ==
    LET have == IF u \in staleCarts THEN 0 ELSE cart[u][v] IN
    /\ have + n <= MaxQty
    /\ SetItem(u, v, have + n)

UpdateItem(u, v, n) ==
    /\ u \notin staleCarts
    /\ cart[u][v] > 0
    /\ SetItem(u, v, n)

RemoveItem(u, v) ==
    /\ u \notin staleCarts
    /\ cart[u][v] > 0
    /\ cart' = [cart EXCEPT ![u][v] = 0]
    /\ UNCHANGED << stock, cartCoupon, staleCarts, holdVars, orderVars, couponVars, payVars >>

\* get_or_create_cart on a cart past its expiry, from a request that then
\* changes nothing else (viewing the cart, removing its coupon).
ReopenCart(u) ==
    /\ u \in staleCarts
    /\ Retire({u})
    /\ Release({u})
    /\ UNCHANGED << stock, committed, orderVars, couponVars, payVars >>

\* Mutant of CouponValid: one redemption too many gets through.
CouponValidOffByOne(u) ==
    /\ couponActive
    /\ Cardinality(usage) <= MaxUses
    /\ Cardinality({ o \in usage : buyer[o] = u }) <= PerUserLimit

\* validate_coupon: active, and both limits still leave room.
UsedBy(u) == { o \in usage : buyer[o] = u }

CouponValid(u) ==
    /\ couponActive
    /\ Cardinality(usage) < MaxUses
    /\ Cardinality(UsedBy(u)) < PerUserLimit

ApplyCoupon(u) ==
    /\ u \notin staleCarts
    /\ cart[u] # NoLines
    /\ CouponValid(u)
    /\ cartCoupon' = cartCoupon \cup {u}
    /\ UNCHANGED << stock, cart, staleCarts, holdVars, orderVars, couponVars, payVars >>

\* remove_coupon, and price_cart dropping a coupon that is no longer valid.
RemoveCoupon(u) ==
    /\ u \in cartCoupon
    /\ u \notin staleCarts
    /\ cartCoupon' = cartCoupon \ {u}
    /\ UNCHANGED << stock, cart, staleCarts, holdVars, orderVars, couponVars, payVars >>

-----------------------------------------------------------------------------
(* Checkout.                                                               *)

\* The lines reserve_inventory finds too little stock for.
Short(u) == { v \in Variants : cart[u][v] > 0 /\ ~ Fits(cart[u], v, Owners \ {u}) }

\* A checkout that goes through.  get_active_cart does not look at expires_at,
\* so a stale cart can be bought.  A coupon that is no longer valid is dropped
\* by price_cart and the order is placed at full price.  The web route rolls
\* back if the gateway refuses a link; on WhatsApp execute_actions swallows
\* that error, the worker commits, and the order stays without a link.
Checkout(u, o, linkState) ==
    LET redeems == u \in cartCoupon /\ CouponValid(u) IN
    /\ status[o] = "none"
    /\ cart[u] # NoLines
    /\ Short(u) = {}
    /\ linkState \in {"open", "none"}
    /\ ReleaseAndHold({u}, o, cart[u])
    /\ status' = [status EXCEPT ![o] = "pending_payment"]
    /\ buyer' = [buyer EXCEPT ![o] = u]
    /\ lines' = [lines EXCEPT ![o] = cart[u]]
    /\ usage' = IF redeems THEN usage \cup {o} ELSE usage
    /\ Retire({u})
    /\ link' = [link EXCEPT ![o] = linkState]
    /\ UNCHANGED << stock, committed, couponActive, captured, returnable >>

\* The WhatsApp checkout that runs out of stock.  reserve_inventory has
\* released the cart's old rows and added rows for the variants with smaller
\* ids when it raises; execute_actions turns the exception into a message and
\* session_scope commits what was written.  The web route rolls back instead.
ChatCheckoutFails(u) ==
    /\ cart[u] # NoLines
    /\ Short(u) # {}
    /\ LET heldBefore == { v \in Variants : \A w \in Short(u) : v < w }
       IN  ReleaseAndHold({u}, u,
               [v \in Variants |-> IF v \in heldBefore THEN cart[u][v] ELSE 0])
    /\ UNCHANGED << stock, cartVars, committed, orderVars, couponVars, payVars >>

\* Mutant of RetryPayment: a new link without a new hold.
RetryPaymentWithoutHold(o) ==
    /\ status[o] = "pending_payment"
    /\ Release({o})
    /\ link' = [link EXCEPT ![o] = "open"]
    /\ UNCHANGED << stock, cartVars, committed, orderVars, couponVars, captured >>

\* retry_payment: release the order's rows, hold its lines again against
\* everything else that is held, and open another link.
RetryPayment(o) ==
    /\ status[o] = "pending_payment"
    /\ \A v \in Variants : lines[o][v] > 0 => Fits(lines[o], v, Owners \ {o})
    /\ ReleaseAndHold({o}, o, lines[o])
    /\ link' = [link EXCEPT ![o] = "open"]
    /\ UNCHANGED << stock, cartVars, committed, orderVars, couponVars, captured >>

-----------------------------------------------------------------------------
(* Settlement, status chain, cancellation.                                 *)

\* Mutant of StockAfterCommit: the decrement is not clamped.
StockAfterCommitUnclamped(o) == [v \in Variants |-> stock[v] - hold[o][v]]

\* commit_reservations: rows of the order that nobody released, expired ones
\* included; the decrement is clamped at zero.
StockAfterCommit(o) ==
    [v \in Variants |-> IF hold[o][v] <= stock[v] THEN stock[v] - hold[o][v] ELSE 0]

\* Mutant of MarkPaid: the committed rows stay active.
MarkPaidKeepsRows(o) ==
    /\ o \in captured
    /\ status[o] = "pending_payment"
    /\ status' = [status EXCEPT ![o] = "pending_confirmation"]
    /\ stock' = StockAfterCommit(o)
    /\ committed' = [committed EXCEPT ![o] = hold[o]]
    /\ UNCHANGED << cartVars, hold, lapsed, buyer, lines, returnable, couponVars, payVars >>

\* Mutant of MarkPaid: a late payment revives a cancelled order.
MarkPaidWhateverStatus(o) ==
    /\ o \in captured
    /\ status[o] \in {"pending_payment", "cancelled"}
    /\ status' = [status EXCEPT ![o] = "pending_confirmation"]
    /\ stock' = StockAfterCommit(o)
    /\ committed' = [committed EXCEPT ![o] = hold[o]]
    /\ Release({o})
    /\ UNCHANGED << cartVars, buyer, lines, returnable, couponVars, payVars >>

\* mark_paid for an order whose money was captured: paid, commit the holds,
\* pending_confirmation, in one transaction.  A no-op unless still pending.
MarkPaid(o) ==
    /\ o \in captured
    /\ status[o] = "pending_payment"
    /\ status' = [status EXCEPT ![o] = "pending_confirmation"]
    /\ stock' = StockAfterCommit(o)
    /\ committed' = [committed EXCEPT ![o] = hold[o]]
    /\ Release({o})
    /\ UNCHANGED << cartVars, buyer, lines, returnable, couponVars, payVars >>

\* transition, with the delivered_at stamp that opens the return window.
MoveTo(o, target) ==
    /\ status[o] # "none"
    /\ CanTransition(status[o], target)
    /\ status' = [status EXCEPT ![o] = target]
    /\ returnable' = IF target = "delivered" THEN returnable \cup {o} ELSE returnable
    /\ UNCHANGED << stock, cartVars, holdVars, buyer, lines, couponVars, payVars >>

ConfirmOrder(o) == MoveTo(o, "confirmed")

UpdateStatus(o, target) == target \in AgentSettable /\ MoveTo(o, target)

RequestReturn(o) ==
    /\ status[o] = "delivered"
    /\ o \in returnable
    /\ MoveTo(o, "return_requested")

\* cancel_order: restore_stock adds the ordered quantities back if the status
\* says the order was paid, else the holds are released; the coupon is freed.
CancelOrder(o) ==
    /\ status[o] \notin NonCancellable \cup {"none"}
    /\ status' = [status EXCEPT ![o] = "cancelled"]
    /\ IF status[o] \in WasPaid
       THEN /\ stock' = [v \in Variants |-> stock[v] + lines[o][v]]
            /\ UNCHANGED << hold, lapsed >>
       ELSE /\ Release({o})
            /\ UNCHANGED stock
    /\ usage' = usage \ {o}
    /\ UNCHANGED << cartVars, committed, buyer, lines, returnable, couponActive, payVars >>

-----------------------------------------------------------------------------
(* The cron jobs and the admin.                                            *)

\* Mutant of CleanupReservations: rows without an order are forgotten.
CleanupOrderRows ==
    /\ lapsed \cap Orders # {}
    /\ Release(lapsed \cap Orders)
    /\ UNCHANGED << stock, cartVars, committed, orderVars, couponVars, payVars >>

\* cleanup_expired_reservations.
CleanupReservations ==
    /\ lapsed # {}
    /\ Release(lapsed)
    /\ UNCHANGED << stock, cartVars, committed, orderVars, couponVars, payVars >>

\* expire_stale_carts.
ExpireCarts ==
    /\ staleCarts # {}
    /\ Retire(staleCarts)
    /\ Release(staleCarts)
    /\ UNCHANGED << stock, committed, orderVars, couponVars, payVars >>

\* update_variant writes an absolute stock figure, whatever is held.
EditStock(v, n) ==
    /\ stock' = [stock EXCEPT ![v] = n]
    /\ UNCHANGED << cartVars, holdVars, orderVars, couponVars, payVars >>

\* update_coupon toggling Coupon.active.
ToggleCoupon ==
    /\ couponActive' = ~ couponActive
    /\ UNCHANGED << stock, cartVars, holdVars, orderVars, usage, payVars >>

-----------------------------------------------------------------------------
(* Time and the gateway.                                                   *)

CartGoesStale(u) ==
    /\ u \notin staleCarts
    /\ cart[u] # NoLines \/ hold[u] # NoLines
    /\ staleCarts' = staleCarts \cup {u}
    /\ UNCHANGED << stock, cart, cartCoupon, holdVars, orderVars, couponVars, payVars >>

\* The shopper pays through an open link.  Nothing withdraws a link when its
\* order is cancelled, so the status does not matter here.
CapturePayment(o) ==
    /\ link[o] = "open"
    /\ captured' = captured \cup {o}
    /\ UNCHANGED << stock, cartVars, holdVars, orderVars, couponVars, link >>

\* payment_link_ttl_minutes pass: the gateway takes no more money.
LinkExpires(o) ==
    /\ link[o] = "open"
    /\ link' = [link EXCEPT ![o] = "closed"]
    /\ UNCHANGED << stock, cartVars, holdVars, orderVars, couponVars, captured >>

\* Mutant of HoldLapses: a hold that may run out before its link does.
HoldLapsesEarly(w) ==
    /\ hold[w] # NoLines
    /\ w \notin lapsed
    /\ lapsed' = lapsed \cup {w}
    /\ UNCHANGED << stock, cartVars, hold, committed, orderVars, couponVars, payVars >>

\* reservation_ttl_minutes pass.  A batch of rows is written in the same
\* transaction as its link and lives five minutes longer (35 against 30), so
\* the link is closed by then.  TimelySettlement assumes that those five
\* minutes are enough to settle a payment the link still took.
HoldLapses(w) ==
    /\ hold[w] # NoLines
    /\ w \notin lapsed
    /\ w \in Orders =>
         /\ link[w] # "open"
         /\ TimelySettlement => ~ (w \in captured /\ status[w] = "pending_payment")
    /\ lapsed' = lapsed \cup {w}
    /\ UNCHANGED << stock, cartVars, hold, committed, orderVars, couponVars, payVars >>

\* return_window_days pass since the last delivered_at.
ReturnWindowCloses(o) ==
    /\ o \in returnable
    /\ returnable' = returnable \ {o}
    /\ UNCHANGED << stock, cartVars, holdVars, status, buyer, lines, couponVars, payVars >>

-----------------------------------------------------------------------------
Init ==
    /\ stock = InitialStock
    /\ cart = [u \in Users |-> NoLines]
    /\ cartCoupon = {}
    /\ staleCarts = {}
    /\ hold = [w \in Owners |-> NoLines]
    /\ lapsed = {}
    /\ committed = [o \in Orders |-> NoLines]
    /\ status = [o \in Orders |-> "none"]
    /\ buyer = [o \in Orders |-> Nobody]
    /\ lines = [o \in Orders |-> NoLines]
    /\ usage = {}
    /\ couponActive = TRUE
    /\ link = [o \in Orders |-> "none"]
    /\ captured = {}
    /\ returnable = {}

ShopperStep(u) ==
    \/ \E v \in Variants, n \in 1..MaxQty : AddItem(u, v, n) \/ UpdateItem(u, v, n)
    \/ \E v \in Variants : RemoveItem(u, v)
    \/ ReopenCart(u)
    \/ ApplyCoupon(u)
    \/ RemoveCoupon(u)
    \/ \E o \in Orders, l \in {"open", "none"} : Checkout(u, o, l)
    \/ ChatCheckoutFails(u)
    \/ CartGoesStale(u)

OrderStep(o) ==
    \/ RetryPayment(o)
    \/ MarkPaid(o)
    \/ ConfirmOrder(o)
    \/ \E s \in AgentSettable : UpdateStatus(o, s)
    \/ RequestReturn(o)
    \/ CancelOrder(o)
    \/ CapturePayment(o)
    \/ LinkExpires(o)
    \/ ReturnWindowCloses(o)

Next ==
    \/ \E u \in Users : ShopperStep(u)
    \/ \E o \in Orders : OrderStep(o)
    \/ \E w \in Owners : HoldLapses(w)
    \/ CleanupReservations
    \/ ExpireCarts
    \/ \E v \in Variants, n \in StockEdits : EditStock(v, n)
    \/ ToggleCoupon

Spec == Init /\ [][Next]_vars

\* Time passes and the crons fire; nobody is obliged to pay, retry or settle.
Fairness ==
    /\ WF_vars(CleanupReservations)
    /\ \A o \in Orders : WF_vars(LinkExpires(o))
    /\ \A w \in Owners : WF_vars(HoldLapses(w))

FairSpec == Spec /\ Fairness

-----------------------------------------------------------------------------
(* Properties.                                                             *)

\* Type invariant, with the normal form the module keeps: only an owner with
\* rows can have lapsed ones.
TypeOK ==
    /\ stock \in [Variants -> Nat]
    /\ cart \in [Users -> Lines]
    /\ cartCoupon \subseteq Users
    /\ staleCarts \subseteq Users
    /\ hold \in [Owners -> Lines]
    /\ lapsed \subseteq { w \in Owners : hold[w] # NoLines }
    /\ committed \in [Orders -> Lines]
    /\ status \in [Orders -> Statuses \cup {"none"}]
    /\ buyer \in [Orders -> Users \cup {Nobody}]
    /\ lines \in [Orders -> Lines]
    /\ usage \subseteq Orders
    /\ couponActive \in BOOLEAN
    /\ link \in [Orders -> {"none", "open", "closed"}]
    /\ captured \subseteq Orders
    /\ returnable \subseteq Orders

\* A hold outlives nothing it was taken for: the active rows of an order are
\* exactly its lines, and only an order still awaiting payment has any.  This
\* is what mark_paid, cancel_order and retry_payment rely on when they commit,
\* release or replace "the order's rows" without looking at them.
HoldsFollowOrders ==
    \A o \in Orders : hold[o] # NoLines =>
        status[o] = "pending_payment" /\ hold[o] = lines[o]

\* As long as the gateway would take money for an order that awaits payment,
\* everything in the order is held for it: the link's ttl is the shorter one,
\* and no job releases the hold before the link is closed.
PayableOrdersHeld ==
    \A o \in Orders : status[o] = "pending_payment" /\ link[o] = "open" =>
        hold[o] = lines[o] /\ o \notin lapsed

\* And once the gateway has taken it, until mark_paid commits the hold.
CapturedOrdersHeld ==
    \A o \in captured : status[o] = "pending_payment" =>
        hold[o] = lines[o] /\ o \notin lapsed

\* Two shoppers cannot both hold the last unit (the header of cart.py): the
\* unexpired holds never exceed the physical stock.  Holds as long as no admin
\* overwrites the stock and payments settle while their hold is alive.
NoOversell == \A v \in Variants : Reserved(v, Owners) <= stock[v]

\* The orders whose goods have left the shelf, and those of them whose goods come back.
SoldStatuses == Statuses \ {"pending_payment", "cancelled"}
ReturnStatuses == {"return_requested", "return_approved", "returned", "refunded"}
Sold == { o \in Orders : status[o] \in SoldStatuses }
SentBack == { o \in Sold : status[o] \in ReturnStatuses }

\* mark_paid's promise to the agent who confirms the order: everything that a
\* paid order contains was taken out of stock when it was paid.
PaidOrdersHaveTheirStock == \A o \in Sold : committed[o] = lines[o]

\* Stock "only moves when a sale completes" (the header of cart.py): what is on the
\* shelf is the initial stock less the units of orders that were paid and not cancelled,
\* whether the shopper kept them or sent them back.  The docstring of restore_stock
\* promises to put stock back "after a cancellation or return"; a cancellation does, but
\* no step of a return calls it, and the units of an order that was returned and
\* refunded stay off the shelf for good.
SoldOf(v) == [o \in Orders |-> lines[o][v]]
StockConserved ==
    \A v \in Variants :
        stock[v] + Total(Sold \ SentBack, SoldOf(v)) + Total(SentBack, SoldOf(v)) = InitialStock[v]

\* Coupon limits count live redemptions: never more than the coupon allows in
\* total or per buyer, and none for an order that was cancelled.
CouponLimits ==
    /\ Cardinality(usage) <= MaxUses
    /\ \A u \in Users : Cardinality(UsedBy(u)) <= PerUserLimit
    /\ \A o \in usage : status[o] \notin {"none", "cancelled"}

\* No step of the chain is skipped (README, "Order lifecycle"), cancel_order
\* included, which writes the status without asking can_transition.  mark_paid
\* takes two steps at once.
ChainStep(from, to) ==
    \/ from = to
    \/ from = "none" /\ to = "pending_payment"
    \/ from = "pending_payment" /\ to = "pending_confirmation"
    \/ from # "none" /\ CanTransition(from, to)
StatusFollowsChain == [][\A o \in Orders : ChainStep(status[o], status'[o])]_vars

\* "A stock failure aborts with nothing written" (checkout): no committed state
\* has holds of a cart that did not become an order.
FailedCheckoutWritesNothing == \A u \in Users : hold[u] = NoLines

\* An abandoned checkout can never strand stock permanently (README,
\* "Inventory"): unless the shopper renews them for ever, by retrying the
\* payment or the failing checkout, every owner's holds are eventually gone,
\* released or committed.
Renews(w) ==
    \/ w \in Orders /\ RetryPayment(w)
    \/ w \in Users /\ ChatCheckoutFails(w)
NoStrandedStock ==
    \A w \in Owners :
        \/ []<><< Renews(w) >>_vars
        \/ (hold[w] # NoLines) ~> (hold[w] = NoLines)

\* The abstract inventory: a shelf and the set of sales made from it.
Shelf == INSTANCE Inventory WITH
            onHand <- stock,
            sold <- [o \in Orders |-> IF o \in Sold THEN lines[o] ELSE NoLines]

\* With timely settlement, holds, expiries, retries and cleanups are invisible
\* from outside: the stock figure changes only by an indivisible sale that the
\* shelf could cover, or by undoing one.
ImplementsInventory == Shelf!Spec
=============================================================================
