# A TLA+ model of the vriddhi shop

The program is a FastAPI shop back end: a web store and a WhatsApp assistant sell
product variants, a payment gateway (Cashfree) takes the money through payment
links, webhooks report what it took, arq workers process them, and agents confirm
and ship the orders. This directory holds TLA+ modules of its core, the TLC
configurations that check them and TLAPS proofs about them. Paths below are
relative to the repository; `services/…`, `workers/…` mean `app/services/…`, etc.

## 1. Inventory of the system

| Component | State it keeps | Operations |
|---|---|---|
| Order state machine (`models/enums.py`, `services/order.py`) | `Order.status`, items, stamps | `checkout`, `retry_payment`, `mark_paid`, `confirm_order`, `update_status`, `request_return`, `cancel_order` |
| Inventory (`services/cart.py`) | `ProductVariant.stock`; reservation rows with `expires_at`, `released_at`, `committed_at` | `reserve_inventory`, `release_reservations`, `commit_reservations`, `restore_stock`, `cleanup_expired_reservations` |
| Carts (`services/cart.py`) | one active cart per shopper, its lines, coupon, expiry | add, update, remove, apply/remove coupon, `expire_stale_carts`, conversion by checkout |
| Coupons (`services/coupon.py`) | coupon row, one usage row per redemption | validate, `record_usage`, `release_usage`, toggling |
| Webhook receipt (`routers/webhook.py`) | the event ledger (`pending`, `processed`, `failed`) | record, commit, enqueue |
| Webhook worker (`workers/webhook_processor.py`) | job queue, job slots, transactions | `process_payment_event`, `process_whatsapp_message`, `_persist_failure`, `sweep_pending_events` |
| Payments (`services/payment.py`) | `Payment.status`, `expires_at` | `create_payment_link`, `settle_payment`, `expire_stale_payments` |
| Refunds (`services/payment.py`) | `Refund` rows, idempotency keys | `initiate_refund`, `settle_refund` |
| WhatsApp assistant (`services/ai_chat.py`) | circuit breaker in Redis, the conversation's memory | `generate_reply`, `execute_actions`, `maybe_summarize`, `update_context` |
| Conversations (`services/conversation.py`, `routers/admin.py`) | status (AI, queued, human, resolved), agent, place in the queue, SLA deadline | escalate, assign, unassign, reply, resolve, return to AI, `check_sla_breaches` |
| Accounts (`services/user.py`, `services/account_merge.py`) | users, owners of rows, wishlists, addresses | log in, set a phone, add, merge |
| Sessions (`auth.py`, `routers/auth.py`) | refresh-token rows and their families | log in, rotate, log out, revoke |
| Pricing and shipping (`services/cart.py`, `tax.py`, `coupon.py`, `shipping.py`, `invoice.py`) | rate cards, served pincodes | price a cart, draw an invoice, quote, upload |
| Catalogue and reviews (`services/product.py`, `review.py`, `cache.py`) | product and review rows, cached lists and ratings | edit, import, review, read through the cache |
| Meta's catalogue (`services/catalog_sync.py`, `workers/catalog_tasks.py`) | `sync_status`, what Meta shows | sync, delete, nightly sweep |
| Outreach (`workers/cart_tasks.py`, `services/email.py`, `services/notification.py`) | reminder stamps, the e-mail log, notification rows | remind, mail, broadcast, mark read |
| HTTP layer | none of its own | parsing, authorisation, limits, cursors |

**How they interact.** Everything shares one PostgreSQL database at READ COMMITTED;
a request or a job is one transaction (`get_db`, `session_scope`), except where the
code opens a second one on purpose (`_persist_failure`) or commits early
(`cashfree_webhook` before it enqueues). Redis carries jobs from requests to
workers. The gateway calls back over HTTP, may repeat itself, and knows nothing of
the shop's database: a cancelled order's link stays payable. Cron jobs release
expired holds, retire stale carts, expire links and re-enqueue forgotten events.

**What is hard.** Two shoppers and the last unit; holds, links and settlements with
three independent clocks; payments arriving after the hold or the order is gone; a
chat checkout whose exception is swallowed and whose transaction commits; the same
event in two workers at once; a crash between recording, enqueueing and settling; a
cron that writes rows it read before somebody else settled them; a failure handler
that waits for itself. `PROJECT.json` lists these hazards one by one with their lines.

**What makes each part correct.** Orders: no step of the chain is skipped. Inventory:
unexpired holds never exceed the stock, stock changes only by whole sales and their
cancellation, a paid order's units were taken, no hold is stranded. Coupons: limits hold
over live redemptions. Pipeline: recorded events are handled, a payment is settled
and announced together, a settled payment is not settled again, completed payments
stay completed, failures are recorded, paid orders move on. Refunds:
never more than was paid, and no money leaves without a row. Conversations: every
message logged once and answered once (but for lost answers and cut jobs), the columns of a thread tell one story. Accounts:
a merge loses no row; one default address; a login is one session and a revocation is
final. Bills, breakups and invoices add up. What is cached, listed at Meta, mailed,
reminded or announced agrees with the database, but for races that each module names.

## 2. The modules

| Module | Models | Checked by | Proofs |
|---|---|---|---|
| `OrderStatus` | the tables of `models/enums.py` | with `Fulfilment` | |
| `Inventory` | the abstract shelf: sell, undo | refined in `stock` | `Fulfilment_proofs` |
| `Fulfilment` | carts, holds, orders, coupons; one action per service operation | `stock`, `disturbed`, `live`, `partial` | `Fulfilment_proofs` |
| `PaymentPipeline` | receipt, ledger, queue, workers, settlement, expiry; one action per statement | `events`, `overwritten`, `unpaid`, `markers` | `PaymentPipeline_proofs` |
| `CheckoutTxn` | the statements of checkout, retry and cancellation, interleaved under row locks | `race`, `twice` | `CheckoutTxn_proofs` |
| `Support` | a WhatsApp thread: the worker's job, the agents' requests, the SLA sweep | `support` | `Support_proofs` |
| `Refunds` | refund requests, the gateway and its events | `backoffice` | `Office_proofs` |
| `Sessions` | refresh tokens | `backoffice` | `Backoffice_proofs` |
| `Accounts` | identities, ownership, merges | `backoffice` | `Backoffice_proofs` |
| `AddressBook` | the default address | `backoffice` | `Backoffice_proofs` |
| `Assistant` | one message's actions, reply and commit | `backoffice` | `Shop_proofs` |
| `Breaker` | the circuit breaker | `backoffice` | `Shop_proofs` |
| `Memory` | what the assistant remembers | `backoffice` | `Shop_proofs` |
| `Nudges`, `OrderMail`, `Notices` | cart reminders, order mails, agents' notifications | `backoffice` | `Office_proofs` |
| `Storefront`, `CatalogSync` | the cached catalogue; its copy at Meta | `backoffice` | `Shop_proofs` |
| `Shipping` | rate cards, pincodes, quotes | `backoffice` | `Shop_proofs` |
| `Pricing` | bills, tax, invoices, amounts in words | `backoffice` | `Office_proofs` |
| `Backoffice` | the fourteen components that share nothing, from `Refunds` down, one at a time | `backoffice` | `Backoffice_proofs` |
| `Induction` | nothing of the program: lemmas on numbers, sums and folds | | itself |

The modules were written in the order of what goes wrong most expensively: stock and
money first. `CheckoutTxn` refines nothing formally: it opens up three operations that
`Fulfilment` takes to be indivisible and shows that, interleaved, they keep the same
invariants. The modules meet at the rows they share: `Assistant` takes a checkout as one
action whose inside is in `Fulfilment` and `CheckoutTxn`, and the turn of a conversation
as one job whose receipt is in `Support`.

What would come next: `commit_reservations` and `restore_stock` in `CheckoutTxn`, so that the
stock moves while requests are interleaved (section 6 says why this has not been worth it
while nothing calls `mark_paid`); a composition of `Assistant` with the shopper's web requests.

## 3. The modules and the code

### `OrderStatus`, `Inventory`, `Fulfilment`

`Fulfilment` has one action per operation of `services/cart.py` and
`services/order.py`, as if its transaction ran alone. For stock this is what
`SELECT … FOR UPDATE` on the variants is there for; for rows read without a lock it is
an abstraction, which `CheckoutTxn` removes for checkouts, retries and cancellations.

- `hold[w]` are the active reservation rows of owner `w`: a shopper (rows of the
  active cart without an order) or an order. All rows of one owner are written in one
  call with one `expires_at`, hence `lapsed` is a set of owners. `committed` are the rows
  with `committed_at`.
- `link[o]` and `captured` are the gateway's side: whether some link of the order is
  still payable, and whether money was taken. Several links of one order (after a
  retry) are one link that is open until the last one closes.
- A checkout through the web that fails is rolled back and leaves no trace, so it is no
  action. `ChatCheckoutFails` is the same failure through the assistant:
  `execute_actions` swallows the exception and `session_scope` commits. For the same
  reason `Checkout` may create an order without a link.
- `MarkPaid` is `mark_paid`, as the tests call it. **The application itself never
  calls it** (run `unpaid`); the module models the operation, for what it promises once
  it is called for a captured payment.
- `HoldLapses` relies on `config.py`: a hold lives 35 minutes, its link 30. With
  `TimelySettlement` the five minutes between them suffice to settle a captured
  payment; without it they need not. This is an assumption about the gateway and the
  workers, not something the code enforces, and every claim that rests on it says so.
- Cart prices, addresses and dates of a coupon are left out; `EditStock` is the admin's
  `update_variant`; `ToggleCoupon` its `update_coupon`.

`Inventory` is what the above promises: a shelf and sales of it. The refinement maps
`onHand` to `stock` and `sold[o]` to the order's lines while it is paid and not
cancelled.

### `CheckoutTxn`

Every request is one transaction at PostgreSQL's READ COMMITTED, one action per statement
that reads what others commit or waits for what they lock. `active`, `status` and `usage`
are the committed database; `pc`, `doomed` and `locked` say how far each request is, which
reservation rows it releases and which variants it holds.

- A checkout request stands for its order too, and a row is a request and a variant:
  one unit per line, so a count of rows is the sum `reserved_quantity` makes.
- `Load` and `Select` read without a lock. The cart is active until an order of it is
  committed; nothing later in the code looks again, which is the double checkout of run
  `twice`. `Select` and `Flush` are the two statements of `release_reservations`; the
  update is by key, so it releases rows another request has released meanwhile.
- `LockVariant` is the `FOR UPDATE` of `reserve_inventory` and `retry_payment` with the
  check after it. A checkout takes the variants by id and leaves the rows of its own cart
  out; a retry takes them as the items come and counts all it has not released. `Price`
  and `LockCoupon` are the coupon's two validations, without and with the lock.
- The session has `autoflush=False`: rows are invisible until the end, hence inserted at
  `Commit`. Locks on the cart and order rows are subsumed by those of the variants
  and reservations, except two cancellations of one order (`WaitsForRow`).
- `Fail` is an exception at any statement, a broken deadlock or a crash; on these routes
  the session rolls back. The assistant's checkout, which commits instead, is
  `ChatCheckoutFails` in `Fulfilment`.
- Holds do not run out and stock does not change while these requests run.

### `PaymentPipeline`

One action per statement that other transactions can observe. A job is a transaction:
its reads see what is committed (`ReadPayment`), its flushes take row locks (`Claim` the
event's, `WritePayment` the payment's), and everything it wrote becomes visible at
`Commit`. Locks are not variables: `EventLocked` and `PaymentLocked` derive them from
where the jobs are. `seen` is what the job read, `wrote` what it has flushed.

- `Receive`/`Enqueue`/`EnqueueFails` are the two halves of `cashfree_webhook`; a
  repeated delivery finds the row and changes nothing.
- `Start` and `Claim` are `_claim`: the status is checked when the row is loaded, and the
  flush that locks it may wait long after. The status is not looked at again, so a job can
  run for an event another has processed meanwhile.
- `HandlerFails` and `MarkFailed`: an exception in the handler awaits `_persist_failure`,
  whose own transaction needs the event's row. Unless a failed flush had already rolled
  the handler's transaction back, that row is locked by the handler itself, until
  `JobTimesOut` (`job_timeout` in `workers/settings.py`).
- `Abort` is a crash, or an exception outside the handler's `try` such as one in
  `_after_payment`. arq runs the job of a dead worker again; it does not retry a plain
  exception.
- `Sweep` re-enqueues pending events. The code stops at three attempts, but the count is
  flushed, not committed, by every job that does not succeed: no pending row ever has a
  count above zero, so the bound has no counterpart in the model.
- `ReadStale`/`WriteExpired` are the select and the update of `expire_stale_payments`.
- `OpenLink` and `CommitLink` are the two ends of `create_payment_link`: the gateway has the
  link (`opened`) before the transaction commits the Payment row (and, at checkout, the
  order), and a transaction that is rolled back leaves the link open for ever. An event
  recorded meanwhile finds no row (`ReadPayment`, `settle_payment`'s unmatched branch) and
  is marked processed like any other; `early` collects the successes among them.
- The gateway is assumed to report the success of a link in one event (`OneSuccess`; its
  event id is built from the payment's own id). Statuses CREATED and PENDING are one:
  they differ within `create_payment_link` only.

### `Support`

One WhatsApp thread from the message's arrival to its resolution. `slot` is the job
`process_whatsapp_message` of each worker slot, `desk` the request each agent has in
flight; both read the conversation, decide on what they have read and write later.

- SQLAlchemy's UPDATE names only the columns that changed since the row was loaded, so two
  transactions on one thread merge column by column (`Flush`). That is how a thread ends
  up queued without a place, or a person's without a person; `raced` collects the threads
  where it may have happened, and `ColumnsAgree` speaks about the others.
- `record_inbound` finds a message another job has logged (`KnownMessage`) and the job then
  only marks the event (`EndJob`). A reply is sent (`Reply`) before the commit (`CommitReply`), so a job cut
  off in between sends it again. `_deliver` sends plain text after any exception of the rich
  send, also a timeout after WhatsApp had taken the reply (`ReplyAgain`, counted in
  `unheard`). `AnsweredOnce` counts both exactly.
- A failed send, a timeout and a dead worker are one action (`AbortJob`), since
  nothing of the transaction is committed in any of them.
- The starting rows are the ones earlier messages and agents, one at a time, can have left.

### `Refunds`, `Sessions`, `Accounts`, `AddressBook`

Small state machines whose requests read, then commit. Each keeps *history variables* for
the overlaps the code does not exclude, and its properties say what holds outside of them,
so that the worst a race can do is stated rather than hidden:

- `Refunds`: `overlapped` are requests in flight at once (both read the same refunded
  total), `cutOff` those that asked the gateway and never committed. A refund request draws
  a fresh key each time, so the gateway cannot recognise a repeated one. `MarkLocally` is the
  branch without a configured gateway, which calls the refund done and moves no money.
- `Sessions`: a login is two steps, the read of the account (`BeginLogin`) and the commit
  (`Login`), as a rotation is. `contested` are logins whose token two requests rotated at
  once; `overtaken` tokens under rotation, and `caught` those a login was about to issue,
  when their owner was merged into another account; `ended` the families a detected reuse
  found at rest, which are the ones it really ends. `DetectReuse` has its own
  transaction, which is why the refusal does not roll it back.
- `Accounts`: `entangled` are accounts whose merge overlapped another merge or a request of
  the shopper. Opening a cart is a select (`FindCart`, `FindNoCart`) and a later insert
  (`OpenCart`) without a constraint behind it, so two requests may open two: `rushed` are the
  accounts where that could happen. A cart past `expires_at`, which `get_or_create_cart`
  retires, counts as none. Coupon redemptions are not among what a merge moves, and not
  among the `Goods` of the model. `MergedUsers` includes the order of the updates, which decides whether the unique index
  on the phone refuses the merge.
- `AddressBook`: `crowded` had two requests at once, `mixed` came to have two
  defaults by a merge, `unset` had the flag taken off by its shopper.

### `Assistant`, `Breaker`, `Memory`

`Assistant` is one turn. The model's proposal is any list of up to `MaxActions` actions on
what the context shows it, and any of them may fail. `talk` is the session: what the turn
has done and not committed. A failure of the database itself dooms the session
(`talk.doomed`): later actions fail too and the commit cannot succeed. The gateway's links
(`link`) live outside the transaction, hence `orphaned`. A turn is the model's, a cart sent
from the catalogue, or the script's look at the cart when there is no model
(`StartCartView`). What its reply says is a record: an order or a count, the reason of a
failure, an amount; `Stated` is the lookup of a key that `price_cart` does or does not return
(`PricedKeys`), so the amounts the code states come out as it states them. `Breaker` has the two Redis keys, read and
written back without a lock. `Memory` has the context column: the last entries, the summary,
the limit of its size (weights stand for bytes), and the job that overwrites what another
one wrote between; `memory.dry` counts the failed summaries behind the column as it is, and
is carried with it because a wholesale write carries it too.

### `Nudges`, `OrderMail`, `Notices`

Three ways to write to people: a sweep that writes to all and marks in one commit at the
end; a log that is asked, then sent, then written; rows that commit with what raised them.
`sweepsCut`, `mailCuts` and `crossed` are the cuts and overlaps, and `unheard` the sends that
raised after delivery, after which a second copy may go out.

### `Storefront`, `CatalogSync`, `Shipping`, `Pricing`

- `Storefront`: a writer flushes, drops the cached keys and commits; a reader loads and
  stores. `suspect` are the keys that may be outdated: stored between a drop and its commit,
  or filled by a reader that had read before, or not dropped because Redis was away. The cached
  lists and the ratings are the keys; a catalogue is a number that grows with its changes.
  `DropCatalog` is `invalidate_catalog`, which drops the rating only where it names a product.
- `CatalogSync`: `shown` is what Meta shows for each item of a product: its variants and, as
  `Whole`, the product itself, which is offered only while it has no active variants.
  `BatchOf` is `_build_requests`: an update for what is offered now, where only the product's
  own item heeds `product.active`; `Removal` is the batch of a delete job. Part of a batch may
  be taken, and its answer lost. `outrun` are products changed or deleted while a job was at
  them, `unmarked` those of which only a variant or the stock changed, which does not reset
  `sync_status`; `withdrawn` ceased to offer an item that was listed or about to be, which no
  sync removes; `retired` were taken out by a delete job.
- `Shipping`: `Active` are the served pincodes; an empty set means everywhere, which
  `StaysRestricted` says an upload never brings about again.
- `Pricing`: pure arithmetic in paise with the code's roundings. `Priced` is `price_cart`,
  `InvoiceOf` the invoice frozen from it (what it calls the taxable value is the line less its
  discount, tax included), `IndianWords` the amount in words, checked
  against a reader of such words (`ReadAmount`). The assumption on the constants is the
  schema's: prices and quantities are natural, a rate is at most a hundred percent, and a
  total fits `Numeric(12, 2)`, ten digits before the point.

## 4. The runs

| Run | Shows |
|---|---|
| `stock` | Two shoppers, two orders, two units of one variant, lines of one or two, settlement in time, no stock edits. Holds never exceed stock (`NoOversell`), money is only taken for held goods (`CapturedOrdersHeld`), paid orders had their units taken, the stock accounts for them, returned ones included, and `Inventory` is implemented. |
| `disturbed` | The last unit and a one-use coupon, payments settling arbitrarily late, an admin overwriting the stock. Types, holds, coupon limits and the status chain survive. |
| `live` | Two variants, no timely settlement: every hold is eventually released or committed. |
| `events` | One link, committed before or after the gateway reports it or never, a success and a failure event, two workers, a copy made by the sweep, a fault at any statement: ledger and notification agree but for events that came before their row, nothing settled is settled again, no recorded event stays pending. |
| `race` | Two carts that share both lines and one with a line of its own, the last unit of one variant, one coupon use for all of them, two retries and a cancellation of one order: stock, coupon limit and payable orders' holds survive every interleaving, and no checkouts wait in a circle. |
| `support` | One customer's message, its duplicate job, two agents of whom one is an admin, the SLA sweep, a job cut off anywhere, an answer of WhatsApp lost, from every state earlier traffic may have left the thread in: ledger and log agree (`LedgerMatchesLog`), `AnsweredOnce`, `ColumnsAgree`. |
| `backoffice` | The fourteen modules from `Refunds` to `Assistant`, each by itself: refunds stay within the payment and on record, one token per login and final revocations, merges that lose nothing, no second cart but by a race, one default address, a breaker that opens in time, turns remembered, one reminder per visit and one mail per kind, charges and words that add up, caches, Meta's catalogue and alerts that are true, links that have rows, an area that stays restricted and replies that follow what was done. |
| `twice` (violation) | Two checkouts of one cart hold the last unit for two orders. |
| `partial` (violation) | A WhatsApp checkout that runs out at its second line keeps the first one's hold. |
| `unpaid` (violation) | A settled payment leaves its order in `pending_payment` for ever. |
| `overwritten` (violation) | The expiry cron writes EXPIRED over a payment settled since it was read. With a copy of the event in the queue the payment is then settled and announced a second time. |
| `markers` (violation) | A handler failure is not recorded: the marker waits for the handler that awaits it. |

Settlement after the hold was cleaned up takes nothing from the stock, and cancelling such
an order adds units that never left. This is why `StockConserved` and
`PaidOrdersHaveTheirStock` are claimed with `TimelySettlement` only.

**`backoffice`.** The components of this run share no variable with one another. Their
interleavings would multiply the states and show nothing, so `Backoffice` draws one of
them at the start of a behaviour (`focus`) and lets it run alone while the others rest: the
reachable states are the sum of the components', about 1.15 million, not their product. (The
one thing that must be common to the resting ones, a row of a product just created, is
fixed by a conjunct of `Init`; `CatalogSync` itself starts from every such row.)
Each module states its own `…Next` and `…Spec`, which its proofs are about; `EachComponent`
(section 5) says that they hold in the composition too.

**Where documentation and code disagree.** Five runs end in a counterexample to what a
comment or a document says; each is a finding in `PROJECT.json`. Six more disagreements show in
properties that hold, because they state what the code does and not what is said of it:

| Said | Done | Stated by |
|---|---|---|
| `cart.py:529`: stock is put back "after a cancellation or return" | only `cancel_order` calls `restore_stock`; units of returned and refunded orders stay off the shelf | `StockConserved` (`SentBack`) |
| `auth.py:237`: a detected theft kills "the whole family" | a rotation or a login under way still issues a token that works | `RevocationsHold` (`ended`) |
| `cart_tasks.py:64`: "Only one nudge per cart" | a send that raises after delivery, and a cut sweep, write again | `OneNudgePerVisit` (`unheard`, `sweepsCut`) |
| `tax.py:6`: taxable is gross x 100 / (100 + rate) | the invoice's "Taxable Value" is subtotal less discount, with the tax | `ChargesAddUp` (`invoice.taxable`) |
| `product.py:429`: a change "invalidates the Meta catalog copy" | a sync only updates what is offered; withdrawn items stay listed, changed variants do not reset the status | `SyncStatusIsTrue` (`withdrawn`, `unmarked`) |
| `webhook_processor.py:154`: outcomes override the model's optimism | totals of Rs.0.00 and Rs.None, a cart without lines, "out of stock" for any reason | `RepliesFollowOutcomes` (`TrueOf`) |

**Bounds.** Two shoppers and two orders are the least for competition over a unit, two
units with lines of up to two make partial availability happen, two variants make a
checkout fail half way. One coupon use makes the limit bite at the second order. In
`CheckoutTxn`, two overlapping carts with stock for one of them make each checkout succeed in
some order and fail in others and are the least for a deadlock; the third cart shares no
variant, so that its checkout meets the others at the coupon; each request is made once,
since a repeated one is another request. In the pipeline, two workers and one copy queued beside the one that
runs (`MaxCopies`) give a job racing its own duplicate, two events give overwriting between different verdicts, one
fault gives a crash or an exception at any statement; more faults repeat the same
interruption. `MaxCopies` bounds the copies the sweep adds; `MaxFaults` bounds faults, so
that liveness is about a system that eventually stops failing.

In `support`, one message with two jobs and two agents is the least in which a job races its
duplicate, an agent races a job, and two agents race each other; `MaxOps = 2` allows a
request after a request, `MaxUnheard = 1` one answer sent twice, and the earlier messages of the thread are its initial states.
The proofs cover any number of messages and customers.

In `backoffice`: three refunds of a payment of two units, so that any two fit or do not
beside the third; three tokens of one account, so that a lineage has a predecessor and a successor (requests
touch the rows of one account only; the proofs have any number); three
accounts, so that an account is absorbed by one that is absorbed in its turn, two
merges, and two rows among them (`MaxRows`), so that two requests open a cart each, or an
account has a cart and an order; two addresses and two edits; a breaker threshold of two with two jobs and a count
up to five, past a whole cooldown; five turns, two at a time (`MaxTogether`), with the
code's own `MAX_RECENT_MESSAGES` and `SUMMARY_TRIGGER_TURNS`, entries that weigh one or
`WideWeight` when escaped and `Room` for nine; two carts, one return, one reminder sent unheard, one sweep cut off;
three letters of one kind and one of another; carts of up to four lines from prices that
round both ways, with a discount nearly as large as the cart, so that the last line's share
goes negative before it is clamped, and amounts on both sides of every scale; two rate
cards drawn from four whose brackets touch, two pincodes; two writers and two readers of
the cache with two changes; two jobs and three versions of a product with one variant at Meta; two agents and two alerts;
two chat messages, two wares, two orders, two actions a turn. `MaxCutOff`, `MaxMailCuts`,
`MaxSweepsCut`, `MaxTurnsCut`, `MaxAway` and `MaxOutages` bound interruptions; a property
that counts them is proved for any bound.

Symmetry (shoppers and order rows; slots and messages; `a` and `b`, which stand for the
interchangeable pair of each component) is used in the runs without liveness properties
only.

**Deadlock** in TLC's sense is not checked in the pipeline, checkout, support and backoffice
runs: once every event is processed, every request over, every bound used up, the system
may well rest. Transactions waiting in a circle are the property `NoCheckoutDeadlock`.

**Fairness.** `Fulfilment`: the cleanup job fires every five minutes (`workers/settings.py`),
and links and holds run out because time passes; nobody is obliged to pay, retry,
cancel or settle. `NoStrandedStock` excludes a shopper who renews the hold for ever.
`PaymentPipeline`: each worker slot carries its job on, a stuck job is cancelled by
`job_timeout`, and the sweep fires every ten minutes. Requests may die, shoppers may do
nothing, the expiry cron is not assumed to run. Under these, a recorded event does not
stay pending provided its handler does not fail for ever; an event whose handler always
fails would be re-driven for ever, since neither its mark nor its attempt count is
committed. The other modules claim safety only: what they promise in the end depends on
people, or on the same sweep.

## 5. The proofs

The seven `…_proofs` modules and `Induction` are checked by TLAPS for every value of the
constants satisfying the modules' named assumptions (finite sets where sums or
cardinalities are taken, natural bounds, well-formed rows, `OneSuccess`).

*Induction.* The library's induction theorems take an operator as a parameter, which none
of the installed provers can instantiate. This module says the same of a *set* of numbers
(`ByInduction`, from the least element of a set of naturals) and of a *function* of steps
(`Recursion`, `Folding`), and derives from it what `SumFunction`, `SumFunctionOnSet` and
the folds of the community modules return: a sum takes one summand at a time, is monotone
and linear, and a sum by groups is the sum (`Grouped`). With it the arithmetic of bills,
the reader of amounts and the contents of a sequence are provable.

*Fulfilment.*
- `TypeCorrect`: `TypeOK` is inductive; the interesting part is that the clamp keeps
  `stock` natural whatever settles when.
- `HoldsCorrect`: `HoldsFollowOrders /\ PayableOrdersHeld` (together with types: `HoldInv`).
  Needs both: that a payable order is fully held follows from a hold not lapsing while a
  link is open, and what a settlement commits from the rows being exactly the order's
  lines. No assumption on settlement.
- `NeverOversold`: for `StockEdits = {}` and `TimelySettlement`. A hold of an order that
  lapsed can still be committed, so `NoOversell` alone is not inductive: `StockInv` adds
  that captured orders have all their rows and none lapsed, hence a commit takes from the
  stock exactly what it frees from the holds. The sums are cardinalities of sets of units
  (`Total`), which keeps the argument within finite-set facts: no induction is needed.
- `StockAccountsForSales` (`StockConserved`) and `PaidOrdersAreStocked`
  (`PaidOrdersHaveTheirStock`), under the same assumptions; by `NeverOversold` the clamp
  never bites.
- `CapturedHeld` (`CapturedOrdersHeld`): under the same assumptions, from `StockInv`.
- `ChainFollowed` (`StatusFollowsChain`): for cancellation, which does not consult the
  table, it rests on the two tables of `enums.py` agreeing.
- `CouponsWithinLimits` (`CouponLimits`): inductive with the types. Usage rows belong to orders
  that are not cancelled, so a redemption adds one row to a set it has just counted.
- `ImplementsShelf`: under the assumptions of `NeverOversold` the shop refines `Inventory`:
  `MarkPaid` is a sale, the cancellation of a sold order its undoing, everything else stutters.

*CheckoutTxn.*
- `TypeCorrect`, and the lock invariant `LockInv`: what a request holds is determined by how
  far it is (`Stages`), a variant's lock has one holder, a checkout has locked a lower part
  of its cart (`Ascending`), the coupon's lock has one holder whose count is still right.
- `NoDeadlock` (`NoCheckoutDeadlock`): along the waits the wanted variant grows; the sets of
  greater variants are finite and strict inclusion is well founded on them, so in a circle
  one checkout would wait for nobody. The holder of the coupon waits for no one.
- `CouponLimited` (`CouponLimitHolds`).
- `StockRespected` (`HoldsFitStock`) and `HoldKept` (`PendingOrdersKeepHold`), both if no cart
  is checked out by two requests, the assumption run `twice` shows to be necessary. What a
  request counted when it locked a variant stays true until it commits (`Rooms`): others
  can only release rows of that variant. It needs that a checkout's cart has no rows while
  it runs, and that requests release rows of their own order only.

*PaymentPipeline.*
- `TypeCorrect`: a slot has a job exactly when it is busy and a payment's lock only at the
  end of it.
- `LedgerIsTrue` (`AnnouncedByLedger`, with the exception of `early`) and `SettledOnce` (`SettlesOnlyUnsettled`). The
  inductive invariant `IInv` adds: an event's row lock has one holder (`OneHolder`); what a
  job has flushed is what `settle_payment` computes from what it read
  (`WritesSettlement`); if a payment says success while the job of its success event is
  past its read, the job has read that (`SuccessIsSeen`); and a payment that says success,
  or was read so, has been announced (`SettledIsAnnounced`). The heart of it: only the
  success event of a payment settles it, so a competitor would have to hold the same
  event's row lock. Neither the ledger's status check nor the payment's row lock is enough,
  and neither is used.

*Support.*
- `TypeCorrect`, `MessagesDealtWith` (`LedgerMatchesLog`) and `RepliedOnce` (`AnsweredOnce`),
  from `SupportInv`: the event's row lock has one holder, and every reply that is not about
  to be committed has cost a fault or an unheard send (`RepliesPaidFor`).
- `ColumnsFit` (`ColumnsAgree`), from `ColumnInv`: whoever works alone on a thread has seen
  it as it still is (`Fresh`), so the column-wise update writes what was decided.

*Backoffice* (`Sessions`, `Accounts`, `AddressBook`, and the composition).
- `RevocationIsFinal` (`RevocationsHold`), from `FinalInv`: a token under rotation when its
  owner closed is revoked, a token of a closed account was issued by a rotation or a login
  under way at the merge, and a family that was at rest when it was ended stays ended.
- `OneTokenEach` (`OneTokenPerLogin`), from `LoginInv`: in a lineage that is not contested
  at most one request rotates, and no token works but the one it rotates.
- `DefaultIsOne` (`OneDefaultAddress`), from `AddressInv`: in an account whose requests come
  one at a time, the request under way, applied to the rows as they are now, leaves one
  default (`SoundEdit`).
- `NothingLost` (`MergeLosesNothing`), from `AccountInv`: whatever a request or a merge under
  way refers to is alive or entangled (`AccountsStand`), so a merge absorbs a live account
  into a live one; and whoever was absorbed leads to a live account in at most as many
  steps as accounts have been absorbed (`WaysEnd`), which is what makes `Heir`, a recursive
  function, the account it should be. A merge moves every heir it has to move and no other.
  `CartsKnown` counts the active carts and the requests about to open one together: more than
  one means a race that `rushed` or `entangled` has recorded.
- `EachComponent`: every behaviour of `Backoffice` is a behaviour of each of the fourteen
  components, since a step of one leaves the variables of the others alone (`OneAtATime`).
  So each component's theorems are about what run `backoffice` checks.
- `TypesHold` (`TypesOK`), from `EachComponent` and one `…Typed` theorem per component, each a
  consequence of the component's inductive invariant: types alone are not inductive in
  `Storefront` (a change on its way counts against the bound of changes) or in `Assistant`
  (what a reply says is bounded by the actions proposed and the orders drawn in the turn).

*Shop.*
- `StaysClosed` (`StaysRestricted`): an upload names at least one pincode.
- `CopiesFollow` (`CopiesAreCurrent`), from `CacheInv`: a fill that was not outdated has seen
  what the database holds, and while a change is on its way every copy of its keys is
  absent or suspect.
- `StatusFollows` (`SyncStatusIsTrue`), from `SyncInv`: a job that has a product to itself,
  and any job at a product that was not outrun, has loaded its present version; and every item
  that is listed, or in a batch under way, is offered or its product is in `withdrawn` (`Faithful`).
- `OpensInTime` (`BreakerOpensInTime`), from `BreakerInv`: failures are counted one at a time,
  and each failure beyond the threshold has a job on its way to opening the circuit (`Alarmed`).
- `NothingForgotten` (`TurnsRemembered`), from `MemoryInv`: what `Trimmed` returns is the
  longest tail that fits, and all of it if it fits (`TrimmedFits`); every memory, also one
  read and not yet written, is `Sound`: unless text was wide or two summaries in a row have
  failed, it has room for the turns since its last summary, so nothing is cut off that the
  summary does not cover.
- `LinksHaveRows` (`OpenLinksHaveRows`) and `RepliesTold` (`RepliesFollowOutcomes`), from `TurnInv`:
  an action that went well still shows in the session unless a later one undid it
  (`ActionsShow`), a turn's links are of orders it made itself (`OldAndNewOrders`), and what
  was said is true of the session, which the commit makes the database (`SaidIsTrue`); the
  amounts are what `SaysWhat` says the code states.

*Office* (`Refunds`, `Nudges`, `OrderMail`, `Notices`, `Pricing`).
- `BooksAgree` (`MoneyOutIsRecorded`), from `RecordInv`, which relates each key's request,
  row and gateway state.
- `NeverOverRefunded` (`RefundsWithinPayment`): the strengthening `ClaimsFit` counts the
  refunds that stand *and* the one in flight; each is a set of units, as in `Total`.
- `NudgedOnce`: beyond the sends nobody heard of, a cart without a reminder, not among those the sweep has written about, is
  owed one (`NudgeInv`). `MailedOnce`: per kind at most one sender is at work, and none is
  before its delivery when one has succeeded (`Orderly`). `AlertsArrive`: the rows of an
  alert are one for each agent or one for all (`NoticeInv`).
- `BillsAddUp` (`ChargesAddUp`): for any prices, rates and offers. Rounding to the nearest
  is monotone and additive up to half a paisa a line, so the shares of all lines but the last
  exceed the discount by less than half of their number; hence the last share may be
  negative or above its line only within the bound the property states. Tax and taxable are
  what they are of each line, and grouping by rate keeps sums (`Grouped`).
- `TotalsReadBack` (`WordsSayTheAmount`): for every total of ten digits. The reader is followed
  through the words as they are appended: below a thousand (`ReadsUnderThousand`), a
  counted scale (`ReadsCounted`), crore to thousand (`IndianScales`), all of it
  (`ReadsIndian`); the "and" that separates the paise is the last one (`CutAtLastAnd`).

**Only model-checked.** Liveness under fairness (`NoStrandedStock`, `RecordedIsHandled`),
which is out of TLAPS' reach. Every other property of the passing runs is a theorem.

## 6. Not modelled, and why

- **HTTP layer.** Routers parse, authorise and call the services. Rate limits, cursors and
  health checks keep no state that another part relies on.
- **Cryptography and libraries.** Signatures, JWT and Google's verification; a request that
  gets past them is where the modules begin.
- **Rendering.** PDF invoices, e-mail templates, WhatsApp message formats, what the model
  writes. `Assistant` has the actions a reply proposes and what it says of their outcome.
- **Delivery receipts** (`process_message_status`): a copy of a status Meta sends.
- **Catalogue filters, search and pagination; names, preferences and opt-ins; a coupon's dates
  and plain edits:** single-row updates and queries without a protocol.
- **The stock while checkouts are interleaved.** `CheckoutTxn` keeps it constant: in the
  application nothing settles an order (run `unpaid`), and an admin's edit is the only
  writer left. The same goes for two cancellations of a paid order.
- **The shopper's own web requests during a chat turn** in `Assistant`: between turns only.
- In `PaymentPipeline` the statements of `create_payment_link`, the e-mails enqueued before
  the commit (their effect on the mails is in `OrderMail`) and the address the gateway is
  told to call back (`/api/payments/cashfree-webhook`, which no router serves) are left
  out; events are assumed to arrive at the served route.

Facts about the code met while modelling that no property is about: a sync enqueued before
a product's deletion and run after its delete job lists the product again
(`services/catalog_sync.py:193`; `SyncStatusIsTrue` excludes it through `outrun`); in a bulk
import the first row whose flush fails takes every later row with it
(`services/product.py:515`); coupon redemptions are not among what a merge moves
(`services/account_merge.py`), so per-shopper limits start anew for the survivor; the text of
a cart reminder reads the same missing key as the replies and says Rs.None
(`workers/cart_tasks.py:106`); the
product page's cached copy holds a datetime the cache cannot encode and is never stored
(`app/cache.py`).
