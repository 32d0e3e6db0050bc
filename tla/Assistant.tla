------------------------------ MODULE Assistant ------------------------------
(***************************************************************************)
(* One WhatsApp message answered by the assistant: the actions the model   *)
(* proposes run one by one in the job's transaction, a failed one is       *)
(* swallowed (services/ai_chat.py execute_actions), the reply is sent, and *)
(* only then does the job commit (workers/webhook_processor.py).  The row  *)
(* of the thread keeps the turns of one conversation apart; Support says   *)
(* how messages get here.                                                  *)
(***************************************************************************)
EXTENDS Integers, Sequences, FiniteSets

CONSTANTS
    Chats,          \* messages of one shopper
    NoChat,
    Wares,          \* variants on sale
    MaxOrders,      \* bound: orders drawn
    MaxActions,     \* bound: actions proposed in one reply, lines of a catalogue order
    MaxTurnsCut     \* bound: turns that end without commit

ASSUME AssistantAssumption ==
    NoChat \notin Chats /\ {MaxOrders, MaxActions, MaxTurnsCut} \subseteq Nat

VARIABLES
    chat,           \* the message's event: pending or processed
    trolley,        \* committed: what the shopper's active cart holds
    bought,         \* committed: status of each order, with its Payment row
    link,           \* payment links open at the gateway, by order
    drawn,          \* orders numbered so far; a rolled-back number is not drawn again
    talk,           \* the job past record_inbound, if there is one
    turnsCut,       \* history: turns that ended without commit
    orphaned        \* history: orders whose turn did

assistantVars == << chat, trolley, bought, link, drawn, talk, turnsCut, orphaned >>

Numbers == 1 .. MaxOrders
PurchaseStatus == {"none", "awaiting", "delivered", "cancelled", "return_requested"}

\* What an action may change: AIAction, and a line of a catalogue order.
Proposal ==
    [type : {"add", "remove"}, item : Wares] \cup [type : {"checkout", "other"}]
        \cup [type : {"cancel", "return"}, order : Numbers]
Proposals(S) == UNION {[1 .. n -> S] : n \in 1 .. MaxActions}

\* Why an action failed: no stock, or an order, a product or a database that would not.
Reasons == {"stock", "other"}
Outcome == [ok : BOOLEAN, link : 0 .. MaxOrders, why : Reasons \cup {"none"}]
Fine == [ok |-> TRUE, link |-> 0, why |-> "none"]
Failure(why) == [ok |-> FALSE, link |-> 0, why |-> why]

\* What a reply says: an order or a count, the reason for a failure, an amount.
Message ==
    [kind : {"unsaid", "text", "failure", "link", "added", "empty", "cart"},
     n : 0 .. MaxOrders + MaxActions, why : Reasons \cup {"none"},
     total : {"unstated", "due", "0.00", "None"}]
Says(kind, n) == [kind |-> kind, n |-> n, why |-> "none", total |-> "unstated"]
Unsaid == Says("unsaid", 0)

\* Who answers: the model or its script, for a cart from the catalogue, for a look at the cart.
Modes == {"actions", "catalogue", "view"}
NoTurnNow ==
    [of |-> NoChat, todo |-> << >>, mode |-> "actions", results |-> << >>, held |-> {},
     bought |-> [n \in Numbers |-> "none"], doomed |-> FALSE, said |-> Unsaid]

-----------------------------------------------------------------------------

\* _handle_message for a text: the model, or the script without one, proposes
\* actions on what the context shows it.
StartTurn(m) ==
    /\ talk.of = NoChat
    /\ chat[m] = "pending"
    /\ \E todo \in Proposals({p \in Proposal : p.type \in {"cancel", "return"}
                                                => bought[p.order] # "none"}) \cup {<< >>} :
        talk' = [NoTurnNow EXCEPT !.of = m, !.todo = todo, !.held = trolley, !.bought = bought]
    /\ UNCHANGED << chat, trolley, bought, link, drawn, turnsCut, orphaned >>

\* _handle_scripted for a cart sent from the Meta catalogue.
StartCatalogueOrder(m) ==
    /\ talk.of = NoChat
    /\ chat[m] = "pending"
    /\ \E todo \in Proposals({p \in Proposal : p.type = "add"}) :
        /\ \A i, j \in DOMAIN todo : todo[i] = todo[j] => i = j
        /\ talk' = [NoTurnNow EXCEPT !.of = m, !.todo = todo, !.mode = "catalogue",
                                    !.held = trolley, !.bought = bought]
    /\ UNCHANGED << chat, trolley, bought, link, drawn, turnsCut, orphaned >>

\* _fallback, when there is no model to ask, for a message with "cart" in it.
StartCartView(m) ==
    /\ talk.of = NoChat
    /\ chat[m] = "pending"
    /\ talk' = [NoTurnNow EXCEPT !.of = m, !.mode = "view", !.held = trolley, !.bought = bought]
    /\ UNCHANGED << chat, trolley, bought, link, drawn, turnsCut, orphaned >>

Acting == talk.of # NoChat /\ talk.said = Unsaid /\ Len(talk.results) < Len(talk.todo)
NowTo == talk.todo[Len(talk.results) + 1]
Usable == Acting /\ ~talk.doomed

\* add_item, remove_item.
ChangeCart ==
    /\ Usable
    /\ NowTo.type \in {"add", "remove"}
    /\ NowTo.type = "remove" => NowTo.item \in talk.held
    /\ talk' = [talk EXCEPT !.results = Append(@, Fine),
                            !.held = IF NowTo.type = "add"
                                       THEN @ \cup {NowTo.item} ELSE @ \ {NowTo.item}]
    /\ UNCHANGED << chat, trolley, bought, link, drawn, turnsCut, orphaned >>

\* cancel_order, request_return, for an order _resolve_order finds.
ChangeOrder ==
    /\ Usable
    /\ \/ /\ NowTo.type = "cancel"
          /\ talk.bought[NowTo.order] = "awaiting"
          /\ talk' = [talk EXCEPT !.results = Append(@, Fine),
                                  !.bought[NowTo.order] = "cancelled"]
       \/ /\ NowTo.type = "return"
          /\ talk.bought[NowTo.order] = "delivered"
          /\ talk' = [talk EXCEPT !.results = Append(@, Fine),
                                  !.bought[NowTo.order] = "return_requested"]
    /\ UNCHANGED << chat, trolley, bought, link, drawn, turnsCut, orphaned >>

\* view_cart, track_order and what _execute_one does not know.
OnlyLook ==
    /\ Usable
    /\ NowTo.type = "other"
    /\ talk' = [talk EXCEPT !.results = Append(@, Fine)]
    /\ UNCHANGED << chat, trolley, bought, link, drawn, turnsCut, orphaned >>

\* checkout: the order and its Payment row are flushed, then the gateway is asked
\* for a link.  If it refuses, or its answer is lost, the PaymentError is one of the
\* failures execute_actions swallows: the order stays.
CheckOut ==
    /\ Usable
    /\ NowTo.type = "checkout"
    /\ talk.held # {}
    /\ drawn < MaxOrders
    /\ LET n == drawn + 1 IN
        \E answered, opened \in BOOLEAN :
            /\ answered => opened
            /\ link' = IF opened THEN link \cup {n} ELSE link
            /\ talk' = [talk EXCEPT !.held = {}, !.bought[n] = "awaiting",
                                    !.results = Append(@, IF answered THEN [Fine EXCEPT !.link = n]
                                                        ELSE Failure("other"))]
            /\ drawn' = n
    /\ UNCHANGED << chat, trolley, bought, turnsCut, orphaned >>

\* Mutant of ActionFails: the failure rolls the session back.
ActionRolledBack ==
    /\ Acting
    /\ \E doomed \in {talk.doomed, TRUE}, why \in Reasons :
        talk' = [talk EXCEPT !.results = Append(@, Failure(why)), !.doomed = doomed,
                             !.held = trolley, !.bought = bought]
    /\ UNCHANGED << chat, trolley, bought, link, drawn, turnsCut, orphaned >>

\* Out of stock, not found, not allowed: a message to the shopper; a line of a catalogue
\* order whose retailer id decodes to nothing.  An error of the database is swallowed
\* too, and leaves a session that can do nothing more.
ActionFails ==
    /\ Acting
    /\ \E doomed \in {talk.doomed, TRUE}, why \in Reasons :
        /\ doomed => why = "other"
        /\ talk' = [talk EXCEPT !.results = Append(@, Failure(why)), !.doomed = doomed]
    /\ UNCHANGED << chat, trolley, bought, link, drawn, turnsCut, orphaned >>

Failures == {i \in DOMAIN talk.results : ~talk.results[i].ok}
LinksGot == {i \in DOMAIN talk.results : talk.results[i].link # 0}
Earliest(S) == CHOOSE i \in S : \A j \in S : i <= j

\* Mutant of ActionReply: the link is looked for before the failures.
LinkOrFailure ==
    IF LinksGot # {} THEN Says("link", talk.results[Earliest(LinksGot)].link)
    ELSE IF Failures # {}
      THEN [Says("failure", 0) EXCEPT !.why = talk.results[Earliest(Failures)].why]
    ELSE Says("text", 0)

\* _apply_action_results: the first failure overrides what the model wrote; the first
\* checkout adds its link to it.
ActionReply ==
    IF Failures # {} THEN [Says("failure", 0) EXCEPT !.why = talk.results[Earliest(Failures)].why]
    ELSE IF LinksGot # {} THEN Says("link", talk.results[Earliest(LinksGot)].link)
    ELSE Says("text", 0)

\* price_cart returns these; what is due is one of its "totals".  A reply that asks for
\* a key it does not return states the default.
PricedKeys == {"lines", "coupon", "shipping_detail", "has_stock_issues", "totals"}
Stated(key, default) == IF key \in PricedKeys THEN "due" ELSE default

\* _handle_catalog_order: how many lines are in the cart now, and a total; or, whatever
\* the reason, "those items are out of stock".
CatalogueReply ==
    LET added == Len(talk.results) - Cardinality(Failures) IN
    IF added = 0 THEN [Says("failure", 0) EXCEPT !.why = "stock"]
    ELSE [Says("added", added) EXCEPT !.total = Stated("total", "0.00")]

\* _fallback: the "items" of the cart and a total.
CartReply ==
    IF talk.held = {} THEN Says("empty", 0)
    ELSE [Says("cart", IF "items" \in PricedKeys THEN Cardinality(talk.held) ELSE 0)
            EXCEPT !.total = Stated("total", "None")]

Reply ==
    CASE talk.mode = "catalogue" -> CatalogueReply
      [] talk.mode = "view" -> CartReply
      [] OTHER -> ActionReply

\* _deliver, or _send_text and _send_buttons of the scripted paths.  A doomed
\* session gets here only for a catalogue order of which nothing was added; every
\* other turn needs the database before, and is cut off.
SendReply ==
    /\ talk.of # NoChat
    /\ talk.said = Unsaid
    /\ Len(talk.results) = Len(talk.todo)
    /\ talk.doomed => talk.mode = "catalogue" /\ Reply.kind = "failure"
    /\ talk' = [talk EXCEPT !.said = Reply]
    /\ UNCHANGED << chat, trolley, bought, link, drawn, turnsCut, orphaned >>

\* record_outbound, _mark_processed, and the commit.
EndTurn ==
    /\ talk.said # Unsaid
    /\ ~talk.doomed
    /\ trolley' = talk.held
    /\ bought' = talk.bought
    /\ chat' = [chat EXCEPT ![talk.of] = "processed"]
    /\ talk' = NoTurnNow
    /\ UNCHANGED << link, drawn, turnsCut, orphaned >>

\* A doomed session, a reply that cannot be sent either way, a crash: nothing is
\* committed, and the message is taken up again.
CutTurn ==
    /\ talk.of # NoChat
    /\ turnsCut < MaxTurnsCut
    /\ turnsCut' = turnsCut + 1
    /\ orphaned' = orphaned \cup
                    {n \in Numbers : talk.bought[n] # "none" /\ bought[n] = "none"}
    /\ talk' = NoTurnNow
    /\ UNCHANGED << chat, trolley, bought, link, drawn >>

\* The shop on the web, between turns; an agent who delivers an order.
ShopOnline ==
    /\ talk.of = NoChat
    /\ trolley' \in SUBSET Wares
    /\ UNCHANGED << chat, bought, link, drawn, talk, turnsCut, orphaned >>
OrderArrives(n) ==
    /\ talk.of = NoChat
    /\ bought[n] = "awaiting"
    /\ bought' = [bought EXCEPT ![n] = "delivered"]
    /\ UNCHANGED << chat, trolley, link, drawn, talk, turnsCut, orphaned >>

AssistantInit ==
    /\ chat = [m \in Chats |-> "pending"]
    /\ trolley = {}
    /\ bought = [n \in Numbers |-> "none"]
    /\ link = {}
    /\ drawn = 0
    /\ talk = NoTurnNow
    /\ turnsCut = 0
    /\ orphaned = {}

AssistantNext ==
    \/ \E m \in Chats : StartTurn(m) \/ StartCatalogueOrder(m) \/ StartCartView(m)
    \/ ChangeCart
    \/ ChangeOrder
    \/ OnlyLook
    \/ CheckOut
    \/ ActionFails
    \/ SendReply
    \/ EndTurn
    \/ CutTurn
    \/ ShopOnline
    \/ \E n \in Numbers : OrderArrives(n)

AssistantSpec == AssistantInit /\ [][AssistantNext]_assistantVars

-----------------------------------------------------------------------------
(* Properties.                                                             *)

AssistantTypeOK ==
    /\ chat \in [Chats -> {"pending", "processed"}]
    /\ trolley \subseteq Wares
    /\ bought \in [Numbers -> PurchaseStatus]
    /\ link \subseteq Numbers
    /\ drawn \in 0 .. MaxOrders
    /\ talk.of \in Chats \cup {NoChat}
    /\ talk.todo \in Seq(Proposal)
    /\ talk.results \in Seq(Outcome)
    /\ talk.held \subseteq Wares
    /\ talk.bought \in [Numbers -> PurchaseStatus]
    /\ talk.mode \in Modes
    /\ talk.doomed \in BOOLEAN
    /\ talk.said \in Message
    /\ turnsCut \in 0 .. MaxTurnsCut
    /\ orphaned \subseteq Numbers

\* What action i set out to do is so in a cart and orders, unless a later one undid it.
Undone(i) ==
    \E j \in i + 1 .. Len(talk.todo) :
        \/ talk.todo[j].type = "checkout"
        \/ talk.todo[j].type = "remove" /\ talk.todo[j].item = talk.todo[i].item
        \/ talk.todo[j].type = "add" /\ talk.todo[j].item = talk.todo[i].item
TookEffect(i, cart, orders) ==
    LET p == talk.todo[i] IN
    CASE p.type = "add" -> p.item \in cart \/ Undone(i)
      [] p.type = "remove" -> p.item \notin cart \/ Undone(i)
      [] p.type = "cancel" -> orders[p.order] = "cancelled"
      [] p.type = "return" -> orders[p.order] = "return_requested"
      [] OTHER -> TRUE
AllHold(cart, orders) == \A i \in DOMAIN talk.todo : TookEffect(i, cart, orders)

\* The message is true of a cart and orders, as far as messages are.
TrueOf(said, cart, orders) ==
    CASE said.kind = "text" -> AllHold(cart, orders)
      [] said.kind = "link" -> /\ AllHold(cart, orders)
                               /\ orders[said.n] = "awaiting"
                               /\ said.n \in link
      [] said.kind = "failure" -> \/ \E i \in Failures : talk.results[i].why = said.why
                                  \/ talk.mode = "catalogue" /\ said.why = "stock"
      [] said.kind = "added" -> /\ Cardinality({i \in DOMAIN talk.todo :
                                        talk.todo[i].item \in cart}) >= said.n
                                /\ cart # {} /\ said.total = "0.00"
      [] said.kind = "empty" -> cart = {}
      [] said.kind = "cart" -> cart # {} /\ said.n = 0 /\ said.total = "None"
      [] OTHER -> TRUE

\* "Let real outcomes override the model's optimism" (webhook_processor.py): what a shopper
\* was told of lines, orders, links and failed actions is so when the turn commits,
\* although the text was written before the actions ran.  Three things it is told are
\* not so: a cart from the catalogue has a total of 0.00, the script shows any cart that
\* holds something as having no lines and a total of None, and a catalogue order none
\* of whose lines could be added is out of stock whatever the reason.
RepliesFollowOutcomes ==
    [][talk.said # Unsaid /\ chat' # chat
        => TrueOf(talk.said, trolley', bought')]_assistantVars

\* A link the gateway opened belongs to a committed order and its Payment row, or to
\* one of the turn that is running, whatever else failed in the turn; only a turn that
\* was cut off leaves a link its events match nothing for.
OpenLinksHaveRows ==
    \A n \in link : bought[n] # "none" \/ talk.bought[n] # "none" \/ n \in orphaned
=============================================================================
