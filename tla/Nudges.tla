-------------------------------- MODULE Nudges --------------------------------
(***************************************************************************)
(* The reminder for abandoned carts (workers/cart_tasks.py).  Every sweep  *)
(* reads the carts left alone, writes to their owners one by one and marks *)
(* the carts, in one transaction for all of them; shoppers go on shopping  *)
(* meanwhile.                                                              *)
(***************************************************************************)
EXTENDS Integers, FiniteSets

CONSTANTS
    Carts,          \* carts of shoppers with a phone who have opted in
    MaxReturns,     \* bound: times a shopper comes back to a cart
    MaxUnheard,     \* bound: reminders about a cart that Meta delivers and the send fails
    MaxSweepsCut    \* bound: sweeps that end without commit

ASSUME NudgesAssumption == {MaxReturns, MaxUnheard, MaxSweepsCut} \subseteq Nat

VARIABLES
    basket,         \* Cart rows: status, reminder_sent_at, and whether the last change
                    \* is older than abandoned_cart_after_hours
    sweep,          \* the sweep under way: the carts it has read and not come to, and
                    \* those it has written about, which it marks when it commits
    nudged,         \* history: reminders sent about a cart
    returns,        \* history: times its shopper came back
    unheard,        \* history: reminders about it that were delivered and not marked
    sweepsCut

nudgeVars == << basket, sweep, nudged, returns, unheard, sweepsCut >>

CartRow == [status : {"active", "checked_out", "expired"}, reminded : BOOLEAN, idle : BOOLEAN]
SweepOf == [running : BOOLEAN, todo : SUBSET Carts, sent : SUBSET Carts]

Resting == [running |-> FALSE, todo |-> {}, sent |-> {}]

-----------------------------------------------------------------------------

\* touch_cart: the shopper changes the cart, which starts its life anew.
ReturnToCart(c) ==
    /\ basket[c].status = "active"
    /\ returns[c] < MaxReturns
    /\ basket' = [basket EXCEPT ![c].idle = FALSE, ![c].reminded = FALSE]
    /\ returns' = [returns EXCEPT ![c] = @ + 1]
    /\ UNCHANGED << sweep, nudged, unheard, sweepsCut >>

\* The cart is checked out, or expire_cart takes it away.
LeaveCart(c) ==
    /\ basket[c].status = "active"
    /\ \E s \in {"checked_out", "expired"} : basket' = [basket EXCEPT ![c].status = s]
    /\ UNCHANGED << sweep, nudged, returns, unheard, sweepsCut >>

\* The cutoff passes the last change.
GrowIdle(c) ==
    /\ ~ basket[c].idle
    /\ basket' = [basket EXCEPT ![c].idle = TRUE]
    /\ UNCHANGED << sweep, nudged, returns, unheard, sweepsCut >>

\* Mutant of Forgotten: carts that have their reminder are read again.
IdleCarts == {c \in Carts : basket[c].status = "active" /\ basket[c].idle}

\* The sweep's query.
Forgotten ==
    {c \in Carts : basket[c].status = "active" /\ basket[c].idle /\ ~ basket[c].reminded}

StartSweep ==
    /\ ~ sweep.running
    /\ sweep' = [running |-> TRUE, todo |-> Forgotten, sent |-> {}]
    /\ UNCHANGED << basket, nudged, returns, unheard, sweepsCut >>

\* One cart of those read: written about, or left for the next sweep as it could not
\* be priced or Meta has refused the message.
Remind(c) ==
    /\ c \in sweep.todo
    /\ \/ /\ sweep' = [sweep EXCEPT !.todo = @ \ {c}, !.sent = @ \cup {c}]
          /\ nudged' = [nudged EXCEPT ![c] = @ + 1]
       \/ /\ sweep' = [sweep EXCEPT !.todo = @ \ {c}]
          /\ UNCHANGED nudged
    /\ UNCHANGED << basket, returns, unheard, sweepsCut >>

\* The send raises although Meta has delivered the reminder, as when its answer is
\* late: the exception is swallowed and the cart not marked.
RemindUnheard(c) ==
    /\ c \in sweep.todo
    /\ unheard[c] < MaxUnheard
    /\ sweep' = [sweep EXCEPT !.todo = @ \ {c}]
    /\ nudged' = [nudged EXCEPT ![c] = @ + 1]
    /\ unheard' = [unheard EXCEPT ![c] = @ + 1]
    /\ UNCHANGED << basket, returns, sweepsCut >>

\* session_scope flushes and commits: the marks overwrite what a shopper who came
\* back meanwhile has set, and updated_at is new.
EndSweep ==
    /\ sweep.running /\ sweep.todo = {}
    /\ basket' = [c \in Carts |->
                    IF c \in sweep.sent THEN [basket[c] EXCEPT !.reminded = TRUE, !.idle = FALSE]
                    ELSE basket[c]]
    /\ sweep' = Resting
    /\ UNCHANGED << nudged, returns, unheard, sweepsCut >>

\* The worker stops or the job times out: the marks are rolled back.
CutSweep ==
    /\ sweep.running
    /\ sweepsCut < MaxSweepsCut
    /\ sweepsCut' = sweepsCut + 1
    /\ sweep' = Resting
    /\ UNCHANGED << basket, nudged, returns, unheard >>

NudgesInit ==
    /\ basket = [c \in Carts |-> [status |-> "active", reminded |-> FALSE, idle |-> FALSE]]
    /\ sweep = Resting
    /\ nudged = [c \in Carts |-> 0]
    /\ returns = [c \in Carts |-> 0]
    /\ unheard = [c \in Carts |-> 0]
    /\ sweepsCut = 0

NudgesNext ==
    \/ \E c \in Carts : ReturnToCart(c) \/ LeaveCart(c) \/ GrowIdle(c)
    \/ \E c \in Carts : Remind(c) \/ RemindUnheard(c)
    \/ StartSweep
    \/ EndSweep
    \/ CutSweep

NudgesSpec == NudgesInit /\ [][NudgesNext]_nudgeVars

-----------------------------------------------------------------------------
(* Properties.                                                             *)

NudgesTypeOK ==
    /\ basket \in [Carts -> CartRow]
    /\ sweep \in SweepOf
    /\ nudged \in [Carts -> Nat]
    /\ returns \in [Carts -> Nat]
    /\ unheard \in [Carts -> Nat]
    /\ sweepsCut \in Nat

\* "Only one nudge per cart" is true of a cart whose shopper does not come back, while
\* every send is answered and every sweep commits.  Each time he comes back there may
\* be one more, each send that raised after Meta had delivered leaves the cart to be
\* written about again by the next sweep, and so does each sweep that was cut off;
\* nothing else does, whatever the shopper does while the sweep is at work.
OneNudgePerVisit ==
    \A c \in Carts : nudged[c] <= 1 + returns[c] + unheard[c] + sweepsCut
=============================================================================
