----------------------------- MODULE Inventory ------------------------------
(***************************************************************************)
(* What the shop promises about stock, without carts, holds, payments or   *)
(* time: a sale takes all of an order's units off the shelf at once, only  *)
(* if they are there, and undoing the sale puts exactly those units back.  *)
(* Module Fulfilment implements it.                                        *)
(***************************************************************************)
EXTENDS Integers

CONSTANTS Orders, Variants, MaxQty, InitialStock

VARIABLES
    onHand,     \* units on the shelf, per variant
    sold        \* what each order has taken from it

Nothing == [v \in Variants |-> 0]

Init ==
    /\ onHand = InitialStock
    /\ sold = [o \in Orders |-> Nothing]

Sell(o, order) ==
    /\ sold[o] = Nothing
    /\ \A v \in Variants : order[v] <= onHand[v]
    /\ sold' = [sold EXCEPT ![o] = order]
    /\ onHand' = [v \in Variants |-> onHand[v] - order[v]]

Undo(o) ==
    /\ sold' = [sold EXCEPT ![o] = Nothing]
    /\ onHand' = [v \in Variants |-> onHand[v] + sold[o][v]]

Next ==
    \E o \in Orders :
        \/ \E order \in [Variants -> 0..MaxQty] : Sell(o, order)
        \/ Undo(o)

Spec == Init /\ [][Next]_<< onHand, sold >>
=============================================================================
