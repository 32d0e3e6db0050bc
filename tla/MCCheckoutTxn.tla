--------------------------- MODULE MCCheckoutTxn ----------------------------
(* CheckoutTxn on carts that share their lines, and one that does not. *)
EXTENDS CheckoutTxn

CONSTANTS a, b, c,                  \* carts
          ca, cb, cc, ra, rb, xa    \* requests

\* The last unit of variant 1, more of the others.
LastUnit == [v \in Variants |-> v]
SharedAndOwn == [x \in Carts |-> IF x = c THEN {3} ELSE {1, 2}]
\* Three carts, two retries of cart a's order and its cancellation.
Busy == [t \in Requests |-> CASE t = ca -> a [] t = cb -> b [] t = cc -> c [] OTHER -> ca]
\* Two checkouts of cart a.
Twice == [t \in Requests |-> a]
=============================================================================
