---------------------------- MODULE MCFulfilment ----------------------------
(***************************************************************************)
(* Fulfilment on small instances.                                          *)
(***************************************************************************)
EXTENDS Fulfilment, TLC

\* Two variants, one unit of the first and two of the second.
ScarceStock == [v \in Variants |-> v]

\* One unit of everything: the last unit.
LastUnit == [v \in Variants |-> 1]

\* Shoppers are interchangeable, and so are order rows.
ShopSymmetry == Permutations(Users) \cup Permutations(Orders)
=============================================================================
