------------------------- MODULE MCPaymentPipeline --------------------------
(***************************************************************************)
(* PaymentPipeline on small instances.                                     *)
(***************************************************************************)
EXTENDS PaymentPipeline, TLC

CONSTANTS o1, p1, paid, declined

\* One order with one link, which the shopper pays at the second try: a failed
\* and a successful payment, reported by two events.
OneOrder == p1 :> o1
BothAboutIt == [e \in Events |-> p1]
SecondTry == [e \in Events |-> IF e = paid THEN "success" ELSE "failed"]
=============================================================================
