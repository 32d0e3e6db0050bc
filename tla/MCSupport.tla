------------------------------ MODULE MCSupport ------------------------------
(* Support for TLC: one customer; the job slots are interchangeable.        *)
EXTENDS Support, TLC

CONSTANTS u1

OneSender == [m \in Inbound |-> u1]

Symmetry == Permutations(Slots) \cup Permutations(Inbound)
=============================================================================
