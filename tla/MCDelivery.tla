----------------------------- MODULE MCDelivery -----------------------------
(* Instances of Delivery for TLC. *)
EXTENDS Delivery, TLC

Symmetry == Permutations(Workers) \cup Permutations(Admins)
=============================================================================
