----------------------------- MODULE MCDelivery -----------------------------
(* Instances of Delivery for TLC; the configurations give all constants.   *)
EXTENDS Delivery
=============================================================================
