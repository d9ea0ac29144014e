------------------------------ MODULE MCDelivery ------------------------------
(* Delivery on a small instance. *)
EXTENDS Delivery
=============================================================================
