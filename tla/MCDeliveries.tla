----------------------------- MODULE MCDeliveries -----------------------------
(* Deliveries with the values of the MCDeliveries*.cfg files.  Notes and     *)
(* sockets are numbers because their order matters, so no set is symmetric.  *)
EXTENDS Deliveries
=============================================================================
