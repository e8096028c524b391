--------------------------- MODULE MCChargeOutbox ---------------------------
(* Instances of ChargeOutbox for TLC. *)
EXTENDS ChargeOutbox
=============================================================================
