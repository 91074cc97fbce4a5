----------------------------- MODULE MCDelivery -----------------------------
(***************************************************************************)
(* A delivery for TLC.                                                     *)
(***************************************************************************)
EXTENDS Delivery
=============================================================================
