----------------------------- MODULE MCDelivery -----------------------------
(***************************************************************************)
(* Delivery for TLC.  The stores are model values given in the             *)
(* configurations.                                                         *)
(***************************************************************************)
EXTENDS Delivery

CONSTANTS s1, s2
=============================================================================
