----------------------------- MODULE MCDelivery -----------------------------
(* Small instances of Delivery.                                            *)
EXTENDS Delivery, TLC

CONSTANTS h1, h2, s1, r1, r2
=============================================================================
