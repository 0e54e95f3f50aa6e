----------------------------- MODULE MCUpDelivery -----------------------------
(* Small instances of UpDelivery for TLC.                                        *)
EXTENDS UpDelivery

CONSTANTS a1, a2, e1, e2
===============================================================================
