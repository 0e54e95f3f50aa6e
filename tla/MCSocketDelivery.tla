--------------------------- MODULE MCSocketDelivery ---------------------------
(* Small instances of SocketDelivery for TLC.                                    *)
EXTENDS SocketDelivery, TLC

CONSTANTS i1, i2, a1, a2, c1, c2

NoForgery == {}

(* Below zero, and beyond every id the bounded outbox hands out.                 *)
AnyCursor == {-1, MaxId + 1}

(* Connections are interchangeable (safety runs only).                           *)
ConnSymmetry == Permutations(Conns)
===============================================================================
