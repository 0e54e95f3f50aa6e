---------------------------- MODULE MCRegistration ----------------------------
(* Small instances of Registration for TLC.                                      *)
EXTENDS Registration, TLC

CONSTANTS i1, a1, a2, s1, s2, k1, k2, k3, t1, t2, h1, h2

(* Handlers are interchangeable (safety runs only).                              *)
HandlerSymmetry == Permutations(Handlers)
===============================================================================
