----------------------------- MODULE MCDistributor ----------------------------
(* A small instance of Distributor for TLC.                                       *)
EXTENDS Distributor, TLC

CONSTANTS i1, i2, s1, s2, a1, a2, t1, t2, h1, h2, k1, k2, bad, off

Good == [present |-> TRUE, wellFormed |-> TRUE, k |-> k1, jwt |-> TRUE, signer |-> k1,
         exp |-> 3, aud |-> "origin"]

(* One that is right, one that is missing, one that somebody else signed, and one  *)
(* that expires at the end of time.                                                *)
MCHeaders ==
  {Good, [Good EXCEPT !.present = FALSE], [Good EXCEPT !.signer = k2], [Good EXCEPT !.exp = 7]}

Wanted(a, t, k) == [app |-> a, token |-> t, key |-> k]

MCEntries == {Wanted(a1, t1, k1), Wanted(a2, t1, None), Wanted(a1, t2, off), Wanted(a1, t1, bad)}

Symmetric ==
  Permutations({i1, i2}) \cup Permutations({s1, s2}) \cup Permutations({h1, h2})
===============================================================================
