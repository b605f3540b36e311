----------------------------- MODULE MCKeyCache -----------------------------
(* Instances of KeyCache for TLC.                                          *)
EXTENDS KeyCache, TLC

CONSTANTS r1, r2, r3, k1, k2, junk

RequestSymmetry == Permutations(Requests)
=============================================================================
