-------------------------- MODULE MCCompileService --------------------------
(* An instance of CompileService for TLC.                                  *)
EXTENDS CompileService, TLC

CONSTANTS r1, r2, r3

RequestSymmetry == Permutations(Requests)
=============================================================================
