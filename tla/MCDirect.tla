----------------------------- MODULE MCDirect -------------------------------
(* Small instances of the direct lifecycle.                                 *)
EXTENDS DirectLifecycle, TLC

KeySymmetry == Permutations(Keys)
=============================================================================
