------------------------------ MODULE MCCname -------------------------------
(* Small instances of the CNAME slots.                                      *)
EXTENDS CnameSlots, TLC

KeySymmetry == Permutations(Keys)
=============================================================================
