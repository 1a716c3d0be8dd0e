---------------------------- MODULE MCSuccessors ----------------------------
(* A small instance of the chain of successors.                             *)
EXTENDS Successors
=============================================================================
