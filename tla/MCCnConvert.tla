------------------------------ MODULE MCCnConvert ------------------------------
(* CnConvert on a small instance.  The identities of memories are interchangeable. *)
EXTENDS CnConvert, TLC

Symmetry == Permutations(Mems)
=============================================================================
