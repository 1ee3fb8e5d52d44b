----------------------------- MODULE MCOperator -----------------------------
(* Instances of Operator for TLC.                                          *)
EXTENDS Operator, TLC

SessionSymmetry == Permutations(Mutators) \cup Permutations(Topologies)
=============================================================================
