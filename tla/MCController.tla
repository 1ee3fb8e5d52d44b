--------------------------- MODULE MCController ---------------------------
(* Instance of Controller for TLC: request threads and topologies are      *)
(* interchangeable.                                                        *)
EXTENDS Controller, TLC

ControllerSymmetry == Permutations(Mutators) \cup Permutations(Topologies)
=============================================================================
