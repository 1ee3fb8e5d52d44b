---------------------------- MODULE MCDatapath ----------------------------
(* Instance of Datapath for TLC: mbufs are interchangeable.                *)
EXTENDS Datapath, TLC

MbufSymmetry == Permutations(Mbufs)
=============================================================================
