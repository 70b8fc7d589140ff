------------------------------ MODULE MCMemory ------------------------------
(***************************************************************************)
(* Instances of Memory for TLC.                                            *)
(***************************************************************************)
EXTENDS Memory, TLC

CONSTANTS u1, u2, t1, t2, w1

AnyTick == Permutations(Ticks)
=============================================================================
