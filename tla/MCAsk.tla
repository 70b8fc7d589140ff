-------------------------------- MODULE MCAsk --------------------------------
(***************************************************************************)
(* Instances of Ask for TLC.                                               *)
(***************************************************************************)
EXTENDS Ask, TLC

CONSTANTS u1, c1, c2, c3

OneAndTwo == "free" :> 1 @@ "pro" :> 2
AnyCall == Permutations(Calls)
=============================================================================
