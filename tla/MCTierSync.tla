----------------------------- MODULE MCTierSync -----------------------------
(***************************************************************************)
(* Instances of TierSync for TLC.                                          *)
(***************************************************************************)
EXTENDS TierSync, TLC

CONSTANTS u1, s1, s2, s3

(* A user with a single subscription. *)
Single == s1 :> u1

(* A user with two: the end of one must not outlive the other. *)
TwoOfOne == (s1 :> u1) @@ (s2 :> u1)

(* The same, and one that cannot be credited to anybody. *)
TwoAndNobodys == TwoOfOne @@ (s3 :> NoUser)
=============================================================================
