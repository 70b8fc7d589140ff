------------------------------- MODULE MCLinks -------------------------------
(* Two users, one of whom may link one character and the other both; one character that may be  *)
(* renamed and one that is not; two commands at a time.                                         *)
EXTENDS Links, TLC

CONSTANTS u1, u2, c1, former, c2, a1, a2, w1, w2
FreeAndPro == (u1 :> 1) @@ (u2 :> 2)
TwoNamesOfOne == (c1 :> a1) @@ (former :> a1) @@ (c2 :> a2)
Alike == Permutations(Commands) \cup Permutations({c1, former})

(* What the cap is about, what the comments are about and what the names are about are        *)
(* explored side by side, not multiplied: three codes of one user, as long as nobody verifies;  *)
(* an avatar renamed, and two codes of one user for it; a name nobody knows, before any code.   *)
(* The first code is for the avatar that may be renamed: but for that the two are alike.        *)
OfOneUser ==
    /\ \A k \in 1..lastCode : issued[k][1] = issued[1][1]
    /\ \A w \in Commands : lastCode > 0 /\ command[w] # NoCommand => User(w) = issued[1][1]

SideBySide ==
    /\ lastCode > 2 => /\ OfOneUser
                       /\ \A a \in Avatars : comment[a] = 0 /\ owned[a] = {owner[a]}
                       /\ \A w \in Commands : command[w].pc \notin {"comment", "mark", "verified"}
    /\ Cardinality(known) > Cardinality(Avatars) =>
                       OfOneUser /\ lastCode < 3 /\ \A k \in 1..lastCode : issued[k][2] = a1
    /\ lastCode > 0 => /\ issued[1][2] = a1
                       /\ \A w \in Commands : command[w] # NoCommand => Character(w) \in known
=============================================================================
