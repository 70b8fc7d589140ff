------------------------------ MODULE LinkTable ------------------------------
(***************************************************************************)
(* What the table linked_characters promises to its readers, whatever      *)
(* commands write it: the name of a character has one verified owner, a    *)
(* link once verified stays so until it is removed, and its id is never    *)
(* used again.  Characters are the names they are stored under.  Links     *)
(* implements this; ProfileSync and QuestCompanion build on it.            *)
(***************************************************************************)
EXTENDS Naturals, FiniteSets

CONSTANTS Users, Characters

VARIABLES
    links,      \* linked_characters, by id
    lastLink    \* its BIGSERIAL

table == <<links, lastLink>>

Of(u) == {l \in DOMAIN links : links[l].user = u}
LinkOf(u, c) == {l \in Of(u) : links[l].character = c}
Verified == {l \in DOMAIN links : links[l].verified}
Holders(c) == {l \in Verified : links[l].character = c}
Without(f, S) == [x \in DOMAIN f \ S |-> f[x]]

TableInit == links = <<>> /\ lastLink = 0

Insert(u, c, main) ==
    /\ LinkOf(u, c) = {}
    /\ lastLink' = lastLink + 1
    /\ links' = [l \in DOMAIN links \cup {lastLink'} |->
                    IF l = lastLink' THEN [user |-> u, character |-> c, main |-> main, verified |-> FALSE]
                    ELSE links[l]]

Verify(l) ==
    /\ l \in DOMAIN links \ Verified
    /\ Holders(links[l].character) = {}
    /\ links' = [links EXCEPT ![l].verified = TRUE]
    /\ UNCHANGED lastLink

(* Links of one user: one of them, or all. *)
Delete(S) ==
    /\ S # {}
    /\ \E u \in Users : S \subseteq Of(u)
    /\ links' = Without(links, S)
    /\ UNCHANGED lastLink

TableNext ==
    \/ \E u \in Users, c \in Characters, main \in BOOLEAN : Insert(u, c, main)
    \/ \E l \in DOMAIN links : Verify(l)
    \/ \E S \in SUBSET DOMAIN links : Delete(S)

TableSpec == TableInit /\ [][TableNext]_table
=============================================================================
