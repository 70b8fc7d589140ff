------------------------------ MODULE WikiCopy ------------------------------
(***************************************************************************)
(* What the importers promise of a table filled from wiki pages.  A row    *)
(* remembers the revision its page was listed at, which decides whether    *)
(* the page is read again, and holds a text of that page.  The text may be *)
(* newer than the revision, never older: then a page whose revision is the *)
(* remembered one is a page whose text the row already has.                *)
(***************************************************************************)
EXTENDS Naturals

CONSTANTS Titles, Slugs, NoTitle

VARIABLES revision,   \* revision[t]: the revisions page t has had so far
          copy        \* copy[s]: the row of slug s

copyVars == <<revision, copy>>

(* Revision 0 stands for none: the page will be read again. *)
Copy == [title : Titles \cup {NoTitle}, revision : Nat, text : Nat]

EmptyRow == [title |-> NoTitle, revision |-> 0, text |-> 0]

CopyInit ==
    /\ revision \in [Titles -> Nat]
    /\ copy = [s \in Slugs |-> EmptyRow]

Edit(t) ==
    /\ revision' = [revision EXCEPT ![t] = revision[t] + 1]
    /\ UNCHANGED copy

(* A text that exists by now, under a revision that is not newer. *)
Store(s, t, r, v) ==
    /\ copy' = [copy EXCEPT ![s] = [title |-> t, revision |-> r, text |-> v]]
    /\ UNCHANGED revision

CopyNext ==
    \/ \E t \in Titles : Edit(t)
    \/ \E s \in Slugs, t \in Titles : \E v \in 0..revision[t] : \E r \in 0..v : Store(s, t, r, v)

CopySpec == CopyInit /\ [][CopyNext]_copyVars
=============================================================================
