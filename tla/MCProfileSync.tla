--------------------------- MODULE MCProfileSync ----------------------------
(* One user with a character that can be fetched and one that cannot. *)
EXTENDS ProfileSync

CONSTANTS u1, c1, c2

Levels == <<1, 2>>
=============================================================================
