-------------------------- MODULE MCCatalogImport --------------------------
(* Two item pages, and a content type before them that has no page. *)
EXTENDS CatalogImport

CONSTANTS armor, amulet, timer, shell

MCTypeOf == [t \in Titles |-> "item"]
MCSlugOf == [t \in Titles |-> <<"item", t>>]
MCOrder == <<"spell", "item">>
=============================================================================
