--------------------------- MODULE MCCatalogReads ---------------------------
(* Texts of every kind of token; values and calls that nest; items whose names contain each other. *)
EXTENDS CatalogReads

MCTitles == <<<<"big", "armor">>, <<"plate">>>>
MCNpcs == <<<<"Azil">>, <<"Azil", "Baltim">>>>
MCNames == {<<"armor">>, <<"plate">>, <<"Azil">>}

Own(npc, price) == [npc |-> npc, price |-> price]
Page(actual, level, npcprice, npcvalue, buyfrom, sellto) ==
    [actualname |-> actual, level |-> level, npcprice |-> npcprice, npcvalue |-> npcvalue,
     buyfrom |-> buyfrom, sellto |-> sellto]
Azil == MCNpcs[1]
Baltim == MCNpcs[2]
MCPages ==
    {Page(<<>>, <<"?">>, <<"5">>, <<"2">>, <<Own(Azil, <<>>), Own(Baltim, <<"1">>)>>, <<Own(Azil, <<"1", "0">>), Own(Baltim, <<>>)>>),
     Page(<<"armor">>, <<"1">>, <<"0">>, <<>>, <<Own(Baltim, <<>>)>>, <<Own(Azil, <<"1">>), Own(Baltim, <<"5">>)>>),
     Page(<<"plate">>, <<"5">>, <<"1", "0">>, <<"1">>, <<>>, <<Own(Baltim, <<"2">>), Own(Baltim, <<"5">>)>>)}

Atom(txt, plain, call) == [text |-> txt, plain |-> plain, call |-> call]
Plain == Atom(<<"a">>, <<"a">>, FALSE)
Atoms ==
    {Plain,
     Atom(<<"[", "[", "a", "]", "]">>, <<"a">>, FALSE),
     Atom(<<"[", "[", "a", "|", "b", "]", "]">>, <<"b">>, FALSE),
     Atom(<<"[", "[", "File", "|", "b", "]", "]">>, <<>>, FALSE),
     Atom(<<"{", "{", "T", "|", "k", "=", "a", "}", "}">>, <<>>, TRUE),
     Atom(<<"{", "{", "{", "1", "|", "}", "}", "}">>, <<>>, TRUE)}
Both(v, w) == Atom(v.text \o w.text, v.plain \o w.plain, v.call \/ w.call)
MCValues == Atoms \cup {Both(v, w) : v \in Atoms, w \in Atoms} \cup {Atom(<<"?">>, <<"?">>, FALSE)}

MCCalls ==
    [kind : {"Ability", "Melee", "Loot Item"}, subject : Atoms \cup {Both(Plain, v) : v \in Atoms}, range : {<<>>, <<"1", "-", "5">>}, byName : BOOLEAN]
=============================================================================
