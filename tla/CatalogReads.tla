---------------------------- MODULE CatalogReads ----------------------------
(***************************************************************************)
(* From the pages of the wiki to the answers of the catalog tools: item    *)
(* pages are imported, again and again, and given aliases; the statements  *)
(* of CatalogRepository and the tools of localTools read the tables.  A    *)
(* name is a sequence of words, its length their number; letter case and   *)
(* the wording of the answers are left out.                                *)
(*                                                                         *)
(* The parsers of WikiText are checked here too: on every short text, and  *)
(* on texts rendered from a document, which they must find again.          *)
(***************************************************************************)
EXTENDS WikiText

CONSTANTS Titles,         \* a sequence: the item pages, in alphabetical order
          Npcs,           \* a sequence: the NPCs, in alphabetical order
          Names,          \* what players may ask for
          Pages,          \* what an item page may say, see ItemPage
          DEFAULT_LIMIT,  \* of the listing statements
          FIND_ITEMS_CAP, \* of find_items
          TRADE_NAME_CAP, \* NPCs or items shown per direction
          Tokens, MaxTokens,        \* the texts tried
          Keys, Values, MaxParams,  \* the infoboxes tried
          Calls, MaxCalls,          \* the lists of calls tried
          MaxLength       \* of a residual attribute

VARIABLES text,     \* an arbitrary text
          box,      \* an infobox: a sequence of keys and values
          list,     \* a list of calls
          wiki,     \* wiki[t]: the page t was imported from, a history variable
          items,    \* catalog_items: the rows by title
          offers    \* catalog_npc_trade_offers

vars == <<text, box, list, wiki, items, offers>>
tables == <<wiki, items, offers>>

Init ==
    /\ text = <<>> /\ box = <<>> /\ list = <<>>
    /\ wiki = <<>> /\ items = <<>> /\ offers = {}

-----------------------------------------------------------------------------
(* Pages: how a document is written in the markup. *)

Call(name, parts) == <<"{", "{", name>> \o FlattenSeq([i \in DOMAIN parts |-> <<"|">> \o parts[i]]) \o <<"}", "}">>
Named(key, value) == <<key, "=">> \o value

(* A list of NPCs, those with a price of their own followed by it. *)
TradeText(own) ==
    FlattenSeq([i \in DOMAIN own |-> (IF i = 1 THEN <<>> ELSE <<",">>) \o own[i].npc
                                     \o (IF own[i].price = <<>> THEN <<>> ELSE <<":">> \o own[i].price)])

ItemPage(p) ==
    Call("Infobox Object",
         <<Named("itemid", <<"1">>), Named("pickupable", <<"yes">>), Named("actualname", p.actualname),
           Named("levelrequired", p.level), Named("npcprice", p.npcprice), Named("npcvalue", p.npcvalue),
           Named("buyfrom", TradeText(p.buyfrom)), Named("sellto", TradeText(p.sellto))>>)

-----------------------------------------------------------------------------
(* What a page says of the trades, and what the columns of its record have to say. *)

Number(digits) == IF digits = <<>> THEN {} ELSE {Value(digits)}

(* An NPC a list names twice trades at the price named first. *)
Firsts(named) == {named[i] : i \in {i \in DOMAIN named : \A j \in 1..(i - 1) : named[j].npc # named[i].npc}}

Trades(p) ==
    {[npc |-> o.npc, direction |-> "npc_sells", price |-> Number(o.price)] : o \in Firsts(p.buyfrom)}
    \cup {[npc |-> o.npc, direction |-> "npc_buys", price |-> Number(o.price)] : o \in Firsts(p.sellto)}

IsReadBy(p, columns) ==
    /\ Trades(p) = ToSet(columns.buyfrom) \cup ToSet(columns.sellto)
    /\ columns.npcprice = Number(p.npcprice) \ {0} /\ columns.npcvalue = Number(p.npcvalue) \ {0}
    /\ columns.levelrequired \subseteq Nat /\ Cardinality(columns.levelrequired) <= 1

ASSUME NamesAssumption ==
    /\ Titles \in Seq(Seq(STRING)) /\ Npcs \in Seq(Seq(STRING))
    /\ {DEFAULT_LIMIT, FIND_ITEMS_CAP, TRADE_NAME_CAP} \subseteq Nat \ {0}

(* What the proofs take from the parsers: they read every page as it is meant. *)
ASSUME PagesAssumption ==
    \A p \in Pages :
      /\ {p.buyfrom, p.sellto} \subseteq Seq([npc : ToSet(Npcs), price : Seq(DOMAIN Digits)])
      /\ \A o \in Trades(p) : o.price \subseteq Int
      /\ \A record \in Mapped(mapItem, ItemPage(p), MaxLength) : IsReadBy(p, record.columns)

-----------------------------------------------------------------------------
(* catalogRepository: the writes. *)

(* INSERT ... ON CONFLICT DO UPDATE: the row of t is written, whether it was there or not. *)
Put(rows, t, row) == [u \in DOMAIN rows \cup {t} |-> IF u = t THEN row ELSE rows[u]]

RowOf(t, columns) ==
    [actual_name |-> columns.actualname, level |-> columns.levelrequired,
     npc_buy |-> columns.npcprice, npc_sell |-> columns.npcvalue,
     aliases |-> IF t \in DOMAIN items THEN items[t].aliases ELSE {}]

(* MUTANT: nothing is pruned. *)
upsertItemWithTradeOffers_Unpruned(t, columns) ==
    /\ items' = Put(items, t, RowOf(t, columns))
    /\ LET new == {[item |-> t, npc |-> o.npc, direction |-> o.direction, price |-> o.price] :
                      o \in ToSet(columns.buyfrom) \cup ToSet(columns.sellto)}
       IN  offers' = new \cup {o \in offers : ~\E n \in new : n.item = o.item /\ n.npc = o.npc /\ n.direction = o.direction}

(* The row, and its offers: those of the page and no others. *)
upsertItemWithTradeOffers(t, columns) ==
    /\ items' = Put(items, t, RowOf(t, columns))
    /\ offers' = {o \in offers : o.item # t}
                 \cup {[item |-> t, npc |-> o.npc, direction |-> o.direction, price |-> o.price] :
                          o \in ToSet(columns.buyfrom) \cup ToSet(columns.sellto)}

mergeItemAliases(t, aliases) ==
    /\ t \in DOMAIN items
    /\ items' = [items EXCEPT ![t].aliases = items[t].aliases \cup aliases]
    /\ UNCHANGED offers

-----------------------------------------------------------------------------
(* catalogRepository: the statements the tools read with. *)

Place(seq, x) == CHOOSE i \in DOMAIN seq : seq[i] = x
Before(a, b) == \E i \in DOMAIN a : a[i] < b[i] /\ \A j \in 1..(i - 1) : a[j] = b[j]
Sorted(set, Rank(_)) == Ordered(set, LAMBDA a, b : Before(Rank(a), Rank(b)))
FirstN(seq, n) == SubSeq(seq, 1, Min({n, Len(seq)}))

(* title ILIKE '%name%' *)
Within(name, title) == \E i \in 1..(Len(title) - Len(name) + 1) : SubSeq(title, i, i + Len(name) - 1) = name

(* (a = b) DESC: a comparison with null is null, and null comes first. *)
DescEq(a, b) == IF a = <<>> THEN 0 ELSE IF a = b THEN 1 ELSE 2
Desc(p) == IF p THEN 0 ELSE 1

(* MUTANT: the title is not looked at first. *)
LooseRank_ActualFirst(t, name) ==
    <<DescEq(items[t].actual_name, name), Desc(t = name), Desc(name \in items[t].aliases), Len(t)>>

LooseRank(t, name) ==
    <<Desc(t = name), DescEq(items[t].actual_name, name), Desc(name \in items[t].aliases), Len(t)>>

(* The rows the statement may answer with: none comes before them. *)
findItemLoose(name) ==
    LET found == {t \in DOMAIN items : t = name \/ items[t].actual_name = name \/ name \in items[t].aliases \/ Within(name, t)}
    IN  {t \in found : \A u \in found : ~Before(LooseRank(u, name), LooseRank(t, name))}

(* exact title, then contains, the shortest first *)
findNpcLoose(name) ==
    LET found == {n \in ToSet(Npcs) : n = name \/ Within(name, n)}
    IN  {n \in found : \A m \in found : ~Before(<<Desc(m = name), Len(m)>>, <<Desc(n = name), Len(n)>>)}

(* Those without a level first.  A filter that is {} is absent. *)
findItems(search, maxLevel, limit) ==
    LET Found(t) == /\ \A s \in search : Within(s, t) \/ Within(s, items[t].actual_name)
                    /\ \A m \in maxLevel, l \in items[t].level : l <= m
        level(t) == Min(items[t].level \cup {1000})
    IN  FirstN(Sorted({t \in DOMAIN items : Found(t)},
                      LAMBDA t : <<Desc(items[t].level = {}), level(t), Place(Titles, t)>>), limit)

Price(o) == CHOOSE p \in o.price : TRUE

(* MUTANT: the cheapest first, whichever way the trade runs. *)
OfferRank_Cheapest(o) ==
    <<Desc(o.direction = "npc_buys"), Desc(o.price # {}),
      IF o.price = {} THEN 0 ELSE Price(o), Place(Npcs, o.npc)>>

(* Best first for the player, the offers at the item's own price after those with a price. *)
OfferRank(o) ==
    <<Desc(o.direction = "npc_buys"), Desc(o.price # {}),
      IF o.price = {} THEN 0 ELSE IF o.direction = "npc_buys" THEN -Price(o) ELSE Price(o), Place(Npcs, o.npc)>>

findTradeOffersForItem(t) == Sorted({o \in offers : o.item = t}, OfferRank)

findTradeOffersForNpc(npc) ==
    FirstN(Sorted({o \in offers : o.npc = npc},
                  LAMBDA o : <<Desc(o.direction = "npc_buys"), Place(Titles, o.item)>>), DEFAULT_LIMIT)

-----------------------------------------------------------------------------
(* localTools. *)

Default(o) == IF o.direction = "npc_buys" THEN items[o.item].npc_sell ELSE items[o.item].npc_buy

(* The offers of a list in one direction, in its order. *)
Matching(all, direction) ==
    LET at == Ordered({i \in DOMAIN all : all[i].direction = direction}, <)
    IN  [n \in DOMAIN at |-> all[at[n]]]

(* MUTANT: an offer without a price of its own is shown without one. *)
renderOffers_NoDefault(all, direction) ==
    LET matching == Matching(all, direction)
        shown == FirstN(matching, TRADE_NAME_CAP)
    IN  [shown |-> [i \in DOMAIN shown |->
                      [item |-> shown[i].item, npc |-> shown[i].npc, price |-> shown[i].price]],
         more |-> Len(matching) - Len(shown)]

(* What is shown of the offers in one direction, and how many are not. *)
renderOffers(all, direction) ==
    LET matching == Matching(all, direction)
        shown == FirstN(matching, TRADE_NAME_CAP)
    IN  [shown |-> [i \in DOMAIN shown |->
                      [item |-> shown[i].item, npc |-> shown[i].npc,
                       price |-> IF shown[i].price = {} THEN Default(shown[i]) ELSE shown[i].price]],
         more |-> Len(matching) - Len(shown)]

Directions == {"npc_sells", "npc_buys"}

getItemInfo(name) ==
    {[item |-> t, trades |-> [d \in Directions |-> renderOffers(findTradeOffersForItem(t), d)]] : t \in findItemLoose(name)}

getNpcInfo(name) ==
    {[npc |-> n, trades |-> [d \in Directions |-> renderOffers(findTradeOffersForNpc(n), d)]] : n \in findNpcLoose(name)}

(* What the model asks for, clamped. *)
boundedLimit(raw, cap) == IF raw \in 1..cap THEN raw ELSE cap

find_items(search, maxLevel, limit) == findItems(search, maxLevel, boundedLimit(limit, FIND_ITEMS_CAP))

-----------------------------------------------------------------------------
(* A text, an infobox and a list of calls grow; pages are imported and aliases merged. *)

Quiet == text = <<>> /\ box = <<>> /\ list = <<>>

GrowText ==
    /\ Len(text) < MaxTokens /\ box = <<>> /\ list = <<>> /\ wiki = <<>>
    /\ \E token \in Tokens : text' = Append(text, token)
    /\ UNCHANGED <<box, list, tables>>

GrowBox ==
    /\ Len(box) < MaxParams /\ text = <<>> /\ list = <<>> /\ wiki = <<>>
    /\ \E k \in Keys, v \in Values : box' = Append(box, [key |-> k, value |-> v])
    /\ UNCHANGED <<text, list, tables>>

GrowList ==
    /\ Len(list) < MaxCalls /\ text = <<>> /\ box = <<>> /\ wiki = <<>>
    /\ \E c \in Calls : list' = Append(list, c)
    /\ UNCHANGED <<text, box, tables>>

(* The importer: what the mapper makes of the page is written. *)
Import(t, p) ==
    /\ Quiet
    /\ \E record \in Mapped(mapItem, ItemPage(p), MaxLength) : upsertItemWithTradeOffers(t, record.columns)
    /\ wiki' = Put(wiki, t, p)
    /\ UNCHANGED <<text, box, list>>

Alias(t, a) ==
    /\ Quiet
    /\ mergeItemAliases(t, {a})
    /\ UNCHANGED <<text, box, list, wiki>>

Next ==
    \/ GrowText \/ GrowBox \/ GrowList
    \/ \E t \in ToSet(Titles) : (\E p \in Pages : Import(t, p)) \/ (\E a \in Names : Alias(t, a))

Spec == Init /\ [][Next]_vars

-----------------------------------------------------------------------------
(* Properties of the parsers. *)

(* Whatever the page says, no call and no closed link reaches a column or an attribute   *)
(* (catalogWikiParser.ts:277), and cleaning what is clean changes nothing.               *)
MarkupStripped ==
    LET plain == stripToPlainText(text)
    IN  /\ \A i \in DOMAIN plain : plain[i] \notin {"{", "}"}
        /\ \A i, j \in DOMAIN plain : i < j => ~(plain[i] = "[" /\ plain[j] = "]")
        /\ stripToPlainText(plain) = plain

BoxPage(name) ==
    <<"a">> \o Call(name, [i \in DOMAIN box |-> Named(box[i].key, box[i].value.text)])
    \o Call("Other", <<Named("city", <<"b">>)>>)

Said(key) == {i \in DOMAIN box : box[i].key = key}
Given(key) == box[Max(Said(key))].value
Known(key) == Said(key) # {} /\ ~isUnknown(Given(key).text)

(* Every parameter of an infobox arrives, with the value the page gives it last and      *)
(* whatever links and calls stand in it: in its column, or as an attribute unless it is  *)
(* excluded, long or holds a call (catalogWikiParser.ts:103 and :597).                   *)
BoxRead ==
    box # <<>> => \A mapper \in {mapCreature, mapSpell, mapNpc, mapHuntingPlace} :
      LET Kept(k) == /\ k \notin mapper.typed \cup mapper.exclude \cup mapper.skip
                     /\ Known(k) /\ ~Given(k).call /\ Given(k).plain # <<>> /\ Len(Given(k).text) <= MaxLength
      IN  \E r \in Mapped(mapper, BoxPage(mapper.box), MaxLength) :
            /\ r.attributes = [k \in {k \in Keys : Kept(k)} |-> Given(k).plain]
            /\ \A k \in Keys \cap DOMAIN mapper.columns : r.columns[k] = IF Known(k) THEN Given(k).plain ELSE <<>>

(* A call of a list of abilities or of loot: its subject, and a range given by position or by name. *)
CallText(c) ==
    CASE c.kind = "Ability"   -> Call(c.kind, IF c.byName THEN <<Named("range", c.range), c.subject.text, Named("scene", Call("Scene", <<<<"a">>, <<"b">>>>))>>
                                              ELSE <<c.subject.text, c.range>>)
      [] c.kind = "Melee"     -> Call(c.kind, IF c.byName THEN <<Named("range", c.range)>> ELSE <<c.range>>)
      [] c.kind = "Loot Item" -> Call(c.kind, IF c.range = <<>> THEN <<c.subject.text>> ELSE <<c.range, c.subject.text>>)

ListOf(kinds) == SelectSeq(list, LAMBDA c : c.kind \in kinds)
Parts(calls) == [i \in DOMAIN calls |-> CallText(calls[i])]
ListPage ==
    Call("Infobox Creature", <<Named("abilities", Call("Ability List", Parts(ListOf({"Ability", "Melee"})))),
                               Named("loot", Call("Loot Table", Parts(ListOf({"Loot Item"})))),
                               Named("maxdmg", Call("Max Damage", <<Named("fire", <<"5", "0">>), Named("ice", <<"?">>)>>))>>)
Listed(kinds) == SelectSeq(ListOf(kinds), LAMBDA c : c.kind = "Melee" \/ c.subject.plain # <<>>)

(* Every ability, every piece of loot and every creature of a list is found, in order, a *)
(* creature once; nested calls and the pipes of links do not break the list              *)
(* (catalogWikiParser.ts:196).                                                           *)
ListsRead ==
    LET fights == Listed({"Ability", "Melee"})
        loot == Listed({"Loot Item"})
        CreaturesOnce(creatures) ==
          /\ ToSet(creatures) = {list[i].subject.plain : i \in DOMAIN list} \ {<<>>}
          /\ Cardinality(ToSet(creatures)) = Len(creatures)
    IN  /\ \E page \in {r.columns : r \in Mapped(mapCreature, ListPage, MaxLength)} :
             /\ Len(page.abilities) = Len(fights) /\ Len(page.loot) = Len(loot) /\ page.maxdmg = (<<"fire">> :> {50})
             /\ \A i \in DOMAIN fights :
                  /\ page.abilities[i].name = IF fights[i].kind = "Melee" THEN <<"Melee">> ELSE fights[i].subject.plain
                  /\ page.abilities[i].range = fights[i].range
             /\ \A i \in DOMAIN loot : page.loot[i].item = loot[i].subject.plain /\ page.loot[i].amount = loot[i].range
        /\ CreaturesOnce(parseCreatureList(FlattenSeq([i \in DOMAIN list |->
              Call("CreatureList", <<Named("type", <<"a">>), list[i].subject.text>>)])))

-----------------------------------------------------------------------------
(* Properties of the answers. *)

Stated(t) ==
    {[item |-> t, npc |-> o.npc, direction |-> o.direction, price |-> o.price] : o \in Trades(wiki[t])}

(* After every import the offers of an item are those of its page, no older ones       *)
(* (catalogRepository.ts:120).                                                         *)
OffersAreThePages == offers = UNION {Stated(t) : t \in DOMAIN wiki}

(* What get_item_info and get_npc_info say of one trade agrees, at the item's own price *)
(* where the NPC has none, never at no price if the page states one; and every offer is *)
(* shown or counted, as long as an NPC has no more offers than the statement lists.     *)
AnswersAgree ==
    \A t \in DOMAIN items, n \in ToSet(Npcs), d \in Directions :
      LET asked == getItemInfo(t)
          few == Cardinality({o \in offers : o.npc = n}) <= DEFAULT_LIMIT
          given == {o \in Stated(t) : o.npc = n /\ o.direction = d}
          Expected(o) == IF o.price # {} THEN o.price
                         ELSE Number(IF d = "npc_buys" THEN wiki[t].npcvalue ELSE wiki[t].npcprice) \ {0}
      IN  /\ \A a \in asked :
               LET it == a.trades[d]
               IN  /\ Len(it.shown) + it.more = Cardinality({o \in Stated(t) : o.direction = d})
                   /\ \A i \in DOMAIN it.shown : it.shown[i].npc = n => \E o \in given : it.shown[i].price = Expected(o)
          /\ \A a \in getNpcInfo(n) :
               LET it == a.trades[d]
               IN  /\ few => Len(it.shown) + it.more = Cardinality({o \in offers : o.npc = n /\ o.direction = d})
                   /\ \A i \in DOMAIN it.shown : it.shown[i].item = t => \E o \in given : it.shown[i].price = Expected(o)

(* Among the offers with a price the best one for the player leads                      *)
(* (catalogRepository.ts:417).                                                          *)
BestOfferLeads ==
    \A t \in DOMAIN items : \A a \in getItemInfo(t), d \in Directions :
      LET own == {o \in Stated(t) : o.direction = d /\ o.price # {}}
      IN  own # {} => LET first == Price(a.trades[d].shown[1])
                      IN  \A o \in own : IF d = "npc_buys" THEN Price(o) <= first ELSE first <= Price(o)

(* An item or an NPC that any tool lists can be asked for by the name it is listed with, *)
(* and asking for it answers for that very row (localTools.ts:392-456).                  *)
ListedCanBeAsked ==
    /\ \A name \in Names, limit \in 0..(FIND_ITEMS_CAP + 1) :
         LET rows == find_items({name}, {}, limit)
         IN  Len(rows) <= FIND_ITEMS_CAP /\ \A i \in DOMAIN rows : findItemLoose(rows[i]) = {rows[i]}
    /\ \A name \in Names, d \in Directions :
         /\ \A a \in getNpcInfo(name) : \A i \in DOMAIN a.trades[d].shown :
              findItemLoose(a.trades[d].shown[i].item) = {a.trades[d].shown[i].item}
         /\ \A a \in getItemInfo(name) : \A i \in DOMAIN a.trades[d].shown :
              findNpcLoose(a.trades[d].shown[i].npc) = {a.trades[d].shown[i].npc}

=============================================================================
