------------------------------ MODULE WikiText ------------------------------
(***************************************************************************)
(* The parsers of catalogWikiParser: what the mappers make of the text of  *)
(* a wiki page.  A text is a sequence of tokens: a character of the markup *)
(* or of a number, or a word.  White space, letter case, HTML tags, quotes *)
(* and the tidying of punctuation are left out, and decimals are whole.    *)
(* The empty text stands for null, {} and {n} for a number or null.        *)
(***************************************************************************)
EXTENDS Integers, Sequences, SequencesExt, FiniteSetsExt

Digits == [d \in {"0", "1", "2", "5"} |-> CASE d = "0" -> 0 [] d = "1" -> 1 [] d = "2" -> 2 [] d = "5" -> 5]

(* What the page writes for a value nobody knows. *)
isUnknown(raw) == raw \in {<<>>, <<"?">>}

-----------------------------------------------------------------------------
(* Scanning. *)

Count(s, i, token) == Cardinality({j \in 1..(i - 1) : s[j] = token})
Braces(s, i) == Count(s, i, "{") - Count(s, i, "}")
Brackets(s, i) == Count(s, i, "[") - Count(s, i, "]")

From(s, i) == SubSeq(s, i, Len(s))

(* The part of s before the }} that belongs to a {{ just in front of it. *)
balancedBody(s) ==
    LET closing == {i \in 1..Len(s) : /\ s[i] = "}"
                                      /\ \/ Braces(s, i) = 0 /\ i < Len(s) /\ s[i + 1] = "}"
                                         \/ Braces(s, i) = -1}
    IN  SubSeq(s, 1, Min(closing \cup {Len(s) + 1}) - 1)

(* The elements of set in the order given by Precedes, which is total on it. *)
Ordered(set, Precedes(_, _)) ==
    [n \in 1..Cardinality(set) |-> CHOOSE x \in set : Cardinality({y \in set : Precedes(y, x)}) = n - 1]

(* The pieces of s between the positions in cuts. *)
SplitAt(s, cuts) ==
    LET Pieces(end) == [n \in DOMAIN end |-> SubSeq(s, IF n = 1 THEN 1 ELSE end[n - 1] + 1, end[n] - 1)]
    IN  Pieces(Ordered(cuts \cup {Len(s) + 1}, <))

Split(s, token) == SplitAt(s, {i \in 1..Len(s) : s[i] = token})

(* MUTANT: pipes inside a link separate too. *)
splitTopLevel_Links(body) ==
    SplitAt(body, {i \in 1..Len(body) : body[i] = "|" /\ Braces(body, i) = 0})

splitTopLevel(body) ==
    SplitAt(body, {i \in 1..Len(body) : body[i] = "|" /\ Braces(body, i) = 0 /\ Brackets(body, i) = 0})

(* The first = of a part, or 0: of all of them, or of those outside calls and links. *)
FirstEquals(part) == Min({i \in 1..Len(part) : part[i] = "="} \cup {Len(part) + 1}) % (Len(part) + 1)

(* MUTANT: the first of all. *)
topLevelEquals_First(part) == FirstEquals(part)

topLevelEquals(part) ==
    Min({i \in 1..Len(part) : part[i] = "=" /\ Braces(part, i) = 0 /\ Brackets(part, i) = 0}
        \cup {Len(part) + 1}) % (Len(part) + 1)

(* A map filled from a sequence of pairs: a later pair replaces an earlier one. *)
MapOf(pairs) ==
    [k \in {pairs[i][1] : i \in DOMAIN pairs} |->
        pairs[Max({i \in DOMAIN pairs : pairs[i][1] = k})][2]]

PairAt(part, eq) == <<SubSeq(part, 1, eq - 1), From(part, eq + 1)>>

(* The parameters of the first call of the infobox name; a part without a key is skipped. *)
parseInfoboxParams(name, text) ==
    LET opened == {i \in 4..Len(text) : /\ text[i - 3] = "{" /\ text[i - 2] = "{" /\ text[i - 1] = name
                                        /\ text[i] \in {"|", "}"}}
        IsKey(k) == k # <<>> /\ \A i \in DOMAIN k : k[i] \notin {"{", "}", "[", "]"}
        Pairs(parts) == SelectSeq([n \in DOMAIN parts |-> PairAt(parts[n], FirstEquals(parts[n]))],
                                  LAMBDA pair : IsKey(pair[1]))
        Body(at) == IF at = {} THEN <<>> ELSE balancedBody(From(text, Min(at)))
    IN  MapOf(Pairs(splitTopLevel(Body(opened))))

get(params, key) == IF <<key>> \in DOMAIN params THEN params[<<key>>] ELSE <<>>

parseCall(body) ==
    LET Pairs(parts) == [n \in DOMAIN parts |-> PairAt(parts[n], topLevelEquals(parts[n]))]
        CallOf(parts) == [name       |-> parts[1],
                          positional |-> SelectSeq(Tail(parts), LAMBDA p : topLevelEquals(p) = 0),
                          named      |-> MapOf(Pairs(SelectSeq(Tail(parts), LAMBDA p : topLevelEquals(p) # 0)))]
    IN  CallOf(splitTopLevel(body))

(* The calls outside other calls; {{{parameter}}} is skipped. *)
findTemplateCalls(raw) ==
    LET calls[i \in 1..(Len(raw) + 3)] ==
          IF i >= Len(raw) THEN <<>>
          ELSE IF raw[i] # "{" \/ raw[i + 1] # "{" THEN calls[i + 1]
          ELSE IF i + 2 <= Len(raw) /\ raw[i + 2] = "{" THEN calls[i + 3]
          ELSE LET body == balancedBody(From(raw, i + 2))
               IN  <<parseCall(body)>> \o calls[i + 4 + Len(body)]
    IN  calls[1]

Arg(call, n) == IF n \in DOMAIN call.positional THEN call.positional[n] ELSE <<>>

-----------------------------------------------------------------------------
(* Plain text. *)

(* A closing brace without an opening one is dropped and not counted. *)
WithoutBraces(raw) ==
    FoldLeft(LAMBDA acc, ch :
                CASE ch = "{" -> [acc EXCEPT !.depth = acc.depth + 1]
                  [] ch = "}" -> [acc EXCEPT !.depth = IF acc.depth > 0 THEN acc.depth - 1 ELSE 0]
                  [] OTHER    -> IF acc.depth = 0 THEN [acc EXCEPT !.out = Append(acc.out, ch)] ELSE acc,
             [depth |-> 0, out |-> <<>>], raw).out

FirstAfter(s, i, token) == Min({j \in i..Len(s) : s[j] = token} \cup {Len(s) + 1})

(* Every match replaced, from the left; Match(s, i) holds the match at i, or is empty. *)
Rewritten(s, Match(_, _)) ==
    LET Extended(acc, i, match) ==
          IF match = {} THEN [acc EXCEPT !.out = Append(acc.out, s[i])]
          ELSE CHOOSE longer \in {[out |-> acc.out \o m.by, next |-> m.next] : m \in match} : TRUE
    IN  FoldLeft(LAMBDA acc, i : IF i < acc.next THEN acc ELSE Extended(acc, i, Match(s, i)),
                 [out |-> <<>>, next |-> 1], [i \in DOMAIN s |-> i]).out

(* Where the text of the link that begins at i ends, if one does: ]] where the next ] is. *)
LinkEnd(s, i) ==
    {e \in {FirstAfter(s, i + 2, "]")} : /\ e < Len(s) /\ s[e + 1] = "]"
                                         /\ s[i] = "[" /\ s[i + 1] = "["}

Bar(s, i) == FirstAfter(s, i + 2, "|")

Embed(s, i) == {[by |-> <<>>, next |-> e + 2] : e \in {e \in LinkEnd(s, i) : s[i + 2] = "File"}}

PipedLink(s, i) == {[by |-> SubSeq(s, Bar(s, i) + 1, e - 1), next |-> e + 2] : e \in {e \in LinkEnd(s, i) : Bar(s, i) < e}}

PlainLink(s, i) == {[by |-> SubSeq(s, i + 2, e - 1), next |-> e + 2] : e \in LinkEnd(s, i)}

ExternalLink(s, i) ==
    {[by |-> <<>>, next |-> e + 1] : e \in {e \in {FirstAfter(s, i, "]")} : s[i] = "[" /\ e <= Len(s)}}

(* MUTANT: the links that are left over stay. *)
stripToPlainText_LinksOnly(raw) ==
    Rewritten(Rewritten(Rewritten(WithoutBraces(raw), Embed), PipedLink), PlainLink)

stripToPlainText(raw) ==
    Rewritten(Rewritten(Rewritten(Rewritten(WithoutBraces(raw), Embed), PipedLink), PlainLink), ExternalLink)

clean(raw) == IF isUnknown(raw) THEN <<>> ELSE stripToPlainText(raw)

LinkTarget(s, i) ==
    {[to |-> SubSeq(s, i + 2, Min({Bar(s, i), e}) - 1), next |-> e + 2] :
        e \in {e \in LinkEnd(s, i) : Min({Bar(s, i), e}) > i + 2}}

(* The pages linked to: each once, in the order of the text. *)
extractLinkTargets(raw) ==
    LET Seen(acc, match) ==
          IF match = {} THEN acc
          ELSE CHOOSE more \in {[out |-> IF Contains(acc.out, m.to) THEN acc.out ELSE Append(acc.out, m.to), next |-> m.next] : m \in match} : TRUE
    IN  FoldLeft(LAMBDA acc, i : IF i < acc.next THEN acc ELSE Seen(acc, LinkTarget(raw, i)),
                 [out |-> <<>>, next |-> 1], [i \in DOMAIN raw |-> i]).out

-----------------------------------------------------------------------------
(* Values. *)

Value(digits) == FoldLeft(LAMBDA n, d : 10 * n + Digits[d], 0, digits)

(* The first number of the text; commas are taken for thousand separators. *)
coerceInt(raw) ==
    LET DigitsIn(s) == {i \in DOMAIN s : s[i] \in DOMAIN Digits}
        Run(s, first) == {j \in first..Len(s) : first..j \subseteq DigitsIn(s)}
        Sign(s, first) == IF first > 1 /\ s[first - 1] = "-" THEN -1 ELSE 1
        Number(s) == {Sign(s, first) * Value(SubSeq(s, first, Max(Run(s, first)))) :
                        first \in {i \in DigitsIn(s) : \A j \in DigitsIn(s) : i <= j}}
    IN  IF isUnknown(raw) THEN {} ELSE Number(SelectSeq(raw, LAMBDA ch : ch # ","))

coerceBool(raw) == IF raw \in {<<"yes">>, <<"1">>} THEN {TRUE} ELSE IF raw \in {<<"no">>, <<"0">>} THEN {FALSE} ELSE {}

(* A price of 0: no NPC trades it. *)
coercePrice(raw) == coerceInt(raw) \ {0}

parseValueRange(raw) ==
    LET Numbers(parts) == SelectSeq([i \in DOMAIN parts |-> coerceInt(parts[i])], LAMBDA n : n # {})
        Bounds(known) == IF known = <<>> THEN [low |-> {}, high |-> {}]
                         ELSE [low |-> known[1], high |-> known[Len(known)]]
    IN  Bounds(IF isUnknown(raw) THEN <<>> ELSE Numbers(Split(raw, "-")))

(* "Azil, Baltim: 110": a trailing colon and number is the NPC's own price. *)
TradeEntry(entry, direction) ==
    LET colon == Max({i \in DOMAIN entry : entry[i] = ":"} \cup {0})
        own == colon # 0 /\ colon < Len(entry) /\ \A i \in (colon + 1)..Len(entry) : entry[i] \in DOMAIN Digits
    IN  [npc |-> IF own THEN SubSeq(entry, 1, colon - 1) ELSE entry, direction |-> direction,
         price |-> IF own THEN {Value(From(entry, colon + 1))} ELSE {}]

parseTradeList(raw, direction) ==
    LET entries == SelectSeq(Split(raw, ","), LAMBDA e : /\ ~isUnknown(e)
                                                         /\ \A i \in DOMAIN e : e[i] \notin {"{", "}", "[", "]"})
        Listed(acc, o) == IF o.npc = <<>> \/ \E i \in DOMAIN acc : acc[i].npc = o.npc THEN acc ELSE Append(acc, o)
    IN  IF isUnknown(raw) THEN <<>>
        ELSE FoldLeft(LAMBDA acc, e : Listed(acc, TradeEntry(e, direction)), <<>>, entries)

-----------------------------------------------------------------------------
(* Lists of calls.  Each entry is the first call of a positional part of the list. *)

Entries(raw) ==
    LET Parts(list) == IF list = <<>> THEN <<>> ELSE list[1].positional
        CallsOf(parts) == SelectSeq([i \in DOMAIN parts |-> findTemplateCalls(parts[i])], LAMBDA c : c # <<>>)
        Firsts(calls) == [i \in DOMAIN calls |-> calls[i][1]]
    IN  Firsts(CallsOf(Parts(IF isUnknown(raw) THEN <<>> ELSE findTemplateCalls(raw))))

(* Given as the n-th positional part, or by name. *)
Either(call, n, name) ==
    LET Or(given, named) == IF given # <<>> THEN given ELSE named
    IN  Or(clean(Arg(call, n)), clean(get(call.named, name)))

(* An Ability is named by its first part, which moves the others by one. *)
CreatureAbility(call) ==
    LET kind == call.name
        n == IF kind = <<"Ability">> THEN 2 ELSE 1
        Bare(value) == IF kind = <<"Summon">> THEN <<>> ELSE value
        first == clean(Arg(call, 1))
    IN  [name    |-> CASE kind = <<"Ability">> -> first [] kind = <<"Summon">> -> kind \o first [] OTHER -> kind,
         range   |-> Bare(Either(call, n, "range")),
         element |-> Bare(Either(call, n + 1, "element"))]

parseAbilityList(raw) ==
    LET Abilities(entries) == [i \in DOMAIN entries |-> CreatureAbility(entries[i])]
    IN  SelectSeq(Abilities(Entries(raw)), LAMBDA a : a.name # <<>>)

(* A first part that is an amount moves the others by one. *)
LootRow(call) ==
    LET first == Arg(call, 1)
        bounds == Split(first, "-")
        n == IF Len(bounds) <= 2 /\ \A b \in DOMAIN bounds : bounds[b] # <<>> /\ \A i \in DOMAIN bounds[b] : bounds[b][i] \in DOMAIN Digits
             THEN 1 ELSE 0
    IN  [item |-> clean(Arg(call, n + 1)), amount |-> IF n = 1 THEN first ELSE <<>>, rarity |-> clean(Arg(call, n + 2))]

parseLootTable(raw) ==
    LET Rows(loot) == [i \in DOMAIN loot |-> LootRow(loot[i])]
    IN  SelectSeq(Rows(SelectSeq(Entries(raw), LAMBDA c : c.name = <<"Loot Item">>)), LAMBDA r : r.item # <<>>)

parseMaxDamage(raw) ==
    LET Given(calls) == IF calls = <<>> THEN <<>> ELSE calls[1].named
        Numbers(damage) == [k \in {k \in DOMAIN damage : coerceInt(damage[k]) # {}} |-> coerceInt(damage[k])]
    IN  Numbers(Given(IF isUnknown(raw) THEN <<>> ELSE findTemplateCalls(raw)))

(* The lists of the whole page, merged: each creature once. *)
parseCreatureList(wikitext) ==
    LET Parts(lists) == FlattenSeq([i \in DOMAIN lists |-> lists[i].positional])
        Creature(acc, name) == IF name = <<>> \/ Contains(acc, name) THEN acc ELSE Append(acc, name)
    IN  FoldLeft(LAMBDA acc, part : Creature(acc, stripToPlainText(part)), <<>>,
                 Parts(SelectSeq(findTemplateCalls(wikitext), LAMBDA c : c.name = <<"CreatureList">>)))

-----------------------------------------------------------------------------
(* Mappers: the typed columns of a page, and the residual attributes. *)

(* How the column filled from a parameter is coerced. *)
Coerced(how, raw) ==
    CASE how = "int"       -> coerceInt(raw)
      [] how = "bool"      -> coerceBool(raw)
      [] how = "price"     -> coercePrice(raw)
      [] how = "range"     -> parseValueRange(raw)
      [] how = "text"      -> clean(raw)
      [] how = "plain"     -> stripToPlainText(raw)
      [] how = "links"     -> extractLinkTargets(raw)
      [] how = "abilities" -> parseAbilityList(raw)
      [] how = "loot"      -> parseLootTable(raw)
      [] how = "damage"    -> parseMaxDamage(raw)
      [] how = "id"        -> coerceInt(Split(raw, ",")[1])
      [] how = "npc_sells" -> parseTradeList(raw, "npc_sells")
      [] how = "npc_buys"  -> parseTradeList(raw, "npc_buys")

All(how, keys) == [k \in keys |-> how]

RESISTANCE_PARAMS ==
    {"physicaldmgmod", "earthdmgmod", "firedmgmod", "deathdmgmod", "energydmgmod", "holydmgmod",
     "icedmgmod", "hpdraindmgmod", "drowndmgmod", "healmod"}

mapCreature ==
    [box |-> "Infobox Creature",
     columns |-> All("int", {"hp", "exp", "armor", "mitigation", "summon", "convince"} \cup RESISTANCE_PARAMS)
                 @@ All("text", {"bestiaryclass", "bestiarylevel", "occurrence", "creatureclass", "primarytype", "spawntype"})
                 @@ [isboss |-> "bool", abilities |-> "abilities", maxdmg |-> "damage", loot |-> "loot",
                     location |-> "links"],
     typed |-> {"hp", "exp", "armor", "mitigation", "summon", "convince", "creatureclass", "primarytype",
                "bestiaryclass", "bestiarylevel", "occurrence", "spawntype", "isboss", "abilities",
                "loot", "location", "maxdmg"} \cup RESISTANCE_PARAMS,
     exclude |-> {"bestiarytext", "flavortext", "notes", "history", "sounds", "strategy",
                  "behaviour", "list", "getvalue", "name"},
     skip |-> {}]

mapItem ==
    [box |-> "Infobox Object",
     columns |-> All("int", {"levelrequired", "weight", "attack", "defense", "armor"})
                 @@ All("text", {"objectclass", "primarytype", "slot", "vocrequired", "actualname", "plural"})
                 @@ All("price", {"npcprice", "npcvalue"})
                 @@ All("bool", {"marketable", "stackable", "pickupable"})
                 @@ [itemid |-> "id", value |-> "range", buyfrom |-> "npc_sells", sellto |-> "npc_buys"],
     typed |-> {"itemid", "objectclass", "primarytype", "slot", "levelrequired", "vocrequired",
                "weight", "attack", "defense", "armor", "npcvalue", "npcprice", "value",
                "marketable", "stackable", "pickupable", "actualname", "plural", "buyfrom", "sellto"},
     exclude |-> {"notes", "droppedby", "sounds", "list", "getvalue", "name"},
     skip |-> {}]

mapSpell ==
    [box |-> "Infobox Spell",
     columns |-> All("int", {"levelrequired", "mana", "cooldown"}) @@ All("text", {"spellclass", "type", "subclass"})
                 @@ [words |-> "plain", voc |-> "links", premium |-> "bool", effect |-> "plain"],
     typed |-> {"words", "spellclass", "type", "subclass", "voc", "levelrequired", "mana",
                "premium", "cooldown", "effect"},
     exclude |-> {"librarytext", "notes", "history", "sounds", "list", "getvalue", "name"},
     skip |-> {}]

mapNpc ==
    [box |-> "Infobox NPC",
     columns |-> [job |-> "text", city |-> "text", location |-> "plain", buysell |-> "bool"],
     typed |-> {"job", "city", "location", "buysell"},
     exclude |-> {"predictloc", "notes", "history", "sounds", "list", "getvalue", "name"},
     skip |-> {"posx", "posy", "posz", "geolabel", "posx2"}]

mapHuntingPlace ==
    [box |-> "Infobox Hunt",
     columns |-> All("int", {"lvlknights", "lvlpaladins", "lvlmages", "lootstar", "expstar"})
                 @@ All("text", {"city", "vocation", "loot", "exp"})
                 @@ All("plain", {"location", "bestloot", "bestloot2", "bestloot3", "bestloot4", "bestloot5"}),
     typed |-> {"city", "location", "vocation", "lvlknights", "lvlpaladins", "lvlmages",
                "loot", "lootstar", "exp", "expstar"},
     exclude |-> {"notes", "history", "sounds", "list", "getvalue", "name", "image", "map"},
     skip |-> {"bestloot", "bestloot2", "bestloot3", "bestloot4", "bestloot5", "bestloot6"}]

(* Kept: short, known, without a call in it, and in no column. *)
residualAttributes(params, mapper, MaxLength) ==
    LET Kept(k) == LET v == params[<<k>>]
                   IN  /\ k \notin mapper.typed \cup mapper.exclude \cup mapper.skip
                       /\ ~isUnknown(v) /\ Len(v) <= MaxLength
                       /\ ~\E i \in 1..(Len(v) - 1) : v[i] = v[i + 1] /\ v[i] \in {"{", "}"}
                       /\ stripToPlainText(v) # <<>>
        keys == {k \in {p[1] : p \in {p \in DOMAIN params : Len(p) = 1}} : Kept(k)}
    IN  [k \in keys |-> stripToPlainText(params[<<k>>])]

(* The classes of things that are items even if the page does not say pickupable. *)
ITEM_OBJECT_CLASS_WHITELIST ==
    {<<"weapons">>, <<"body equipment">>, <<"runes">>, <<"tools and other equipment">>, <<"valuables">>,
     <<"amulets">>, <<"rings">>, <<"potions">>, <<"ammunition">>, <<"shields">>}

isCatalogItem(params) ==
    \/ get(params, "objectclass") \in ITEM_OBJECT_CLASS_WHITELIST
    \/ coerceInt(get(params, "itemid")) # {} /\ coerceBool(get(params, "pickupable")) = {TRUE}

(* {} if the page is not of the mapper's type. *)
Mapped(mapper, wikitext, MaxLength) ==
    LET IsOne(params) == IF mapper.box = "Infobox Object" THEN isCatalogItem(params) ELSE params # <<>>
        Record(params) == [columns    |-> [k \in DOMAIN mapper.columns |-> Coerced(mapper.columns[k], get(params, k))],
                           attributes |-> residualAttributes(params, mapper, MaxLength)]
    IN  {Record(params) : params \in {p \in {parseInfoboxParams(mapper.box, wikitext)} : IsOne(p)}}
=============================================================================
