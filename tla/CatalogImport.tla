--------------------------- MODULE CatalogImport ---------------------------
(***************************************************************************)
(* The catalog importer: WikiCatalogImporter.run over the batched reads of *)
(* WikiApiClient, the statements of CatalogRepository it uses, the run     *)
(* records, the weekly scheduler and the command line.  One action is the  *)
(* code between two awaits; editors change the wiki in between.            *)
(*                                                                         *)
(* The order of a list of titles is left open.  Texts are versions: a      *)
(* page's text is the revision it was current at.                          *)
(* What the mappers make of a text is in WikiText; here a text is of the   *)
(* content type ("record"), is not ("other"), or the page does not exist.  *)
(* The records of the runs (wiki_import_runs) are written and never read   *)
(* by the program, so start and finish only place their awaits.            *)
(***************************************************************************)
EXTENDS Naturals, Sequences, FiniteSets, Functions

CONSTANTS Titles,       \* the pages that can exist
          TypeOf,       \* TypeOf[t]: the content type whose infobox t carries
          SlugOf,       \* SlugOf[t]: the key of its row, content type included
          NoTitle,      \* the title of a row that is not there yet
          CATALOG_IMPORT_ORDER,  \* a sequence of content types
          Seeded,       \* the titles the alias seed has aliases for
          Ticks, Shells, \* the ticks, and the command lines, that can overlap
          Limits,       \* the values of --limit tried
          TitleBatch,   \* titles per request
          MaxEdits,     \* bound on the edits
          Faults        \* what may fail

Runs == Ticks \cup Shells

ASSUME TitlesAssumption == IsFiniteSet(Titles) /\ NoTitle \notin Titles
ASSUME SlugAssumption == DOMAIN SlugOf = Titles
ASSUME OrderAssumption == CATALOG_IMPORT_ORDER \in Seq(Range(CATALOG_IMPORT_ORDER)) \ {<<>>}
ASSUME BatchAssumption == TitleBatch \in Nat \ {0} /\ Limits \subseteq Nat
ASSUME FaultsAssumption == Faults \subseteq {"wiki", "database", "kill"}

VARIABLES page,     \* page[t]: the wiki
          row,      \* row[s]: the catalog tables, by slug
          run       \* run[r]: the local state of an execution

vars == <<page, row, run>>

Slugs == {SlugOf[t] : t \in Titles}
Kinds == {"record", "other", "absent"}
Text == [revision : Nat, kind : Kinds]
NoText == [revision |-> 0, kind |-> "absent"]

(* fields and offers are the texts the two parts of an item row were written from. *)
NoRow == [title |-> NoTitle, revision |-> 0, fields |-> 0, offers |-> 0, seeded |-> FALSE]

(* Revision 0 stands for a title that is not in the map. *)
Unknown == [t \in Titles |-> 0]

(* An execution that has read nothing yet. *)
Blank(pc, types, limit, force) ==
    [pc |-> pc, types |-> types, limit |-> limit, force |-> force, titles |-> {}, todo |-> {},
     stored |-> Unknown, live |-> Unknown, content |-> [t \in Titles |-> NoText]]

Idle == Blank("idle", <<>>, 0, FALSE)

Init ==
    /\ page \in [Titles -> [revision : {1}, kind : Kinds]]
    /\ row = [s \in Slugs |-> NoRow]
    /\ run = [r \in Runs |-> Idle]

-----------------------------------------------------------------------------
(* The wiki. *)

Edit(t) ==
    /\ FoldFunction(+, 0, [u \in Titles |-> page[u].revision - 1]) < MaxEdits
    /\ \E k \in Kinds : page' = [page EXCEPT ![t] = [revision |-> page[t].revision + 1, kind |-> k]]
    /\ UNCHANGED <<row, run>>

(* enumerateTransclusions: the pages with the infobox, of the type or not. *)
Transcluding(type) == {t \in Titles : TypeOf[t] = type /\ page[t].kind # "absent"}

-----------------------------------------------------------------------------
(* Starting, and going on to the next content type. *)

Goto(r, s) == run' = [run EXCEPT ![r] = s]

(* The scheduler's timer; the previous tick may still be running. *)
Tick(r) ==
    /\ r \in Ticks /\ run[r].pc = "idle"
    /\ Goto(r, Blank("start", CATALOG_IMPORT_ORDER, Cardinality(Titles), FALSE))
    /\ UNCHANGED <<page, row>>

(* parseCatalogImportArgs: an invalid --type or --limit throws before anything is read. *)
CommandLine(r) ==
    /\ r \in Shells /\ run[r].pc = "idle"
    /\ \E types \in {CATALOG_IMPORT_ORDER} \cup {<<CATALOG_IMPORT_ORDER[i]>> : i \in DOMAIN CATALOG_IMPORT_ORDER},
          limit \in Limits \cup {Cardinality(Titles)}, force \in BOOLEAN :
         Goto(r, Blank("start", types, limit, force))
    /\ UNCHANGED <<page, row>>

(* On from the reads and the loop: what they held is not used again. *)
Leave(s, pc, todo) == [Blank(pc, s.types, s.limit, s.force) EXCEPT !.todo = todo]

(* importer.run returns: what it read is gone, the loop over the types goes on. *)
NextType(s) ==
    IF Len(s.types) > 1 THEN Blank("start", Tail(s.types), s.limit, s.force) ELSE Idle

(* importer.run rejects: the scheduler catches it, the command line does not. *)
Thrown(r) == IF r \in Shells THEN Idle ELSE NextType(run[r])

start(r) ==
    /\ run[r].pc = "start"
    /\ Goto(r, [run[r] EXCEPT !.pc = "enumerate"])
    /\ UNCHANGED <<page, row>>

-----------------------------------------------------------------------------
(* What a run does next: nothing is awaited where there is nothing to ask for. *)

(* MUTANT: a page that has a row already is taken for unchanged. *)
Changed_NewOnly(s) ==
    {t \in s.titles : s.live[t] # 0 /\ (s.force \/ s.stored[t] = 0)}

(* The revision gate. *)
Changed(s) ==
    {t \in s.titles : s.live[t] # 0 /\ (s.force \/ s.stored[t] # s.live[t])}

(* A page of another type is skipped, one missing from the response has failed. *)
Importable(s) == {t \in Changed(s) : s.content[t].kind = "record"}

(* Aliases go to every seeded title listed, changed or not, of the items only. *)
ToAliases(s) ==
    Leave(s, "aliases", IF Head(s.types) = "item" THEN s.titles \cap Seeded ELSE {})

ToPages(s) ==
    IF Importable(s) = {} THEN ToAliases(s) ELSE [s EXCEPT !.pc = "pages", !.todo = Importable(s)]

ToContent(s) ==
    IF Changed(s) = {} THEN ToAliases(s) ELSE [s EXCEPT !.pc = "content", !.todo = Changed(s)]

ToRevids(s) ==
    IF s.titles = {} THEN ToAliases(s) ELSE [s EXCEPT !.pc = "revids", !.todo = s.titles]

-----------------------------------------------------------------------------
(* The reads. *)

(* The first n of a list of which only the members are known. *)
FirstOf(set, n) == {some \in SUBSET set : Cardinality(some) = IF n < Cardinality(set) THEN n ELSE Cardinality(set)}

enumerateTransclusions(r) ==
    /\ run[r].pc = "enumerate"
    /\ \E titles \in FirstOf(Transcluding(Head(run[r].types)), run[r].limit) :
         LET s == [run[r] EXCEPT !.titles = titles]
         IN  Goto(r, IF s.force THEN ToRevids(s) ELSE [s EXCEPT !.pc = "stored"])
    /\ UNCHANGED <<page, row>>

StoredRevision(t) == IF row[SlugOf[t]].title = t THEN row[SlugOf[t]].revision ELSE 0

getRevisionMap(r) ==
    /\ run[r].pc = "stored"
    /\ Goto(r, ToRevids([run[r] EXCEPT !.stored = [t \in Titles |-> StoredRevision(t)]]))
    /\ UNCHANGED <<page, row>>

(* Revision ids only; a page deleted meanwhile has none. *)
fetchRevids(r) ==
    /\ run[r].pc = "revids"
    /\ \E batch \in FirstOf(run[r].todo, TitleBatch) :
         LET s == [run[r] EXCEPT !.todo = run[r].todo \ batch,
                     !.live = [t \in Titles |-> IF t \in batch /\ page[t].kind # "absent"
                                                THEN page[t].revision ELSE run[r].live[t]]]
         IN  Goto(r, IF s.todo = {} THEN ToContent(s) ELSE s)
    /\ UNCHANGED <<page, row>>

(* The text that is current now, which may be newer than the revision in live. *)
fetchContent(r) ==
    /\ run[r].pc = "content"
    /\ \E batch \in FirstOf(run[r].todo, TitleBatch) :
         LET s == [run[r] EXCEPT !.todo = run[r].todo \ batch,
                     !.content = [t \in Titles |-> IF t \in batch THEN page[t] ELSE run[r].content[t]]]
         IN  Goto(r, IF s.todo = {} THEN ToPages(s) ELSE s)
    /\ UNCHANGED <<page, row>>

(* fetchApi: every attempt at a request failed, and the run is caught. *)
fetchApiFails(r) ==
    /\ "wiki" \in Faults
    /\ run[r].pc \in {"enumerate", "revids", "content"}
    /\ Goto(r, Leave(run[r], "catch", {}))
    /\ UNCHANGED <<page, row>>

-----------------------------------------------------------------------------
(* The loop over the changed pages, and what follows it. *)

AfterPage(s, t) == IF s.todo = {t} THEN ToAliases(s) ELSE [s EXCEPT !.todo = s.todo \ {t}]

(* MUTANT: the offers are left to a second statement. *)
Imported_OffersApart(t, revision, text, old) ==
    [title |-> t, revision |-> revision, fields |-> text, offers |-> old.offers, seeded |-> old.seeded]

(* MUTANT: the import writes the alias column too. *)
Imported_NoAliases(t, revision, text, old) ==
    [title |-> t, revision |-> revision, fields |-> text, offers |-> text, seeded |-> FALSE]

(* The row and its trade offers in one statement; aliases stay as they are. *)
Imported(t, revision, text, old) ==
    [title |-> t, revision |-> revision, fields |-> text, offers |-> text, seeded |-> old.seeded]

(* MUTANT: the revision is asked for when the row is written. *)
upsert_RevisionOfNow(r) ==
    /\ run[r].pc = "pages"
    /\ \E t \in run[r].todo :
         /\ row' = [row EXCEPT ![SlugOf[t]] =
                      Imported(t, page[t].revision, run[r].content[t].revision, row[SlugOf[t]])]
         /\ Goto(r, AfterPage(run[r], t))
    /\ UNCHANGED page

upsert(r) ==
    /\ run[r].pc = "pages"
    /\ \E t \in run[r].todo :
         /\ row' = [row EXCEPT ![SlugOf[t]] =
                      Imported(t, run[r].live[t], run[r].content[t].revision, row[SlugOf[t]])]
         /\ Goto(r, AfterPage(run[r], t))
    /\ UNCHANGED page

(* The statement is refused: the page is counted and the loop goes on. *)
upsertFails(r) ==
    /\ "database" \in Faults
    /\ run[r].pc = "pages"
    /\ \E t \in run[r].todo : Goto(r, AfterPage(run[r], t))
    /\ UNCHANGED <<page, row>>

mergeItemAliases(r) ==
    /\ run[r].pc = "aliases"
    /\ \E t \in run[r].todo :
         /\ row' = [row EXCEPT ![SlugOf[t]].seeded = row[SlugOf[t]].seeded \/ row[SlugOf[t]].title = t]
         /\ Goto(r, [run[r] EXCEPT !.todo = run[r].todo \ {t}])
    /\ UNCHANGED page

(* As done, or as failed from the catch. *)
finish(r) ==
    /\ run[r].pc = "catch" \/ (run[r].pc = "aliases" /\ run[r].todo = {})
    /\ Goto(r, NextType(run[r]))
    /\ UNCHANGED <<page, row>>

(* A rejected query outside the loop over the pages: caught once, then thrown. *)
QueryFails(r) ==
    /\ "database" \in Faults
    /\ \/ /\ run[r].pc \in {"stored", "aliases"}
          /\ Goto(r, Leave(run[r], "catch", {}))
       \/ /\ run[r].pc \in {"start", "catch"}
          /\ Goto(r, Thrown(r))
    /\ UNCHANGED <<page, row>>

(* The bot is restarted, or a command line interrupted. *)
Killed ==
    /\ "kill" \in Faults
    /\ \E gone \in {Ticks} \cup {{r} : r \in Shells} :
         /\ \E r \in gone : run[r].pc # "idle"
         /\ run' = [r \in Runs |-> IF r \in gone THEN Idle ELSE run[r]]
    /\ UNCHANGED <<page, row>>

-----------------------------------------------------------------------------
Step(r) ==
    \/ start(r) \/ enumerateTransclusions(r) \/ getRevisionMap(r) \/ fetchRevids(r)
    \/ fetchContent(r) \/ upsert(r) \/ mergeItemAliases(r) \/ finish(r)

Failure == Killed \/ \E r \in Runs : fetchApiFails(r) \/ upsertFails(r) \/ QueryFails(r)

Work ==
    \/ \E t \in Titles : Edit(t)
    \/ \E r \in Runs : Tick(r) \/ CommandLine(r) \/ Step(r)

Next == Work \/ Failure

Spec == Init /\ [][Next]_vars

(* The timer ticks, requests are answered, and outages, crashes and refusals end. *)
FairSpec ==
    /\ Spec
    /\ \A r \in Runs : WF_vars(Tick(r)) /\ WF_vars(Step(r))
    /\ <>[][Work]_vars

-----------------------------------------------------------------------------
(* Properties. *)

Pcs == {"idle", "start", "enumerate", "stored", "revids", "content", "pages", "aliases", "catch"}

(* Every variable keeps its shape; a run reads and writes only what the wiki has had. *)
TypeOK ==
    /\ page \in [Titles -> Text]
    /\ row \in [Slugs -> [title : Titles \cup {NoTitle}, revision : Nat, fields : Nat, offers : Nat,
                          seeded : BOOLEAN]]
    /\ run \in [Runs -> [pc : Pcs, types : Seq(Range(CATALOG_IMPORT_ORDER)), limit : Nat,
                         force : BOOLEAN, titles : SUBSET Titles, todo : SUBSET Titles,
                         stored : [Titles -> Nat], live : [Titles -> Nat],
                         content : [Titles -> Text]]]
    /\ \A r \in Runs : run[r].pc \in {"revids", "content", "pages"} => run[r].todo # {}

(* The revision gate is sound (wikiCatalogImporter.ts:104): a page whose stored revision *)
(* is its current one is skipped for good, so its row and the offers of that row must    *)
(* both be made of the current text, however reads, edits and runs interleave.           *)
RevisionVouches ==
    \A s \in Slugs :
       LET r == row[s]
       IN  (r.title # NoTitle /\ r.revision = page[r.title].revision)
           => (r.fields = r.revision /\ r.offers = r.revision)

(* The importer implements WikiCopy: under a row's revision there is a text at least as new. *)
Copy == INSTANCE WikiCopy WITH
            revision <- [t \in Titles |-> page[t].revision],
            copy <- [s \in Slugs |-> [title |-> row[s].title, revision |-> row[s].revision,
                                      text |-> row[s].fields]]

ImplementsCopy == Copy!CopySpec

(* Seeded aliases survive every later import of the item (catalogRepository.ts:181). *)
SeededKept ==
    [][\A s \in Slugs : row[s].seeded => row'[s].seeded]_vars

(* A row made from the text page t has now. *)
Current(s, t) == row[s].title = t /\ row[s].revision = page[t].revision /\ page[t].kind = "record"

(* Whatever failed before, once editors and outages rest every slug with an importable  *)
(* page ends up with the current text of one, and with the aliases of its seed.         *)
CopyConverges ==
    \A s \in Slugs :
       (<>[](\E t \in Titles : SlugOf[t] = s /\ page[t].kind = "record"))
       => <>[](\E t \in Titles : /\ SlugOf[t] = s /\ Current(s, t)
                                 /\ (TypeOf[t] = "item" /\ t \in Seeded) => row[s].seeded)
=============================================================================
