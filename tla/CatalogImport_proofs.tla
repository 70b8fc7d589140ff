------------------------ MODULE CatalogImport_proofs ------------------------
(***************************************************************************)
(* Proofs about CatalogImport, for every wiki, every number of overlapping *)
(* ticks and command lines, every batch size and every fault: the revision *)
(* gate is sound, and the importer implements WikiCopy.                    *)
(***************************************************************************)
EXTENDS CatalogImport, FiniteSetTheorems, TLAPS

RunState == [pc : Pcs, types : Seq(Range(CATALOG_IMPORT_ORDER)), limit : Nat, force : BOOLEAN,
             titles : SUBSET Titles, todo : SUBSET Titles,
             stored : [Titles -> Nat], live : [Titles -> Nat], content : [Titles -> Text]]

Row == [title : Titles \cup {NoTitle}, revision : Nat, fields : Nat, offers : Nat, seeded : BOOLEAN]

(* Revision ids are read before the text they are stored with. *)
IdsFirst(s) ==
    /\ \A t \in Titles : s.content[t].kind = "record" => s.live[t] <= s.content[t].revision
    /\ s.pc \notin {"content", "pages"} => \A t \in Titles : s.content[t] = NoText
    /\ s.pc = "pages" => \A t \in s.todo : s.content[t].kind = "record"

(* Nothing was read that the wiki has not had. *)
Past(s, wiki) ==
    \A t \in Titles : s.live[t] <= wiki[t].revision /\ s.content[t].revision <= wiki[t].revision

Sound(s, wiki) == s \in RunState /\ IdsFirst(s) /\ Past(s, wiki)

(* A row is made of one text, not older than its revision. *)
RowSound(o, wiki) ==
    /\ o.revision <= o.fields
    /\ o.offers = o.fields
    /\ o.title # NoTitle => o.fields <= wiki[o.title].revision

IInv ==
    /\ page \in [Titles -> Text]
    /\ row \in [Slugs -> Row]
    /\ run \in [Runs -> RunState]
    /\ \A r \in Runs : Sound(run[r], page)
    /\ \A s \in Slugs : RowSound(row[s], page)

USE TitlesAssumption, SlugAssumption, OrderAssumption, BatchAssumption

-----------------------------------------------------------------------------
LEMMA PagesFinite == Cardinality(Titles) \in Nat
  BY FS_CardinalityType

(* What a run holds is sound wherever it goes next. *)

LEMMA BlankSound ==
  ASSUME page \in [Titles -> Text], NEW pc \in Pcs \ {"content", "pages"},
         NEW types \in Seq(Range(CATALOG_IMPORT_ORDER)), NEW limit \in Nat, NEW force \in BOOLEAN
  PROVE  Sound(Blank(pc, types, limit, force), page)
  BY DEF Sound, Blank, RunState, Unknown, NoText, Text, Kinds, IdsFirst, Past

LEMMA IdleSound == ASSUME page \in [Titles -> Text] PROVE Sound(Idle, page)
  <1>1. <<>> \in Seq(Range(CATALOG_IMPORT_ORDER)) /\ "idle" \in Pcs \ {"content", "pages"}
    BY DEF Pcs
  <1>2. QED
    BY <1>1, BlankSound DEF Idle

LEMMA LeaveSound ==
  ASSUME page \in [Titles -> Text], NEW s \in RunState,
         NEW pc \in Pcs \ {"content", "pages"}, NEW todo \in SUBSET Titles
  PROVE  Sound(Leave(s, pc, todo), page)
  <1>1. Sound(Blank(pc, s.types, s.limit, s.force), page)
    BY BlankSound DEF RunState
  <1>2. QED
    BY <1>1 DEF Leave, Blank, Sound, RunState, IdsFirst, Past

LEMMA NextTypeSound ==
  ASSUME page \in [Titles -> Text], NEW s \in RunState PROVE Sound(NextType(s), page)
  <1>1. CASE Len(s.types) > 1
    <2>1. Tail(s.types) \in Seq(Range(CATALOG_IMPORT_ORDER))
      BY <1>1 DEF RunState
    <2>2. QED
      BY <1>1, <2>1, BlankSound DEF NextType, RunState, Pcs
  <1>2. CASE ~(Len(s.types) > 1)
    BY <1>2, IdleSound DEF NextType
  <1>3. QED
    BY <1>1, <1>2

LEMMA ToAliasesSound ==
  ASSUME page \in [Titles -> Text], NEW s \in RunState PROVE Sound(ToAliases(s), page)
  <1>1. (IF Head(s.types) = "item" THEN s.titles \cap Seeded ELSE {}) \in SUBSET Titles
    BY DEF RunState
  <1>2. QED
    BY <1>1, LeaveSound DEF ToAliases, Pcs

LEMMA ToPagesSound ==
  ASSUME page \in [Titles -> Text], NEW s, Sound(s, page) PROVE Sound(ToPages(s), page)
  <1>1. CASE Importable(s) = {}
    BY <1>1, ToAliasesSound DEF ToPages, Sound
  <1>2. CASE Importable(s) # {}
    <2>1. ToPages(s) = [s EXCEPT !.pc = "pages", !.todo = Importable(s)]
      BY <1>2 DEF ToPages
    <2>2. Importable(s) \in SUBSET Titles /\ \A t \in Importable(s) : s.content[t].kind = "record"
      BY DEF Importable, Changed, Sound, RunState
    <2>3. s \in RunState /\ "pages" \in Pcs
      BY DEF Sound, Pcs
    <2>4. /\ ToPages(s) \in RunState /\ ToPages(s).pc = "pages" /\ ToPages(s).todo = Importable(s)
          /\ ToPages(s).live = s.live /\ ToPages(s).content = s.content
      BY <2>1, <2>2, <2>3 DEF RunState
    <2>5. QED
      BY <2>2, <2>4 DEF Sound, IdsFirst, Past
  <1>3. QED
    BY <1>1, <1>2

LEMMA ToContentSound ==
  ASSUME page \in [Titles -> Text], NEW s, Sound(s, page), s.pc = "revids"
  PROVE  Sound(ToContent(s), page)
  <1>1. CASE Changed(s) = {}
    BY <1>1, ToAliasesSound DEF ToContent, Sound
  <1>2. CASE Changed(s) # {}
    <2>1. ToContent(s) = [s EXCEPT !.pc = "content", !.todo = Changed(s)]
      BY <1>2 DEF ToContent
    <2>2. Changed(s) \in SUBSET Titles
      BY DEF Changed, Sound, RunState
    <2>3. QED
      BY <2>1, <2>2 DEF Sound, RunState, Pcs, IdsFirst, Past
  <1>3. QED
    BY <1>1, <1>2

LEMMA ToRevidsSound ==
  ASSUME page \in [Titles -> Text], NEW s, Sound(s, page), s.pc \notin {"content", "pages"}
  PROVE  Sound(ToRevids(s), page)
  <1>1. CASE s.titles = {}
    BY <1>1, ToAliasesSound DEF ToRevids, Sound
  <1>2. CASE s.titles # {}
    <2>1. ToRevids(s) = [s EXCEPT !.pc = "revids", !.todo = s.titles]
      BY <1>2 DEF ToRevids
    <2>2. QED
      BY <2>1 DEF Sound, RunState, Pcs, IdsFirst, Past
  <1>3. QED
    BY <1>1, <1>2

-----------------------------------------------------------------------------
(* An execution moves and only touches what it may. *)

LEMMA GotoKeeps ==
  ASSUME IInv, NEW r \in Runs, NEW s, Sound(s, page), Goto(r, s), UNCHANGED <<page, row>>
  PROVE  IInv'
  <1>1. run' = [run EXCEPT ![r] = s]
    BY DEF Goto
  <1>2. s \in RunState
    BY DEF Sound
  <1>3. /\ run' \in [Runs -> RunState]
        /\ \A q \in Runs : run'[q] = IF q = r THEN s ELSE run[q]
    BY <1>1, <1>2 DEF IInv
  <1>4. \A q \in Runs : Sound(run'[q], page)
    BY <1>3 DEF IInv
  <1>5. QED
    BY <1>3, <1>4 DEF IInv

(* Only a row changes besides, to a sound one. *)
LEMMA GotoAndStore ==
  ASSUME IInv, NEW r \in Runs, NEW s, Sound(s, page), Goto(r, s), UNCHANGED page,
         NEW slug \in Slugs, NEW o \in Row, RowSound(o, page), row' = [row EXCEPT ![slug] = o]
  PROVE  IInv'
  <1>1. run' = [run EXCEPT ![r] = s] /\ s \in RunState
    BY DEF Goto, Sound
  <1>2. /\ run' \in [Runs -> RunState]
        /\ \A q \in Runs : run'[q] = IF q = r THEN s ELSE run[q]
    BY <1>1 DEF IInv
  <1>3. \A q \in Runs : Sound(run'[q], page)
    BY <1>2 DEF IInv
  <1>4. row' \in [Slugs -> Row] /\ \A q \in Slugs : row'[q] = IF q = slug THEN o ELSE row[q]
    BY DEF IInv
  <1>5. \A q \in Slugs : RowSound(row'[q], page)
    BY <1>4 DEF IInv
  <1>6. QED
    BY <1>2, <1>3, <1>4, <1>5 DEF IInv

LEMMA AfterPageSound ==
  ASSUME IInv, NEW r \in Runs, run[r].pc = "pages", NEW t \in run[r].todo
  PROVE  Sound(AfterPage(run[r], t), page)
  <1>1. Sound(run[r], page) /\ run[r] \in RunState /\ page \in [Titles -> Text]
    BY DEF IInv
  <1>2. CASE run[r].todo = {t}
    BY <1>1, <1>2, ToAliasesSound DEF AfterPage
  <1>3. CASE run[r].todo # {t}
    <2>1. AfterPage(run[r], t) = [run[r] EXCEPT !.todo = run[r].todo \ {t}]
      BY <1>3 DEF AfterPage
    <2>2. /\ AfterPage(run[r], t) \in RunState /\ AfterPage(run[r], t).pc = run[r].pc
          /\ AfterPage(run[r], t).todo = run[r].todo \ {t}
          /\ AfterPage(run[r], t).live = run[r].live /\ AfterPage(run[r], t).content = run[r].content
      BY <1>1, <2>1 DEF RunState
    <2>3. QED
      BY <1>1, <2>2 DEF Sound, IdsFirst, Past
  <1>4. QED
    BY <1>2, <1>3

(* The row an upsert writes. *)
LEMMA ImportedSound ==
  ASSUME IInv, NEW r \in Runs, run[r].pc = "pages", NEW t \in run[r].todo
  PROVE  LET o == Imported(t, run[r].live[t], run[r].content[t].revision, row[SlugOf[t]])
         IN  /\ t \in Titles /\ SlugOf[t] \in Slugs
             /\ run[r].live[t] \in Nat /\ run[r].content[t].revision \in Nat
             /\ run[r].live[t] <= run[r].content[t].revision
             /\ run[r].content[t].revision <= page[t].revision
             /\ o \in Row /\ RowSound(o, page)
  <1>1. Sound(run[r], page) /\ run[r] \in RunState
    BY DEF IInv
  <1>2. t \in Titles /\ SlugOf[t] \in Slugs
    BY <1>1 DEF RunState, Slugs
  <1>3. run[r].live[t] \in Nat /\ run[r].content[t] \in Text
    BY <1>1, <1>2 DEF RunState
  <1>4. run[r].content[t].revision \in Nat
    BY <1>3 DEF Text
  <1>5. /\ run[r].live[t] <= run[r].content[t].revision
        /\ run[r].content[t].revision <= page[t].revision
    BY <1>1, <1>2 DEF Sound, IdsFirst, Past
  <1>6. row[SlugOf[t]].seeded \in BOOLEAN
    BY <1>2 DEF IInv, Row
  <1>7. QED
    BY <1>2, <1>3, <1>4, <1>5, <1>6 DEF Imported, Row, RowSound

-----------------------------------------------------------------------------
(* One lemma for the actions that read, one for those that write. *)

LEMMA EditKeeps == ASSUME IInv, NEW t \in Titles, Edit(t) PROVE IInv' /\ Copy!Edit(t)
  <1>1. PICK k \in Kinds : page' = [page EXCEPT ![t] = [revision |-> page[t].revision + 1, kind |-> k]]
    BY DEF Edit
  <1>2. page[t].revision \in Nat
    BY DEF IInv, Text
  <1>3. [revision |-> page[t].revision + 1, kind |-> k] \in Text
    BY <1>2 DEF Text
  <1>4. /\ page' \in [Titles -> Text]
        /\ \A u \in Titles : page'[u] = IF u = t THEN [revision |-> page[t].revision + 1, kind |-> k] ELSE page[u]
    BY <1>1, <1>3 DEF IInv
  <1>5. \A u \in Titles : page[u].revision \in Nat /\ page'[u].revision \in Nat /\ page[u].revision <= page'[u].revision
    BY <1>2, <1>4 DEF IInv, Text
  <1>6. row' = row /\ run' = run
    BY DEF Edit
  <1>7. \A r \in Runs : Sound(run[r], page')
    <2> SUFFICES ASSUME NEW r \in Runs PROVE Sound(run[r], page')
      OBVIOUS
    <2>1. Sound(run[r], page) /\ run[r] \in RunState
      BY DEF IInv
    <2>2. ASSUME NEW u \in Titles
          PROVE  run[r].live[u] <= page'[u].revision /\ run[r].content[u].revision <= page'[u].revision
      <3>1. run[r].live[u] \in Nat /\ run[r].content[u] \in Text
        BY <2>1 DEF RunState
      <3>2. run[r].content[u].revision \in Nat
        BY <3>1 DEF Text
      <3>3. QED
        BY <1>5, <2>1, <3>1, <3>2 DEF Sound, Past
    <2>3. QED
      BY <2>1, <2>2 DEF Sound, Past
  <1>8. \A s \in Slugs : RowSound(row[s], page')
    <2> SUFFICES ASSUME NEW s \in Slugs PROVE RowSound(row[s], page')
      OBVIOUS
    <2>1. RowSound(row[s], page) /\ row[s] \in Row
      BY DEF IInv
    <2>2. QED
      BY <1>5, <2>1 DEF RowSound, Row
  <1>9. [u \in Titles |-> page'[u].revision] =
           [[u \in Titles |-> page[u].revision] EXCEPT ![t] = [u \in Titles |-> page[u].revision][t] + 1]
    <2> DEFINE before == [u \in Titles |-> page[u].revision]
               after == [u \in Titles |-> page'[u].revision]
    <2>1. \A u \in Titles : after[u] = IF u = t THEN before[t] + 1 ELSE before[u]
      BY <1>4
    <2>2. /\ before = [u \in Titles |-> before[u]]
          /\ after = [u \in Titles |-> after[u]]
      OBVIOUS
    <2> HIDE DEF before, after
    <2>3. after = [before EXCEPT ![t] = before[t] + 1]
      BY <2>1, <2>2
    <2>4. QED
      BY <2>3 DEF before, after
  <1>10. QED
    BY <1>4, <1>6, <1>7, <1>8, <1>9 DEF IInv, Copy!Edit

(* Every step of an execution but the two that write a row. *)
Reading(r) ==
    \/ Tick(r) \/ CommandLine(r) \/ start(r) \/ enumerateTransclusions(r) \/ getRevisionMap(r)
    \/ fetchRevids(r) \/ fetchContent(r) \/ finish(r)
    \/ fetchApiFails(r) \/ upsertFails(r) \/ QueryFails(r)

LEMMA StoredRevisionIsNat == ASSUME IInv, NEW t \in Titles PROVE StoredRevision(t) \in Nat
  <1>1. row[SlugOf[t]] \in Row
    BY DEF IInv, Slugs
  <1>2. QED
    BY <1>1 DEF StoredRevision, Row

LEMMA ReadingKeeps == ASSUME IInv, NEW r \in Runs, Reading(r) PROVE IInv' /\ UNCHANGED <<page, row>>
  <1>1. Sound(run[r], page) /\ run[r] \in RunState /\ page \in [Titles -> Text]
    BY DEF IInv
  <1>2. CASE Tick(r)
    <2>1. Sound(Blank("start", CATALOG_IMPORT_ORDER, Cardinality(Titles), FALSE), page)
      BY <1>1, BlankSound, PagesFinite DEF Pcs
    <2>2. QED
      BY <1>2, <2>1, GotoKeeps DEF Tick
  <1>3. CASE CommandLine(r)
    <2>1. PICK types \in {CATALOG_IMPORT_ORDER} \cup {<<CATALOG_IMPORT_ORDER[i]>> : i \in DOMAIN CATALOG_IMPORT_ORDER},
               limit \in Limits \cup {Cardinality(Titles)}, force \in BOOLEAN :
            Goto(r, Blank("start", types, limit, force))
      BY <1>3 DEF CommandLine
    <2>2a. \A i \in DOMAIN CATALOG_IMPORT_ORDER : CATALOG_IMPORT_ORDER[i] \in Range(CATALOG_IMPORT_ORDER)
      BY DEF Range
    <2>2b. \A x \in Range(CATALOG_IMPORT_ORDER) : <<x>> \in Seq(Range(CATALOG_IMPORT_ORDER))
      OBVIOUS
    <2>2. types \in Seq(Range(CATALOG_IMPORT_ORDER)) /\ limit \in Nat
      BY PagesFinite, <2>2a, <2>2b
    <2>3. Sound(Blank("start", types, limit, force), page)
      BY <1>1, <2>2, BlankSound DEF Pcs
    <2>4. QED
      BY <1>3, <2>1, <2>3, GotoKeeps DEF CommandLine
  <1>4. CASE start(r)
    <2>1. [run[r] EXCEPT !.pc = "enumerate"] \in RunState
      BY <1>1 DEF RunState, Pcs
    <2>2. Sound([run[r] EXCEPT !.pc = "enumerate"], page)
      BY <1>1, <1>4, <2>1 DEF start, Sound, RunState, IdsFirst, Past
    <2>3. QED
      BY <1>4, <2>2, GotoKeeps DEF start
  <1>5. CASE enumerateTransclusions(r)
    <2>1. PICK titles \in FirstOf(Transcluding(Head(run[r].types)), run[r].limit) :
            LET s == [run[r] EXCEPT !.titles = titles]
            IN  Goto(r, IF s.force THEN ToRevids(s) ELSE [s EXCEPT !.pc = "stored"])
      BY <1>5 DEF enumerateTransclusions
    <2>2. titles \in SUBSET Titles
      BY DEF FirstOf, Transcluding
    <2> DEFINE s == [run[r] EXCEPT !.titles = titles]
    <2>3. s \in RunState /\ s.pc = run[r].pc /\ s.live = run[r].live /\ s.content = run[r].content /\ s.todo = run[r].todo
      BY <1>1, <2>2 DEF RunState
    <2>4. Goto(r, IF s.force THEN ToRevids(s) ELSE [s EXCEPT !.pc = "stored"])
      BY <2>1
    <2> HIDE DEF s
    <2>5. Sound(s, page) /\ s.pc = "enumerate"
      BY <1>1, <1>5, <2>3 DEF enumerateTransclusions, Sound, IdsFirst, Past
    <2>6. Sound(ToRevids(s), page)
      BY <1>1, <2>5, ToRevidsSound
    <2>7. Sound([s EXCEPT !.pc = "stored"], page)
      BY <2>5 DEF Sound, RunState, Pcs, IdsFirst, Past
    <2>8. QED
      BY <1>5, <2>4, <2>6, <2>7, GotoKeeps DEF enumerateTransclusions
  <1>6. CASE getRevisionMap(r)
    <2> DEFINE s == [run[r] EXCEPT !.stored = [t \in Titles |-> StoredRevision(t)]]
    <2>1. [t \in Titles |-> StoredRevision(t)] \in [Titles -> Nat]
      BY StoredRevisionIsNat
    <2>2. s \in RunState /\ s.pc = run[r].pc /\ s.live = run[r].live /\ s.content = run[r].content /\ s.todo = run[r].todo
      BY <1>1, <2>1 DEF RunState
    <2>3. Goto(r, ToRevids(s)) /\ run[r].pc = "stored" /\ UNCHANGED <<page, row>>
      BY <1>6 DEF getRevisionMap
    <2> HIDE DEF s
    <2>4. Sound(s, page) /\ s.pc = "stored"
      BY <1>1, <2>2, <2>3 DEF Sound, IdsFirst, Past
    <2>5. QED
      BY <1>1, <2>3, <2>4, ToRevidsSound, GotoKeeps
  <1>7. CASE fetchRevids(r)
    <2>1. PICK batch \in FirstOf(run[r].todo, TitleBatch) :
            LET s == [run[r] EXCEPT !.todo = run[r].todo \ batch,
                        !.live = [t \in Titles |-> IF t \in batch /\ page[t].kind # "absent"
                                                   THEN page[t].revision ELSE run[r].live[t]]]
            IN  Goto(r, IF s.todo = {} THEN ToContent(s) ELSE s)
      BY <1>7 DEF fetchRevids
    <2> DEFINE live == [t \in Titles |-> IF t \in batch /\ page[t].kind # "absent"
                                          THEN page[t].revision ELSE run[r].live[t]]
               s == [run[r] EXCEPT !.todo = run[r].todo \ batch, !.live = live]
    <2>2. Goto(r, IF s.todo = {} THEN ToContent(s) ELSE s)
      BY <2>1
    <2>3. \A t \in Titles : page[t].revision \in Nat
      BY <1>1 DEF Text
    <2>4. live \in [Titles -> Nat] /\ \A t \in Titles : live[t] <= page[t].revision
      BY <1>1, <2>3 DEF Sound, RunState, Past
    <2> HIDE DEF live
    <2>5. s \in RunState /\ s.pc = run[r].pc /\ s.live = live /\ s.content = run[r].content
      BY <1>1, <2>4 DEF RunState
    <2> HIDE DEF s
    <2>6. run[r].pc = "revids" /\ \A t \in Titles : s.content[t] = NoText
      BY <1>1, <1>7, <2>5 DEF fetchRevids, Sound, IdsFirst
    <2>7. Sound(s, page) /\ s.pc = "revids"
      BY <1>1, <2>4, <2>5, <2>6 DEF Sound, IdsFirst, Past, NoText
    <2>8. Sound(ToContent(s), page)
      BY <1>1, <2>7, ToContentSound
    <2>9. QED
      BY <1>7, <2>2, <2>7, <2>8, GotoKeeps DEF fetchRevids
  <1>8. CASE fetchContent(r)
    <2>1. PICK batch \in FirstOf(run[r].todo, TitleBatch) :
            LET s == [run[r] EXCEPT !.todo = run[r].todo \ batch,
                        !.content = [t \in Titles |-> IF t \in batch THEN page[t] ELSE run[r].content[t]]]
            IN  Goto(r, IF s.todo = {} THEN ToPages(s) ELSE s)
      BY <1>8 DEF fetchContent
    <2> DEFINE content == [t \in Titles |-> IF t \in batch THEN page[t] ELSE run[r].content[t]]
               s == [run[r] EXCEPT !.todo = run[r].todo \ batch, !.content = content]
    <2>2. Goto(r, IF s.todo = {} THEN ToPages(s) ELSE s)
      BY <2>1
    <2>3. \A t \in Titles : page[t].revision \in Nat
      BY <1>1 DEF Text
    <2>4. /\ content \in [Titles -> Text]
          /\ \A t \in Titles : content[t].revision <= page[t].revision
          /\ \A t \in Titles : content[t].kind = "record" => run[r].live[t] <= content[t].revision
      BY <1>1, <2>3 DEF Sound, RunState, Past, IdsFirst
    <2> HIDE DEF content
    <2>5. s \in RunState /\ s.pc = run[r].pc /\ s.live = run[r].live /\ s.content = content
      BY <1>1, <2>4 DEF RunState
    <2> HIDE DEF s
    <2>6. Sound(s, page)
      BY <1>1, <1>8, <2>4, <2>5 DEF fetchContent, Sound, IdsFirst, Past
    <2>7. Sound(ToPages(s), page)
      BY <1>1, <2>6, ToPagesSound
    <2>8. QED
      BY <1>8, <2>2, <2>6, <2>7, GotoKeeps DEF fetchContent
  <1>9. CASE finish(r)
    BY <1>1, <1>9, NextTypeSound, GotoKeeps DEF finish
  <1>10. CASE fetchApiFails(r)
    <2>1. Sound(Leave(run[r], "catch", {}), page)
      BY <1>1, LeaveSound DEF Pcs
    <2>2. QED
      BY <1>10, <2>1, GotoKeeps DEF fetchApiFails
  <1>11. CASE upsertFails(r)
    <2>1. PICK t \in run[r].todo : Goto(r, AfterPage(run[r], t))
      BY <1>11 DEF upsertFails
    <2>2. QED
      BY <1>11, <2>1, AfterPageSound, GotoKeeps DEF upsertFails
  <1>12. CASE QueryFails(r)
    <2>1. Sound(Leave(run[r], "catch", {}), page)
      BY <1>1, LeaveSound DEF Pcs
    <2>2. Sound(Thrown(r), page)
      BY <1>1, IdleSound, NextTypeSound DEF Thrown
    <2>3. QED
      BY <1>12, <2>1, <2>2, GotoKeeps DEF QueryFails
  <1>13. QED
    BY <1>2, <1>3, <1>4, <1>5, <1>6, <1>7, <1>8, <1>9, <1>10, <1>11, <1>12
       DEF Reading, Tick, CommandLine, start, enumerateTransclusions, getRevisionMap, fetchRevids,
           fetchContent, finish, fetchApiFails, upsertFails, QueryFails

LEMMA UpsertKeeps ==
  ASSUME IInv, NEW r \in Runs, upsert(r)
  PROVE  IInv' /\ \E slug \in Slugs, t \in Titles : \E v \in 0..page[t].revision : \E n \in 0..v :
                     /\ UNCHANGED page
                     /\ row' = [row EXCEPT ![slug] = Imported(t, n, v, row[slug])]
  <1>1. PICK t \in run[r].todo :
          /\ row' = [row EXCEPT ![SlugOf[t]] =
                       Imported(t, run[r].live[t], run[r].content[t].revision, row[SlugOf[t]])]
          /\ Goto(r, AfterPage(run[r], t))
    BY DEF upsert
  <1>2. run[r].pc = "pages" /\ UNCHANGED page
    BY DEF upsert
  <1> DEFINE n == run[r].live[t]
             v == run[r].content[t].revision
             o == Imported(t, n, v, row[SlugOf[t]])
  <1>3. /\ t \in Titles /\ SlugOf[t] \in Slugs /\ n \in Nat /\ v \in Nat
        /\ n <= v /\ v <= page[t].revision /\ o \in Row /\ RowSound(o, page)
    BY <1>2, ImportedSound
  <1>4. page[t].revision \in Nat
    BY <1>3 DEF IInv, Text
  <1>5. row' = [row EXCEPT ![SlugOf[t]] = o] /\ Goto(r, AfterPage(run[r], t))
    BY <1>1
  <1>6. Sound(AfterPage(run[r], t), page)
    BY <1>2, AfterPageSound
  <1>7. IInv'
    <2> HIDE DEF o
    <2>1. QED
      BY <1>2, <1>3, <1>5, <1>6, GotoAndStore
  <1>8. v \in 0..page[t].revision /\ n \in 0..v
    BY <1>3, <1>4
  <1>9. QED
    BY <1>2, <1>3, <1>5, <1>7, <1>8

LEMMA MergeKeeps ==
  ASSUME IInv, NEW r \in Runs, mergeItemAliases(r)
  PROVE  IInv' /\ UNCHANGED page /\ \E slug \in Slugs, b \in BOOLEAN :
                     row' = [row EXCEPT ![slug] = [row[slug] EXCEPT !.seeded = b]]
  <1>1. PICK t \in run[r].todo :
          /\ row' = [row EXCEPT ![SlugOf[t]].seeded = row[SlugOf[t]].seeded \/ row[SlugOf[t]].title = t]
          /\ Goto(r, [run[r] EXCEPT !.todo = run[r].todo \ {t}])
    BY DEF mergeItemAliases
  <1>2. run[r].pc = "aliases" /\ UNCHANGED page /\ Sound(run[r], page) /\ run[r] \in RunState
    BY DEF mergeItemAliases, IInv
  <1>3. t \in Titles /\ SlugOf[t] \in Slugs
    BY <1>2 DEF RunState, Slugs
  <1> DEFINE slug == SlugOf[t]
             b == row[slug].seeded \/ row[slug].title = t
             o == [row[slug] EXCEPT !.seeded = b]
  <1>4. row[slug] \in Row /\ RowSound(row[slug], page)
    BY <1>3 DEF IInv
  <1>5. b \in BOOLEAN
    BY <1>4 DEF Row
  <1>6. row' = [row EXCEPT ![slug] = o]
    BY <1>1
  <1> HIDE DEF b
  <1>7. o \in Row /\ RowSound(o, page)
    BY <1>4, <1>5 DEF Row, RowSound
  <1>8. Sound([run[r] EXCEPT !.todo = run[r].todo \ {t}], page)
    BY <1>2 DEF Sound, RunState, IdsFirst, Past
  <1>9. IInv'
    <2> HIDE DEF o
    <2>1. QED
      BY <1>1, <1>2, <1>3, <1>6, <1>7, <1>8, GotoAndStore DEF mergeItemAliases
  <1>10. QED
    BY <1>2, <1>3, <1>5, <1>6, <1>9

LEMMA KilledKeeps == ASSUME IInv, Killed PROVE IInv' /\ UNCHANGED <<page, row>>
  <1>1. PICK gone : run' = [r \in Runs |-> IF r \in gone THEN Idle ELSE run[r]]
    BY DEF Killed
  <1>2. UNCHANGED <<page, row>>
    BY DEF Killed
  <1>3. page \in [Titles -> Text]
    BY DEF IInv
  <1>4. Sound(Idle, page) /\ Idle \in RunState
    BY <1>3, IdleSound DEF Sound
  <1>5. run' \in [Runs -> RunState] /\ \A r \in Runs : Sound(run'[r], page)
    BY <1>1, <1>4 DEF IInv
  <1>6. QED
    BY <1>2, <1>5 DEF IInv

-----------------------------------------------------------------------------
(* The rows as WikiCopy sees them. *)

CopyOf(o) == [title |-> o.title, revision |-> o.revision, text |-> o.fields]

LEMMA InitSound == Init => IInv /\ Copy!CopyInit
  <1> SUFFICES ASSUME Init PROVE IInv /\ Copy!CopyInit
    OBVIOUS
  <1>1. page \in [Titles -> Text]
    BY DEF Init, Text
  <1>2. NoRow \in Row /\ RowSound(NoRow, page)
    BY DEF NoRow, Row, RowSound
  <1>3. row \in [Slugs -> Row] /\ \A s \in Slugs : RowSound(row[s], page)
    BY <1>2 DEF Init
  <1>4. Sound(Idle, page) /\ Idle \in RunState
    BY <1>1, IdleSound DEF Sound
  <1>5. run \in [Runs -> RunState] /\ \A r \in Runs : Sound(run[r], page)
    BY <1>4 DEF Init
  <1>6. [t \in Titles |-> page[t].revision] \in [Titles -> Nat]
    BY <1>1 DEF Text
  <1>7. CopyOf(NoRow) = Copy!EmptyRow
    BY DEF CopyOf, NoRow, Copy!EmptyRow
  <1>8. [s \in Slugs |-> CopyOf(row[s])] = [s \in Slugs |-> Copy!EmptyRow]
    BY <1>7 DEF Init
  <1>9. QED
    BY <1>1, <1>3, <1>5, <1>6, <1>8 DEF IInv, Copy!CopyInit, CopyOf

(* One row changes: so does its copy, and no other. *)
LEMMA CopyOfRow ==
  ASSUME NEW table \in [Slugs -> Row], NEW slug \in Slugs, NEW o
  PROVE  [s \in Slugs |-> CopyOf([table EXCEPT ![slug] = o][s])]
           = [[s \in Slugs |-> CopyOf(table[s])] EXCEPT ![slug] = CopyOf(o)]
  <1> DEFINE new == [table EXCEPT ![slug] = o]
             copies == [s \in Slugs |-> CopyOf(table[s])]
  <1>1. \A s \in Slugs : new[s] = IF s = slug THEN o ELSE table[s]
    OBVIOUS
  <1> HIDE DEF new
  <1>2. [s \in Slugs |-> CopyOf(new[s])] = [s \in Slugs |-> IF s = slug THEN CopyOf(o) ELSE copies[s]]
    BY <1>1
  <1>3. [copies EXCEPT ![slug] = CopyOf(o)] = [s \in Slugs |-> IF s = slug THEN CopyOf(o) ELSE copies[s]]
    OBVIOUS
  <1>4. QED
    BY <1>2, <1>3 DEF new

LEMMA StoreImplements ==
  ASSUME IInv, NEW slug \in Slugs, NEW t \in Titles,
         NEW v \in 0..page[t].revision, NEW n \in 0..v, UNCHANGED page,
         row' = [row EXCEPT ![slug] = Imported(t, n, v, row[slug])]
  PROVE  Copy!Store(slug, t, n, v)
  <1>1. row \in [Slugs -> Row]
    BY DEF IInv
  <1>2. CopyOf(Imported(t, n, v, row[slug])) = [title |-> t, revision |-> n, text |-> v]
    BY DEF CopyOf, Imported
  <1>3. [s \in Slugs |-> CopyOf(row'[s])]
          = [[s \in Slugs |-> CopyOf(row[s])] EXCEPT ![slug] = [title |-> t, revision |-> n, text |-> v]]
    BY <1>1, <1>2, CopyOfRow
  <1>4. QED
    BY <1>3 DEF CopyOf, Copy!Store

LEMMA MergeImplements ==
  ASSUME IInv, NEW slug \in Slugs, NEW b, UNCHANGED page,
         row' = [row EXCEPT ![slug] = [row[slug] EXCEPT !.seeded = b]]
  PROVE  UNCHANGED Copy!copyVars
  <1>1. row \in [Slugs -> Row] /\ row[slug] \in Row
    BY DEF IInv
  <1>2. CopyOf([row[slug] EXCEPT !.seeded = b]) = CopyOf(row[slug])
    BY <1>1 DEF CopyOf, Row
  <1> DEFINE copies == [s \in Slugs |-> CopyOf(row[s])]
  <1>3. [s \in Slugs |-> CopyOf(row'[s])] = [copies EXCEPT ![slug] = copies[slug]]
    BY <1>1, <1>2, CopyOfRow
  <1>4. copies = [s \in Slugs |-> copies[s]]
    OBVIOUS
  <1> HIDE DEF copies
  <1>5. [copies EXCEPT ![slug] = copies[slug]] = copies
    BY <1>4
  <1>6. [s \in Slugs |-> CopyOf(row'[s])] = [s \in Slugs |-> CopyOf(row[s])]
    BY <1>3, <1>5 DEF copies
  <1>7. QED
    BY <1>6 DEF CopyOf, Copy!copyVars

LEMMA StepSound == ASSUME IInv, Next PROVE IInv' /\ [Copy!CopyNext]_(Copy!copyVars)
  <1>1. CASE \E t \in Titles : Edit(t)
    <2>1. PICK t \in Titles : Edit(t)
      BY <1>1
    <2>2. IInv' /\ Copy!Edit(t)
      BY <2>1, EditKeeps
    <2>3. QED
      BY <2>2 DEF Copy!CopyNext
  <1>2. CASE Killed
    <2>1. IInv' /\ UNCHANGED <<page, row>>
      BY <1>2, KilledKeeps
    <2>2. UNCHANGED Copy!copyVars
      BY <2>1 DEF Copy!copyVars
    <2>3. QED
      BY <2>1, <2>2
  <1>3. ASSUME NEW r \in Runs, Reading(r) PROVE IInv' /\ [Copy!CopyNext]_(Copy!copyVars)
    <2>1. IInv' /\ UNCHANGED <<page, row>>
      BY <1>3, ReadingKeeps
    <2>2. UNCHANGED Copy!copyVars
      BY <2>1 DEF Copy!copyVars
    <2>3. QED
      BY <2>1, <2>2
  <1>4. ASSUME NEW r \in Runs, upsert(r) PROVE IInv' /\ [Copy!CopyNext]_(Copy!copyVars)
    <2>1. PICK slug \in Slugs, t \in Titles : \E v \in 0..page[t].revision : \E n \in 0..v :
             UNCHANGED page /\ row' = [row EXCEPT ![slug] = Imported(t, n, v, row[slug])]
      BY <1>4, UpsertKeeps
    <2>2. PICK v \in 0..page[t].revision : \E n \in 0..v :
             UNCHANGED page /\ row' = [row EXCEPT ![slug] = Imported(t, n, v, row[slug])]
      BY <2>1
    <2>3. PICK n \in 0..v :
             UNCHANGED page /\ row' = [row EXCEPT ![slug] = Imported(t, n, v, row[slug])]
      BY <2>2
    <2>4. Copy!Store(slug, t, n, v)
      BY <2>3, StoreImplements
    <2>5. v \in 0..[u \in Titles |-> page[u].revision][t]
      OBVIOUS
    <2>6. Copy!CopyNext
      BY <2>4, <2>5 DEF Copy!CopyNext
    <2>7. QED
      BY <1>4, <2>6, UpsertKeeps
  <1>5. ASSUME NEW r \in Runs, mergeItemAliases(r) PROVE IInv' /\ [Copy!CopyNext]_(Copy!copyVars)
    <2>1. PICK slug \in Slugs, b \in BOOLEAN : row' = [row EXCEPT ![slug] = [row[slug] EXCEPT !.seeded = b]]
      BY <1>5, MergeKeeps
    <2>2. IInv' /\ UNCHANGED page
      BY <1>5, MergeKeeps
    <2>3. UNCHANGED Copy!copyVars
      BY <2>1, <2>2, MergeImplements
    <2>4. QED
      BY <2>2, <2>3
  <1>6. QED
    BY <1>1, <1>2, <1>3, <1>4, <1>5 DEF Next, Work, Step, Failure, Reading

LEMMA StutterSound == ASSUME IInv, UNCHANGED vars PROVE IInv' /\ UNCHANGED Copy!copyVars
  BY DEF vars, IInv, Copy!copyVars

THEOREM InductiveInvariant == Spec => []IInv
  <1>1. Init => IInv
    BY InitSound
  <1>2. IInv /\ [Next]_vars => IInv'
    BY StepSound, StutterSound
  <1>3. QED
    BY <1>1, <1>2, PTL DEF Spec

(* The revision gate: a row whose revision is the page's current one is made of the   *)
(* current text, fields and offers (wikiCatalogImporter.ts:104).  Whatever has been   *)
(* read or written in between, revision <= text <= the page's revision.               *)
THEOREM GateIsSound == Spec => []RevisionVouches
  <1>1. ASSUME IInv PROVE RevisionVouches
    <2> SUFFICES ASSUME NEW s \in Slugs, row[s].title # NoTitle, row[s].revision = page[row[s].title].revision
                 PROVE  row[s].fields = row[s].revision /\ row[s].offers = row[s].revision
      BY DEF RevisionVouches
    <2>1. row[s] \in Row /\ RowSound(row[s], page)
      BY <1>1 DEF IInv
    <2>2. row[s].revision \in Nat /\ row[s].fields \in Nat
      BY <2>1 DEF Row
    <2>3. QED
      BY <2>1, <2>2 DEF RowSound
  <1>2. QED
    BY <1>1, InductiveInvariant, PTL

(* The importer, with the run of every failure it has, implements WikiCopy. *)
THEOREM ImportImplementsCopy == Spec => ImplementsCopy
  <1>1. Init => Copy!CopyInit
    BY InitSound
  <1>2. IInv /\ [Next]_vars => [Copy!CopyNext]_(Copy!copyVars)
    BY StepSound, StutterSound
  <1>3. QED
    BY <1>1, <1>2, InductiveInvariant, PTL DEF Spec, ImplementsCopy, Copy!CopySpec

(* An import takes the aliases of a row along, a merge adds to them. *)
LEMMA SeededStays ==
  ASSUME IInv, [Next]_vars, NEW s \in Slugs, row[s].seeded
  PROVE  row'[s].seeded
  <1>1. row \in [Slugs -> Row]
    BY DEF IInv
  <1>2. CASE UNCHANGED row
    BY <1>2
  <1>3. ASSUME NEW r \in Runs, upsert(r) PROVE row'[s].seeded
    <2>1. \E slug \in Slugs : \E t, n, v : row' = [row EXCEPT ![slug] = Imported(t, n, v, row[slug])]
      BY <1>3, UpsertKeeps
    <2>2. PICK slug \in Slugs : \E t, n, v : row' = [row EXCEPT ![slug] = Imported(t, n, v, row[slug])]
      BY <2>1
    <2>3. PICK t, n, v : row' = [row EXCEPT ![slug] = Imported(t, n, v, row[slug])]
      BY <2>2
    <2>4. PICK o : o = Imported(t, n, v, row[slug])
      OBVIOUS
    <2>5. o.seeded = row[slug].seeded
      BY <2>4 DEF Imported
    <2>6. row'[s] = IF s = slug THEN o ELSE row[s]
      BY <1>1, <2>3, <2>4
    <2>7. QED
      BY <2>5, <2>6
  <1>4. ASSUME NEW r \in Runs, mergeItemAliases(r) PROVE row'[s].seeded
    <2>1. PICK t \in run[r].todo :
            row' = [row EXCEPT ![SlugOf[t]].seeded = row[SlugOf[t]].seeded \/ row[SlugOf[t]].title = t]
      BY <1>4 DEF mergeItemAliases
    <2>2. PICK slug, b : slug = SlugOf[t] /\ b = (row[slug].seeded \/ row[slug].title = t)
      OBVIOUS
    <2>3. PICK o : o = [row[slug] EXCEPT !.seeded = b]
      OBVIOUS
    <2>4. row' = [row EXCEPT ![slug] = o]
      BY <2>1, <2>2, <2>3
    <2>5. row'[s] = IF s = slug THEN o ELSE row[s]
      BY <1>1, <2>4
    <2>6. CASE s = slug
      <3>1. b
        BY <2>2, <2>6
      <3>2. row[s] \in Row
        BY <1>1
      <3>3. o.seeded = b
        BY <2>3, <2>6, <3>2 DEF Row
      <3>4. QED
        BY <2>5, <2>6, <3>1, <3>3
    <2>7. QED
      BY <2>5, <2>6
  <1>5. ASSUME NEW r \in Runs, Reading(r) PROVE UNCHANGED row
    BY <1>5, ReadingKeeps
  <1>6. ASSUME NEW t \in Titles, Edit(t) PROVE UNCHANGED row
    BY <1>6 DEF Edit
  <1>7. CASE Killed
    BY <1>2, <1>7, KilledKeeps
  <1>8. CASE UNCHANGED vars
    BY <1>2, <1>8 DEF vars
  <1>9. QED
    BY <1>3, <1>4, <1>5, <1>6, <1>7, <1>8 DEF Next, Work, Step, Failure, Reading

(* Aliases once merged into a row survive every later import of it, of whatever page with  *)
(* its slug (catalogRepository.ts:181).                                                    *)
THEOREM SeededSurvives == Spec => SeededKept
  <1>1. IInv /\ [Next]_vars => [\A s \in Slugs : row[s].seeded => row'[s].seeded]_vars
    BY SeededStays
  <1>2. QED
    BY <1>1, InductiveInvariant, PTL DEF Spec, SeededKept
=============================================================================
