----------------------- MODULE QuestCompanion_proofs -----------------------
(***************************************************************************)
(* Proofs about the quest importer and the companion, for every corpus,    *)
(* however many imports and commands overlap and whatever fails: the       *)
(* importer implements WikiCopy, what a player has said is kept, and what  *)
(* the companion tells and counts is what is stored.                       *)
(***************************************************************************)
EXTENDS QuestCompanion, Integers, FiniteSets, FiniteSetTheorems, TLAPS

(* How many there can be: what one step adds to a finite set and takes from it. *)

(* A part of a finite set is finite and no larger. *)
LEMMA PartOf ==
  ASSUME NEW S, IsFiniteSet(S), NEW T, T \subseteq S
  PROVE  /\ IsFiniteSet(T) /\ Cardinality(T) \in Nat
         /\ Cardinality(S) \in Nat /\ Cardinality(T) <= Cardinality(S)
  <1>1. IsFiniteSet(T) /\ Cardinality(T) <= Cardinality(S)
    BY FS_Subset
  <1>2. QED
    BY <1>1, FS_CardinalityType

(* What gains at most one element counts at most one more. *)
LEMMA OneMore ==
  ASSUME NEW S, IsFiniteSet(S), NEW x, NEW T, T \subseteq S \cup {x}
  PROVE  /\ IsFiniteSet(T) /\ Cardinality(T) \in Nat
         /\ Cardinality(S) \in Nat /\ Cardinality(T) <= Cardinality(S) + 1
  <1>1. /\ IsFiniteSet(S \cup {x})
        /\ Cardinality(S \cup {x}) = IF x \in S THEN Cardinality(S) ELSE Cardinality(S) + 1
    BY FS_AddElement
  <1>2. Cardinality(S) \in Nat
    BY FS_CardinalityType
  <1>3. /\ IsFiniteSet(T) /\ Cardinality(T) \in Nat
        /\ Cardinality(T) <= Cardinality(S \cup {x})
    BY <1>1, PartOf
  <1>4. QED
    BY <1>1, <1>2, <1>3

-----------------------------------------------------------------------------

(* The importer: a text is never newer than its page, nor older than the revision stored with it. *)
ImportPcs == {"idle", "stored", "revids", "page", "spoiler", "spend", "rewrite", "record", "upsert"}
PageState == [revision : Nat, spoiler : Nat]
QuestRow == [text : Nat, revision : Nat, source : Nat, steps : Nat, malformed : BOOLEAN]
ImportState ==
    [pc : ImportPcs, todo : SUBSET Quests, stored : [Quests -> Nat], live : [Quests -> Nat],
     at : SUBSET Quests, new : QuestRow]

RowSound(row, q, wiki) == row \in QuestRow /\ row.revision <= row.text /\ row.text <= wiki[q].revision
AtPage(s) == s.pc \in {"spoiler", "spend", "rewrite", "record", "upsert"}
RunSound(s, wiki) ==
    /\ s \in ImportState
    /\ \A q \in Quests : s.live[q] <= wiki[q].revision
    /\ AtPage(s) => s.at # {}
    /\ s.new.revision <= s.new.text
    /\ \A q \in s.at : RowSound(s.new, q, wiki)

ImportOK ==
    /\ page \in [Quests -> PageState]
    /\ quest \in [Quests -> QuestRow]
    /\ import \in [Imports -> ImportState]
    /\ spent \in Nat
    /\ \A q \in Quests : RowSound(quest[q], q, page)
    /\ \A r \in Imports : RunSound(import[r], page)

(* No row is a sound one. *)
LEMMA NoQuestSound == NoQuest \in QuestRow /\ NoQuest.revision = 0 /\ NoQuest.text = 0
  BY DEF NoQuest, QuestRow

(* A run that has not begun. *)
LEMMA IdleSound == ASSUME page \in [Quests -> PageState] PROVE RunSound(Idle, page)
  <1>1. Idle \in ImportState
    BY NoQuestSound DEF Idle, ImportState, ImportPcs, Unknown
  <1>2. /\ Idle.pc = "idle" /\ Idle.at = {} /\ Idle.new = NoQuest
        /\ \A q \in Quests : Idle.live[q] = 0
    BY DEF Idle, Unknown
  <1>3. \A q \in Quests : 0 <= page[q].revision
    BY DEF PageState
  <1>4. QED
    BY <1>1, <1>2, <1>3, NoQuestSound DEF RunSound, AtPage

(* A run goes on with what is sound, and nothing is written. *)
LEMMA ThenKeeps ==
  ASSUME ImportOK, NEW r \in Imports, NEW s, RunSound(s, page), Then(r, s), UNCHANGED <<page, quest>>,
         spent' \in Nat
  PROVE  ImportOK'
  <1>1. import' = [import EXCEPT ![r] = s] /\ s \in ImportState
    BY DEF Then, RunSound
  <1>2. /\ import' \in [Imports -> ImportState]
        /\ \A q \in Imports : import'[q] = IF q = r THEN s ELSE import[q]
    BY <1>1 DEF ImportOK
  <1>3. \A q \in Imports : RunSound(import'[q], page)
    BY <1>2 DEF ImportOK
  <1>4. QED
    BY <1>2, <1>3 DEF ImportOK

(* What a run has in its hands once it looks at a page. *)
LEMMA AtHand ==
  ASSUME ImportOK, NEW r \in Imports
  PROVE  /\ import[r] \in ImportState /\ RunSound(import[r], page)
         /\ import[r].new \in QuestRow /\ New(r) = import[r].new
         /\ AtPage(import[r]) => Page(r) \in Quests /\ Page(r) \in import[r].at
  <1>1. import[r] \in ImportState /\ RunSound(import[r], page)
    BY DEF ImportOK
  <1>2. import[r].new \in QuestRow /\ import[r].at \subseteq Quests
    BY <1>1 DEF ImportState
  <1>3. AtPage(import[r]) => \E q \in Quests : q \in import[r].at
    BY <1>1, <1>2 DEF RunSound
  <1>4. QED
    BY <1>1, <1>2, <1>3 DEF New, Page

(* The same page, with other content or none yet: what a run makes of its own state. *)
LEMMA MovesOn ==
  ASSUME ImportOK, NEW r \in Imports, NEW pc \in ImportPcs, NEW new \in QuestRow,
         new.revision <= new.text, new.text <= import[r].new.text, AtPage(import[r])
  PROVE  RunSound([import[r] EXCEPT !.pc = pc, !.new = new], page)
  <1> DEFINE s == [import[r] EXCEPT !.pc = pc, !.new = new]
  <1>1. import[r] \in ImportState /\ RunSound(import[r], page)
    BY AtHand
  <1>2. s \in ImportState
    BY <1>1 DEF ImportState
  <1>3. s.new = new /\ s.at = import[r].at /\ s.live = import[r].live
    BY <1>1 DEF ImportState
  <1> HIDE DEF s
  <1>4. ASSUME NEW q \in s.at PROVE RowSound(s.new, q, page)
    <2>1. RowSound(import[r].new, q, page) /\ q \in Quests
      BY <1>1, <1>3, <1>4 DEF RunSound, ImportState
    <2>2. new.text \in Nat /\ import[r].new.text \in Nat /\ page[q].revision \in Nat
      BY <2>1 DEF RowSound, QuestRow, ImportOK, PageState
    <2>3. QED
      BY <1>3, <2>1, <2>2 DEF RowSound
  <1>5. s.at # {}
    BY <1>1, <1>3 DEF RunSound
  <1>6. RunSound(s, page)
    BY <1>1, <1>2, <1>3, <1>4, <1>5 DEF RunSound
  <1>7. QED
    BY <1>6 DEF s

LEMMA NextPageSound ==
  ASSUME ImportOK, NEW r \in Imports, NextPage(r)
  PROVE  \E s : Then(r, s) /\ RunSound(s, page)
  <1>1. import[r] \in ImportState /\ RunSound(import[r], page)
    BY AtHand
  <1>2. CASE import[r].todo = {}
    <2>1. Then(r, Idle)
      BY <1>2 DEF NextPage
    <2>2. RunSound(Idle, page)
      BY IdleSound DEF ImportOK
    <2>3. QED
      BY <2>1, <2>2
  <1>3. CASE import[r].todo # {}
    <2> DEFINE s == [import[r] EXCEPT !.pc = "page", !.at = {}, !.new = NoQuest]
    <2>1. Then(r, s)
      BY <1>3 DEF NextPage
    <2>2. s \in ImportState
      BY <1>1, NoQuestSound DEF ImportState, ImportPcs
    <2>3. s.pc = "page" /\ s.at = {} /\ s.new = NoQuest /\ s.live = import[r].live
      BY <1>1 DEF ImportState
    <2> HIDE DEF s
    <2>4. RunSound(s, page)
      BY <1>1, <2>2, <2>3, NoQuestSound DEF RunSound, AtPage
    <2>5. QED
      BY <2>1, <2>4
  <1>4. QED
    BY <1>2, <1>3

(* A run goes on with what it has. *)
LEMMA OnSound ==
  ASSUME ImportOK, NEW r \in Imports, NEW pc \in ImportPcs,
         pc \in {"idle", "stored", "revids", "page"} \/ AtPage(import[r])
  PROVE  RunSound([import[r] EXCEPT !.pc = pc], page)
  <1> DEFINE s == [import[r] EXCEPT !.pc = pc]
  <1>1. import[r] \in ImportState /\ RunSound(import[r], page)
    BY AtHand
  <1>2. s \in ImportState
    BY <1>1 DEF ImportState
  <1>3. s.pc = pc /\ s.new = import[r].new /\ s.at = import[r].at /\ s.live = import[r].live
    BY <1>1 DEF ImportState
  <1> HIDE DEF s
  <1>4. AtPage(s) => s.at # {}
    BY <1>1, <1>3 DEF RunSound, AtPage
  <1>5. RunSound(s, page)
    BY <1>1, <1>2, <1>3, <1>4 DEF RunSound
  <1>6. QED
    BY <1>5 DEF s

(* Every step of an import but the one that writes a row. *)
ImportReads(r) ==
    \/ start(r) \/ sourceRevisions(r) \/ fetchRevids(r) \/ fetchContent(r) \/ fetchSpoiler(r)
    \/ globalSpend(r) \/ rewriteSteps(r) \/ recordDistillUsage(r)
    \/ pageFails(r) \/ overviewFails(r) \/ runFails(r)

LEMMA ImportReadsKeep ==
  ASSUME ImportOK, NEW r \in Imports, ImportReads(r)
  PROVE  ImportOK' /\ UNCHANGED <<page, quest>>
  <1>1. import[r] \in ImportState /\ RunSound(import[r], page) /\ import[r].new \in QuestRow
        /\ New(r) = import[r].new
    BY AtHand
  <1>2. page \in [Quests -> PageState] /\ quest \in [Quests -> QuestRow] /\ spent \in Nat
    BY DEF ImportOK
  <1>3. ASSUME NEW s, Then(r, s), RunSound(s, page), UNCHANGED <<page, quest>>, spent' \in Nat
        PROVE  ImportOK' /\ UNCHANGED <<page, quest>>
    BY <1>3, ThenKeeps
  <1>4. CASE start(r)
    <2>1. RunSound([import[r] EXCEPT !.pc = "stored"], page)
      BY OnSound DEF ImportPcs
    <2>2. QED
      BY <1>2, <1>3, <1>4, <2>1 DEF start, On
  <1>5. CASE sourceRevisions(r)
    <2> DEFINE stored == [q \in Quests |-> quest[q].revision]
               s == [import[r] EXCEPT !.pc = "revids", !.stored = stored]
    <2>1. stored \in [Quests -> Nat]
      BY <1>2 DEF QuestRow
    <2>2. Then(r, s) /\ UNCHANGED <<page, quest, spent>>
      BY <1>5 DEF sourceRevisions
    <2> HIDE DEF stored
    <2>3. s \in ImportState
      BY <1>1, <2>1 DEF ImportState, ImportPcs
    <2>4. s.pc = "revids" /\ s.new = import[r].new /\ s.at = import[r].at /\ s.live = import[r].live
      BY <1>1 DEF ImportState
    <2> HIDE DEF s
    <2>5. RunSound(s, page)
      BY <1>1, <2>3, <2>4 DEF RunSound, AtPage
    <2>6. QED
      BY <1>2, <1>3, <2>2, <2>5
  <1>6. CASE fetchRevids(r)
    <2> DEFINE changed == {q \in Quests : page[q].revision # import[r].stored[q]}
               live == [q \in Quests |-> IF q \in changed THEN page[q].revision ELSE 0]
               s == [Idle EXCEPT !.pc = "page", !.todo = changed, !.live = live]
    <2>1. (Then(r, Idle) \/ Then(r, s)) /\ UNCHANGED <<page, quest, spent>>
      BY <1>6 DEF fetchRevids
    <2>2. Idle \in ImportState /\ Idle.at = {} /\ Idle.new = NoQuest
      BY <1>2, IdleSound DEF RunSound, Idle
    <2>3. live \in [Quests -> Nat] /\ \A q \in Quests : live[q] <= page[q].revision
      BY <1>2 DEF PageState
    <2>4. changed \subseteq Quests
      OBVIOUS
    <2> HIDE DEF live, changed
    <2>5. s \in ImportState
      BY <2>2, <2>3, <2>4 DEF ImportState, ImportPcs
    <2>6. s.pc = "page" /\ s.new = NoQuest /\ s.at = {} /\ s.live = live
      BY <2>2 DEF ImportState
    <2> HIDE DEF s
    <2>7. RunSound(s, page)
      BY <2>3, <2>5, <2>6, NoQuestSound DEF RunSound, AtPage
    <2>8. QED
      BY <1>2, <1>3, <2>1, <2>7, IdleSound
  <1>7. CASE fetchContent(r)
    <2>1. PICK q \in import[r].todo :
            Then(r, [import[r] EXCEPT !.pc = "spoiler", !.todo = import[r].todo \ {q}, !.at = {q},
                       !.new = [NoQuest EXCEPT !.text = page[q].revision, !.revision = import[r].live[q]]])
      BY <1>7 DEF fetchContent
    <2> DEFINE new == [NoQuest EXCEPT !.text = page[q].revision, !.revision = import[r].live[q]]
               s == [import[r] EXCEPT !.pc = "spoiler", !.todo = import[r].todo \ {q}, !.at = {q}, !.new = new]
    <2>2. q \in Quests
      BY <1>1 DEF ImportState
    <2>3. /\ page[q].revision \in Nat /\ import[r].live[q] \in Nat
          /\ import[r].live[q] <= page[q].revision
      BY <1>1, <1>2, <2>2 DEF PageState, ImportState, RunSound
    <2>4. new \in QuestRow /\ new.text = page[q].revision /\ new.revision = import[r].live[q]
      BY <2>3, NoQuestSound DEF QuestRow
    <2>5. Then(r, s) /\ UNCHANGED <<page, quest, spent>>
      BY <1>7, <2>1 DEF fetchContent
    <2> HIDE DEF new
    <2>6. s \in ImportState
      BY <1>1, <2>2, <2>4 DEF ImportState, ImportPcs
    <2>7. s.new = new /\ s.at = {q} /\ s.live = import[r].live
      BY <1>1 DEF ImportState
    <2> HIDE DEF s
    <2>8. RowSound(s.new, q, page)
      BY <2>3, <2>4, <2>7 DEF RowSound
    <2>9. RunSound(s, page)
      BY <1>1, <2>3, <2>4, <2>6, <2>7, <2>8 DEF RunSound
    <2>10. QED
      BY <1>2, <1>3, <2>5, <2>9
  <1>8. CASE fetchSpoiler(r)
    <2> DEFINE pc == IF page[Page(r)].spoiler = 0 THEN "upsert" ELSE "spend"
               new == [import[r].new EXCEPT !.source = page[Page(r)].spoiler]
    <2>1. AtPage(import[r])
      BY <1>8 DEF fetchSpoiler, Doing, AtPage
    <2>2. Page(r) \in Quests
      BY <2>1, AtHand
    <2>3. page[Page(r)].spoiler \in Nat /\ pc \in ImportPcs
      BY <1>2, <2>2 DEF PageState, ImportPcs
    <2>4. /\ new \in QuestRow /\ new.text = import[r].new.text
          /\ new.revision = import[r].new.revision
      BY <1>1, <2>3 DEF QuestRow
    <2>5. /\ Then(r, [import[r] EXCEPT !.pc = pc, !.new = new])
          /\ UNCHANGED <<page, quest, spent>>
      BY <1>1, <1>8 DEF fetchSpoiler
    <2> HIDE DEF pc, new
    <2>6. new.revision <= new.text /\ new.text <= import[r].new.text
      BY <1>1, <2>4 DEF RunSound, QuestRow
    <2>7. RunSound([import[r] EXCEPT !.pc = pc, !.new = new], page)
      BY <2>1, <2>3, <2>4, <2>6, MovesOn
    <2>8. QED
      BY <1>2, <1>3, <2>5, <2>7
  <1>9. CASE globalSpend(r)
    <2>1. AtPage(import[r]) /\ UNCHANGED <<page, quest, spent>>
      BY <1>9 DEF globalSpend, Doing, AtPage
    <2>2. CASE spent < Budget
      <3>1. RunSound([import[r] EXCEPT !.pc = "rewrite"], page)
        BY <2>1, OnSound DEF ImportPcs
      <3>2. QED
        BY <1>2, <1>3, <1>9, <2>1, <2>2, <3>1 DEF globalSpend, On
    <2>3. CASE ~(spent < Budget)
      <3> DEFINE new == [import[r].new EXCEPT !.revision = 0]
      <3>1. new \in QuestRow /\ new.text = import[r].new.text /\ new.revision = 0
        BY <1>1 DEF QuestRow
      <3>2. Then(r, [import[r] EXCEPT !.pc = "upsert", !.new = new])
        BY <1>1, <1>9, <2>3 DEF globalSpend
      <3> HIDE DEF new
      <3>3. new.revision <= new.text /\ new.text <= import[r].new.text
        BY <1>1, <3>1 DEF QuestRow
      <3>4. RunSound([import[r] EXCEPT !.pc = "upsert", !.new = new], page)
        BY <2>1, <3>1, <3>3, MovesOn DEF ImportPcs
      <3>5. QED
        BY <1>2, <1>3, <2>1, <3>2, <3>4
    <2>4. QED
      BY <2>2, <2>3
  <1>10. CASE rewriteSteps(r)
    <2>1. AtPage(import[r]) /\ UNCHANGED <<page, quest, spent>>
      BY <1>10 DEF rewriteSteps, Doing, AtPage
    <2>2. \E new \in QuestRow :
            /\ new.text = import[r].new.text /\ new.revision = import[r].new.revision
            /\ Then(r, [import[r] EXCEPT !.pc = "record", !.new = new])
      <3> DEFINE told == [import[r].new EXCEPT !.steps = import[r].new.source]
                 untold == [import[r].new EXCEPT !.malformed = TRUE]
      <3>1. /\ told \in QuestRow /\ told.text = import[r].new.text
            /\ told.revision = import[r].new.revision
        BY <1>1 DEF QuestRow
      <3>2. /\ untold \in QuestRow /\ untold.text = import[r].new.text
            /\ untold.revision = import[r].new.revision
        BY <1>1 DEF QuestRow
      <3>3. \/ Then(r, [import[r] EXCEPT !.pc = "record", !.new = told])
            \/ Then(r, [import[r] EXCEPT !.pc = "record", !.new = untold])
        BY <1>1, <1>10 DEF rewriteSteps
      <3> HIDE DEF told, untold
      <3>4. QED
        BY <3>1, <3>2, <3>3
    <2>3. PICK new \in QuestRow :
            /\ new.text = import[r].new.text /\ new.revision = import[r].new.revision
            /\ Then(r, [import[r] EXCEPT !.pc = "record", !.new = new])
      BY <2>2
    <2>4. new.revision <= new.text /\ new.text <= import[r].new.text
      BY <1>1, <2>3 DEF RunSound, QuestRow
    <2>5. RunSound([import[r] EXCEPT !.pc = "record", !.new = new], page)
      BY <2>1, <2>4, MovesOn DEF ImportPcs
    <2>6. QED
      BY <1>2, <1>3, <2>1, <2>3, <2>5
  <1>11. CASE recordDistillUsage(r)
    <2>1. AtPage(import[r]) /\ UNCHANGED <<page, quest>>
      BY <1>11 DEF recordDistillUsage, Doing, AtPage
    <2>2. RunSound([import[r] EXCEPT !.pc = "upsert"], page)
      BY <2>1, OnSound DEF ImportPcs
    <2>3. spent' \in Nat
      BY <1>2, <1>11, QuestAssumption DEF recordDistillUsage
    <2>4. QED
      BY <1>3, <1>11, <2>1, <2>2, <2>3 DEF recordDistillUsage, On
  <1>12. CASE pageFails(r)
    BY <1>2, <1>3, <1>12, NextPageSound DEF pageFails
  <1>13. CASE overviewFails(r)
    <2>1. PICK q \in import[r].todo :
            Then(r, IF import[r].todo = {q} THEN Idle ELSE [import[r] EXCEPT !.todo = import[r].todo \ {q}])
      BY <1>13 DEF overviewFails
    <2> DEFINE s == [import[r] EXCEPT !.todo = import[r].todo \ {q}]
    <2>2. s \in ImportState
      BY <1>1 DEF ImportState
    <2>3. s.pc = import[r].pc /\ s.new = import[r].new /\ s.at = import[r].at /\ s.live = import[r].live
      BY <1>1 DEF ImportState
    <2>4. Then(r, Idle) \/ Then(r, s)
      BY <2>1
    <2> HIDE DEF s
    <2>5. RunSound(s, page)
      BY <1>1, <2>2, <2>3 DEF RunSound, AtPage
    <2>6. UNCHANGED <<page, quest, spent>>
      BY <1>13 DEF overviewFails
    <2>7. QED
      BY <1>2, <1>3, <2>4, <2>5, <2>6, IdleSound
  <1>14. CASE runFails(r)
    BY <1>2, <1>3, <1>14, IdleSound DEF runFails
  <1>15. QED
    BY <1>4, <1>5, <1>6, <1>7, <1>8, <1>9, <1>10, <1>11, <1>12, <1>13, <1>14 DEF ImportReads

-----------------------------------------------------------------------------
(* The rows as WikiCopy sees them. *)
Copied(q, row) == [title |-> q, revision |-> row.revision, text |-> row.text]
Copies(rows) == [q \in Quests |-> Copied(q, rows[q])]
Revisions(wiki) == [q \in Quests |-> wiki[q].revision]

(* The importer stores a text it has read, under the revision it had read before. *)
LEMMA UpsertStores ==
  ASSUME ImportOK, NEW r \in Imports, upsertQuest(r)
  PROVE  ImportOK' /\ [Corpora!CopyNext]_(Corpora!copyVars)
  <1>1. AtPage(import[r])
    BY DEF upsertQuest, Doing, AtPage
  <1>2. PICK q \in Quests, row \in QuestRow : q = Page(r) /\ row = New(r)
    BY <1>1, AtHand
  <1>3. RowSound(row, q, page)
    BY <1>1, <1>2, AtHand DEF RunSound
  <1>4. quest' = [quest EXCEPT ![q] = row] /\ UNCHANGED <<page, spent>> /\ NextPage(r)
    BY <1>2 DEF upsertQuest
  <1>5. quest \in [Quests -> QuestRow] /\ page \in [Quests -> PageState] /\ spent \in Nat
        /\ import \in [Imports -> ImportState]
    BY DEF ImportOK
  <1>6. /\ quest' \in [Quests -> QuestRow]
        /\ \A p \in Quests : quest'[p] = IF p = q THEN row ELSE quest[p]
    BY <1>2, <1>4, <1>5
  <1>7. \A p \in Quests : RowSound(quest'[p], p, page)
    BY <1>3, <1>6 DEF ImportOK
  <1>8. ImportOK'
    <2>1. PICK s : Then(r, s) /\ RunSound(s, page)
      BY <1>4, NextPageSound
    <2>2. import' = [import EXCEPT ![r] = s] /\ s \in ImportState
      BY <2>1 DEF Then, RunSound
    <2>3. /\ import' \in [Imports -> ImportState]
          /\ \A p \in Imports : import'[p] = IF p = r THEN s ELSE import[p]
      BY <1>5, <2>2
    <2>4. \A p \in Imports : RunSound(import'[p], page)
      BY <2>1, <2>3 DEF ImportOK
    <2>5. QED
      BY <1>4, <1>5, <1>6, <1>7, <2>3, <2>4 DEF ImportOK
  <1>9. Corpora!Store(q, q, row.revision, row.text)
    <2>1. Copies(quest') = [Copies(quest) EXCEPT ![q] = [title |-> q, revision |-> row.revision, text |-> row.text]]
      <3> DEFINE copies == Copies(quest)
                 new == [title |-> q, revision |-> row.revision, text |-> row.text]
      <3>1. copies = [p \in Quests |-> Copied(p, quest[p])]
        BY DEF Copies
      <3>2. Copies(quest') = [p \in Quests |-> IF p = q THEN new ELSE Copied(p, quest[p])]
        BY <1>6 DEF Copies, Copied
      <3>3. [copies EXCEPT ![q] = new] = [p \in Quests |-> IF p = q THEN new ELSE Copied(p, quest[p])]
        <4> HIDE DEF new, copies
        <4>1. QED
          BY <3>1
      <3>4. QED
        BY <3>2, <3>3
    <2>2. QED
      BY <1>4, <2>1 DEF Corpora!Store, Copies, Copied
  <1>10. /\ row.text \in 0..page[q].revision /\ row.revision \in 0..row.text
    BY <1>2, <1>3, <1>5 DEF RowSound, QuestRow, PageState
  <1>11. Corpora!CopyNext
    <2>1. Revisions(page)[q] = page[q].revision
      BY <1>2 DEF Revisions
    <2>2. QED
      BY <1>9, <1>10, <2>1 DEF Corpora!CopyNext, Revisions
  <1>12. QED
    BY <1>8, <1>11

(* Nothing WikiCopy sees has changed. *)
LEMMA Unseen ==
  ASSUME quest' = quest, Revisions(page') = Revisions(page)
  PROVE  [Corpora!CopyNext]_(Corpora!copyVars)
  BY DEF Corpora!copyVars, Revisions

(* Editors only add revisions: what was sound stays so. *)
LEMMA EditKeeps ==
  ASSUME ImportOK, NEW q \in Quests, NEW part \in {"revision", "spoiler"}, EditPage(q, part)
  PROVE  ImportOK' /\ [Corpora!CopyNext]_(Corpora!copyVars)
  <1> DEFINE new == [page[q] EXCEPT ![part] = page[q][part] + 1]
  <1>1. page' = [page EXCEPT ![q] = new] /\ UNCHANGED <<quest, spent, import>>
    BY DEF EditPage
  <1>2. page \in [Quests -> PageState] /\ page[q] \in PageState
    BY DEF ImportOK
  <1>3. /\ new \in PageState
        /\ new.revision = IF part = "revision" THEN page[q].revision + 1 ELSE page[q].revision
    <2>1. CASE part = "revision"
      BY <1>2, <2>1 DEF PageState
    <2>2. CASE part = "spoiler"
      BY <1>2, <2>2 DEF PageState
    <2>3. QED
      BY <2>1, <2>2
  <1> HIDE DEF new
  <1>4. /\ page' \in [Quests -> PageState]
        /\ \A p \in Quests : page'[p] = IF p = q THEN new ELSE page[p]
    BY <1>1, <1>2, <1>3
  <1>5. \A p \in Quests : /\ page[p].revision \in Nat /\ page'[p].revision \in Nat
                          /\ page[p].revision <= page'[p].revision
    BY <1>2, <1>3, <1>4 DEF PageState
  <1>6. ASSUME NEW p \in Quests, NEW row, RowSound(row, p, page) PROVE RowSound(row, p, page')
    BY <1>5, <1>6 DEF RowSound, QuestRow
  <1>7. ASSUME NEW r \in Imports PROVE RunSound(import[r], page')
    <2>1. import[r] \in ImportState /\ RunSound(import[r], page)
      BY AtHand
    <2>2. \A p \in Quests : import[r].live[p] \in Nat /\ import[r].live[p] <= page[p].revision
      BY <2>1 DEF ImportState, RunSound
    <2>3. \A p \in Quests : import[r].live[p] <= page'[p].revision
      BY <1>5, <2>2
    <2>4. \A p \in import[r].at : RowSound(import[r].new, p, page')
      <3>1. \A p \in import[r].at : p \in Quests /\ RowSound(import[r].new, p, page)
        BY <2>1 DEF ImportState, RunSound
      <3>2. QED
        BY <1>6, <3>1
    <2>5. QED
      BY <2>1, <2>3, <2>4 DEF RunSound
  <1>8. ImportOK'
    BY <1>1, <1>4, <1>6, <1>7 DEF ImportOK
  <1>9. CASE part = "revision"
    <2> DEFINE before == Revisions(page)
               after == Revisions(page')
    <2>1. /\ before = [p \in Quests |-> page[p].revision]
          /\ after = [p \in Quests |-> page'[p].revision]
      BY DEF Revisions
    <2>2. \A p \in Quests : page'[p].revision = IF p = q THEN page[q].revision + 1 ELSE page[p].revision
      BY <1>3, <1>4, <1>9
    <2> HIDE DEF before, after
    <2>3. after = [before EXCEPT ![q] = before[q] + 1]
      BY <2>1, <2>2
    <2>4. Corpora!Edit(q)
      BY <1>1, <2>3 DEF Corpora!Edit, before, after, Revisions
    <2>5. QED
      BY <1>8, <2>4 DEF Corpora!CopyNext
  <1>10. CASE part = "spoiler"
    <2>1. \A p \in Quests : page'[p].revision = page[p].revision
      BY <1>3, <1>4, <1>10
    <2>2. Revisions(page') = Revisions(page)
      BY <2>1 DEF Revisions
    <2>3. QED
      BY <1>1, <1>8, <2>2, Unseen
  <1>11. QED
    BY <1>9, <1>10

(* Every step of the importer, the wiki and the day. *)
LEMMA ImportNextKeeps ==
  ASSUME ImportOK, ImportNext
  PROVE  ImportOK' /\ [Corpora!CopyNext]_(Corpora!copyVars)
  <1>1. ASSUME NEW r \in Imports, ImportReads(r)
        PROVE  ImportOK' /\ [Corpora!CopyNext]_(Corpora!copyVars)
    BY <1>1, ImportReadsKeep, Unseen
  <1>2. CASE ImportsKilled
    <2>1. import' = [r \in Imports |-> Idle] /\ UNCHANGED <<page, quest, spent>>
      BY <1>2 DEF ImportsKilled
    <2>2. RunSound(Idle, page) /\ Idle \in ImportState
      BY IdleSound DEF ImportOK, RunSound
    <2>3. import' \in [Imports -> ImportState] /\ \A r \in Imports : RunSound(import'[r], page)
      BY <2>1, <2>2
    <2>4. QED
      BY <2>1, <2>3, Unseen DEF ImportOK
  <1>3. CASE NewDay \/ PlayersSpend
    <2>1. UNCHANGED <<page, quest, import>> /\ spent' \in Nat
      BY <1>3, QuestAssumption DEF NewDay, PlayersSpend
    <2>2. QED
      BY <2>1, Unseen DEF ImportOK
  <1>4. QED
    BY <1>1, <1>2, <1>3, UpsertStores, EditKeeps
       DEF ImportNext, ImportWork, ImportStep, ImportFailure, ImportReads

LEMMA ImportBegins == ImportInit => ImportOK
  <1> SUFFICES ASSUME ImportInit PROVE ImportOK
    OBVIOUS
  <1>1. page \in [Quests -> PageState] /\ \A q \in Quests : page[q].revision = 1
    BY DEF ImportInit, PageState
  <1> DEFINE first == [NoQuest EXCEPT !.text = 1, !.revision = 1]
  <1>2. first \in QuestRow /\ first.text = 1 /\ first.revision = 1
    BY NoQuestSound DEF QuestRow
  <1>3. \A q \in Quests : quest[q] = first \/ quest[q] = NoQuest
    BY DEF ImportInit
  <1>4. quest = [q \in Quests |-> quest[q]]
    BY DEF ImportInit
  <1> HIDE DEF first
  <1>5. \A q \in Quests : RowSound(quest[q], q, page)
    BY <1>1, <1>2, <1>3, NoQuestSound DEF RowSound
  <1>6. quest \in [Quests -> QuestRow]
    BY <1>2, <1>3, <1>4, NoQuestSound
  <1>7. RunSound(Idle, page) /\ Idle \in ImportState
    BY <1>1, IdleSound DEF RunSound
  <1>8. import \in [Imports -> ImportState] /\ \A r \in Imports : RunSound(import[r], page)
    BY <1>7 DEF ImportInit
  <1>9. spent \in Nat
    BY DEF ImportInit
  <1>10. QED
    BY <1>1, <1>5, <1>6, <1>8, <1>9 DEF ImportOK

(* What is not the import's leaves the import alone. *)
LEMMA NotImports ==
  ASSUME [Next]_vars
  PROVE  (ImportNext /\ UNCHANGED <<table, companionVars>>) \/ UNCHANGED importVars
  BY Zenon DEF Next, vars, Owners, Linked, NowVerified, Removed, Step, Start, questCommand, seedFromAuction,
     countTracked, findByNameLoose, selfReport, findByLabelExact, seedQuest, findByAchievementNames,
     inferQuest, reply, commandFails, Reads

(* However imports overlap and whatever fails between their reads, every write of the importer
   is one that WikiCopy allows: the text stored under a revision is at least as new, so a page whose
   revision is the stored one needs no second reading (wikiQuestImporter.ts:108 and :186). *)
THEOREM ImportCopies == Spec => WritesCopies
  <1>1. Init => ImportOK
    BY ImportBegins DEF Init
  <1>2. ImportOK /\ [Next]_vars => ImportOK' /\ [Corpora!CopyNext]_(Corpora!copyVars)
    <2> SUFFICES ASSUME ImportOK, [Next]_vars
                 PROVE  ImportOK' /\ [Corpora!CopyNext]_(Corpora!copyVars)
      OBVIOUS
    <2>1. CASE UNCHANGED importVars
      <3>1. UNCHANGED <<page, quest, spent, import>>
        BY <2>1 DEF importVars
      <3>2. ImportOK'
        BY <3>1 DEF ImportOK
      <3>3. QED
        BY <3>1, <3>2, Unseen
    <2>2. QED
      BY <2>1, ImportNextKeeps, NotImports
  <1>3. QED
    BY <1>1, <1>2, PTL DEF Spec, WritesCopies

-----------------------------------------------------------------------------
(* The companion: links keep their owner, progress is of links there are, and a command knows
   whose it is. *)
Link == [user : Users, character : Characters, main : BOOLEAN, verified : BOOLEAN]
TableOK ==
    /\ lastLink \in Nat
    /\ links \in [DOMAIN links -> Link]
    /\ \A l \in DOMAIN links : l \in Nat /\ l <= lastLink
ProgressOK ==
    /\ IsFiniteSet(DOMAIN progress)
    /\ \A k \in DOMAIN progress : k = <<k[1], k[2]>> /\ k[1] \in DOMAIN links

Fields == {"pc", "kind", "user", "link", "names", "at", "wins", "seeded", "alone"}
TalkOK(s) ==
    /\ DOMAIN s = Fields
    /\ s.kind = "none" <=> s.pc = "none"
    /\ s.kind = "seed" <=> s.pc \in {"labels", "seed", "infer"}
    /\ s.pc \in {"none", "count", "find", "report", "labels", "seed", "infer"}
    /\ s.kind # "none" =>
         /\ \E u \in Users : s.user = {u}
         /\ s.link \in Nat /\ s.link <= lastLink
         /\ s.link \in DOMAIN links => s.user = {links[s.link].user}
    /\ s.pc = "infer" => s.wins \cap s.seeded = {}

(* A command that is alone has met no other of its kind and user. *)
AloneOK ==
    \A v, w \in Commands :
        v # w /\ talk[v].kind # "none" /\ talk[v].kind = talk[w].kind /\ talk[v].user = talk[w].user
          => ~talk[v].alone

(* What a seed has told the database, for as long as nobody else seeds the link. *)
Told(l, q) ==
    /\ <<l, q>> \in DOMAIN progress
    /\ \/ progress[<<l, q>>].source = "self_report"
       \/ progress[<<l, q>>].source = "auction_seed" /\ progress[<<l, q>>].status = "done"
SeedOK(s) ==
    s.kind = "seed" /\ s.alone /\ s.link \in DOMAIN links => \A q \in s.seeded : Told(s.link, q)

(* Who has been counted has room for one more, for as long as nobody else tracks. *)
TrackOK(s) ==
    s.kind = "track" /\ s.pc \in {"find", "report"} /\ s.alone =>
      \A u \in s.user \ raced : Cardinality(Tracked(u)) < TrackedCap

CompanionOK ==
    /\ TableOK /\ ProgressOK /\ AloneOK
    /\ talk = [w \in Commands |-> talk[w]]
    /\ \A w \in Commands : TalkOK(talk[w]) /\ SeedOK(talk[w]) /\ TrackOK(talk[w])
    /\ TrackedInTurn

(* What is tracked is part of what there is. *)
LEMMA TrackedFinite ==
  ASSUME ProgressOK, NEW u
  PROVE  IsFiniteSet(Tracked(u)) /\ Cardinality(Tracked(u)) \in Nat
  <1>1. Tracked(u) \subseteq DOMAIN progress
    BY DEF Tracked
  <1>2. QED
    BY <1>1, PartOf DEF ProgressOK

(* The local state of a command that is over claims nothing. *)
LEMMA SilentOK == TalkOK(Silent) /\ SeedOK(Silent) /\ TrackOK(Silent) /\ Silent.kind = "none" /\ DOMAIN Silent = Fields
  BY DEF TalkOK, SeedOK, TrackOK, Silent, Fields

(* Somebody else's command stays what it was. *)
LEMMA SaysKeeps ==
  ASSUME CompanionOK, NEW w \in Commands, NEW s, Says(w, s), UNCHANGED table,
         TalkOK(s), SeedOK(s)', TrackOK(s)',
         s.kind = "none" \/ (s.kind = talk[w].kind /\ s.user = talk[w].user /\ s.alone = talk[w].alone),
         ProgressOK', TrackedInTurn',
         \A v \in Commands \ {w} : SeedOK(talk[v])' /\ TrackOK(talk[v])'
  PROVE  CompanionOK'
  <1>1. talk' = [v \in Commands |-> IF v = w THEN s ELSE talk[v]]
    BY DEF Says, CompanionOK
  <1>2. UNCHANGED <<links, lastLink>>
    BY DEF table
  <1>3. talk'[w] = s /\ \A v \in Commands \ {w} : talk'[v] = talk[v]
    BY <1>1
  <1>4. \A v \in Commands : TalkOK(talk[v])'
    BY <1>2, <1>3 DEF CompanionOK, TalkOK
  <1>5. AloneOK'
    BY <1>3 DEF CompanionOK, AloneOK
  <1>6. \A v \in Commands : SeedOK(talk[v])' /\ TrackOK(talk[v])'
    BY <1>3
  <1>7. TableOK'
    BY <1>2 DEF CompanionOK, TableOK
  <1>8. talk' = [v \in Commands |-> talk'[v]]
    BY <1>1
  <1>9. QED
    BY <1>4, <1>5, <1>6, <1>7, <1>8 DEF CompanionOK

(* A command that has only read. *)
LEMMA ReadKeeps ==
  ASSUME CompanionOK, NEW w \in Commands, NEW s, Says(w, s), Reads,
         TalkOK(s), SeedOK(s), TrackOK(s),
         s.kind = "none" \/ (s.kind = talk[w].kind /\ s.user = talk[w].user /\ s.alone = talk[w].alone)
  PROVE  CompanionOK'
  <1>1. UNCHANGED <<links, lastLink, progress, raced>> /\ UNCHANGED table
    BY DEF Reads, table
  <1>2. \A v \in Commands \ {w} : talk'[v] = talk[v]
    BY DEF Says, CompanionOK
  <1>3. \A u : Tracked(u)' = Tracked(u)
    BY <1>1 DEF Tracked, Of
  <1>4. SeedOK(s)' /\ TrackOK(s)'
    BY <1>1, <1>3 DEF SeedOK, TrackOK, Told
  <1>5. \A v \in Commands \ {w} : SeedOK(talk[v])' /\ TrackOK(talk[v])'
    BY <1>1, <1>2, <1>3 DEF CompanionOK, SeedOK, TrackOK, Told
  <1>6. ProgressOK' /\ TrackedInTurn'
    BY <1>1, <1>3 DEF CompanionOK, ProgressOK, TrackedInTurn
  <1>7. QED
    BY <1>1, <1>4, <1>5, <1>6, SaysKeeps

(* Links come and go, and only their progress goes with them. *)
LEMMA TableKeeps ==
  ASSUME CompanionOK, TableOK', UNCHANGED <<talk, raced>>, lastLink' >= lastLink,
         \A l \in DOMAIN links' : l <= lastLink => l \in DOMAIN links /\ links'[l].user = links[l].user,
         DOMAIN progress' = {k \in DOMAIN progress : k[1] \in DOMAIN links'},
         \A k \in DOMAIN progress' : progress'[k] = progress[k]
  PROVE  CompanionOK'
  <1>1. lastLink \in Nat /\ lastLink' \in Nat
    BY DEF CompanionOK, TableOK
  <1>2. ProgressOK'
    <2>1. DOMAIN progress' \subseteq DOMAIN progress /\ IsFiniteSet(DOMAIN progress)
      BY DEF CompanionOK, ProgressOK
    <2>2. IsFiniteSet(DOMAIN progress')
      BY <2>1, PartOf
    <2>3. QED
      BY <2>2 DEF CompanionOK, ProgressOK
  <1>3. ASSUME NEW u PROVE Tracked(u)' \subseteq Tracked(u)
    <2> SUFFICES ASSUME NEW k \in Tracked(u)' PROVE k \in Tracked(u)
      OBVIOUS
    <2>1. k \in DOMAIN progress /\ k[1] \in DOMAIN links' /\ links'[k[1]].user = u
          /\ progress[k].status = "tracked"
      BY DEF Tracked, Of
    <2>2. k[1] \in DOMAIN links /\ k[1] <= lastLink
      BY <2>1 DEF CompanionOK, ProgressOK, TableOK
    <2>3. links[k[1]].user = u
      BY <2>1, <2>2
    <2>4. QED
      BY <2>1, <2>2, <2>3 DEF Tracked, Of
  <1>4. ASSUME NEW u
        PROVE  /\ Cardinality(Tracked(u)') \in Nat /\ Cardinality(Tracked(u)) \in Nat
               /\ Cardinality(Tracked(u)') <= Cardinality(Tracked(u))
    BY <1>3, TrackedFinite, PartOf DEF CompanionOK
  <1>5. TrackedInTurn'
    <2> SUFFICES ASSUME NEW u \in Users \ raced PROVE Cardinality(Tracked(u)') <= TrackedCap
      BY DEF TrackedInTurn
    <2>1. Cardinality(Tracked(u)) <= TrackedCap
      BY DEF CompanionOK, TrackedInTurn
    <2>2. QED
      BY <1>4, <2>1, CompanionAssumption
  <1>6. ASSUME NEW w \in Commands PROVE TrackOK(talk[w])'
    <2> SUFFICES ASSUME talk[w].kind = "track", talk[w].pc \in {"find", "report"}, talk[w].alone,
                        NEW u \in talk[w].user \ raced
                 PROVE  Cardinality(Tracked(u)') < TrackedCap
      BY DEF TrackOK
    <2>1. Cardinality(Tracked(u)) < TrackedCap
      BY DEF CompanionOK, TrackOK
    <2>2. QED
      BY <1>4, <2>1, CompanionAssumption
  <1>7. ASSUME NEW w \in Commands PROVE TalkOK(talk[w])' /\ SeedOK(talk[w])'
    <2>1. TalkOK(talk[w]) /\ SeedOK(talk[w])
      BY DEF CompanionOK
    <2>2. talk[w].kind # "none" /\ talk[w].link \in DOMAIN links' =>
            /\ talk[w].link \in DOMAIN links
            /\ links'[talk[w].link].user = links[talk[w].link].user
      BY <2>1 DEF TalkOK
    <2>3. TalkOK(talk[w])'
      <3>1. talk[w].kind # "none" => talk[w].link \in Nat /\ talk[w].link <= lastLink'
        BY <1>1, <2>1 DEF TalkOK
      <3>2. QED
        BY <2>1, <2>2, <3>1 DEF TalkOK
    <2>4. SeedOK(talk[w])'
      <3> SUFFICES ASSUME talk[w].kind = "seed", talk[w].alone, talk[w].link \in DOMAIN links',
                          NEW q \in talk[w].seeded
                   PROVE  Told(talk[w].link, q)'
        BY DEF SeedOK
      <3> DEFINE k == <<talk[w].link, q>>
      <3>1. Told(talk[w].link, q)
        BY <2>1, <2>2 DEF SeedOK
      <3>2. k \in DOMAIN progress /\ k[1] \in DOMAIN links'
        BY <3>1 DEF Told
      <3>3. k \in DOMAIN progress' /\ progress'[k] = progress[k]
        BY <3>2
      <3>4. QED
        BY <3>1, <3>3 DEF Told
    <2>5. QED
      BY <2>3, <2>4
  <1>8. QED
    BY <1>2, <1>5, <1>6, <1>7 DEF CompanionOK, AloneOK

(* The owners of the links. *)
LEMMA OwnersKeep == ASSUME CompanionOK, Owners PROVE CompanionOK'
  <1>0. /\ lastLink \in Nat /\ links \in [DOMAIN links -> Link] /\ \A l \in DOMAIN links : l \in Nat /\ l <= lastLink
        /\ \A k \in DOMAIN progress : k[1] \in DOMAIN links
    BY DEF CompanionOK, TableOK, ProgressOK
  <1>1. ASSUME NEW u \in Users, NEW c \in Characters, Linked(u, c) PROVE CompanionOK'
    <2>1. PICK main \in BOOLEAN : Insert(u, c, main)
      BY <1>1 DEF Linked
    <2> DEFINE row == [user |-> u, character |-> c, main |-> main, verified |-> FALSE]
    <2>2. /\ lastLink' = lastLink + 1
          /\ links' = [l \in DOMAIN links \cup {lastLink'} |-> IF l = lastLink' THEN row ELSE links[l]]
      BY <2>1 DEF Insert
    <2>3. row \in Link
      BY DEF Link
    <2> HIDE DEF row
    <2>4. TableOK'
      BY <1>0, <2>2, <2>3 DEF TableOK
    <2>5. \A l \in DOMAIN links' : l <= lastLink => l \in DOMAIN links /\ links'[l].user = links[l].user
      BY <1>0, <2>2
    <2>6. UNCHANGED <<progress, talk, raced>>
      BY <1>1 DEF Linked, companionVars
    <2>7. DOMAIN progress' = {k \in DOMAIN progress : k[1] \in DOMAIN links'}
      BY <1>0, <2>2, <2>6
    <2>8. lastLink' >= lastLink
      BY <1>0, <2>2
    <2>9. QED
      BY <2>4, <2>5, <2>6, <2>7, <2>8, TableKeeps
  <1>2. ASSUME NEW l \in DOMAIN links, NowVerified(l) PROVE CompanionOK'
    <2> DEFINE row == [links[l] EXCEPT !.verified = TRUE]
    <2>1. links' = [links EXCEPT ![l] = row] /\ UNCHANGED <<lastLink, progress, talk, raced>>
      BY <1>2 DEF NowVerified, Verify, companionVars
    <2>2. row \in Link /\ row.user = links[l].user
      BY <1>0 DEF Link
    <2> HIDE DEF row
    <2>3. /\ DOMAIN links' = DOMAIN links
          /\ \A k \in DOMAIN links : links'[k] = IF k = l THEN row ELSE links[k]
      BY <2>1
    <2>4. links' \in [DOMAIN links' -> Link]
      BY <1>0, <2>1, <2>2, <2>3
    <2>5. TableOK'
      BY <1>0, <2>1, <2>3, <2>4 DEF TableOK
    <2>6. \A k \in DOMAIN links' : k \in DOMAIN links /\ links'[k].user = links[k].user
      BY <2>2, <2>3
    <2>7. DOMAIN progress' = {k \in DOMAIN progress : k[1] \in DOMAIN links'}
      BY <1>0, <2>1, <2>3
    <2>8. lastLink' >= lastLink
      BY <1>0, <2>1
    <2>9. QED
      BY <2>1, <2>5, <2>6, <2>7, <2>8, TableKeeps
  <1>3. ASSUME NEW S, Removed(S) PROVE CompanionOK'
    <2>1. /\ links' = [l \in DOMAIN links \ S |-> links[l]] /\ UNCHANGED <<lastLink, talk, raced>>
          /\ progress' = [k \in {k \in DOMAIN progress : k[1] \notin S} |-> progress[k]]
      BY <1>3 DEF Removed, Delete, Without
    <2>2. TableOK'
      BY <1>0, <2>1 DEF TableOK
    <2>3. \A k \in DOMAIN links' : k \in DOMAIN links /\ links'[k].user = links[k].user
      BY <2>1
    <2>4. DOMAIN progress' = {k \in DOMAIN progress : k[1] \in DOMAIN links'}
      BY <1>0, <2>1
    <2>5. \A k \in DOMAIN progress' : progress'[k] = progress[k]
      BY <2>1
    <2>6. lastLink' >= lastLink
      BY <1>0, <2>1
    <2>7. QED
      BY <2>1, <2>2, <2>3, <2>4, <2>5, <2>6, TableKeeps
  <1>4. ASSUME NEW u \in Users, Removed(Of(u)) PROVE CompanionOK'
    <2>1. PICK S : S = Of(u)
      OBVIOUS
    <2>2. Removed(S)
      BY <1>4, <2>1 DEF Removed, Delete, Without
    <2>3. QED
      BY <1>3, <2>2
  <1>5. QED
    BY <1>1, <1>2, <1>3, <1>4 DEF Owners

(* A command begins: whoever it meets is no longer alone. *)
LEMMA BeginKeeps ==
  ASSUME CompanionOK, NEW w \in Commands, NEW s, DOMAIN s = Fields, Begins(w, s), Reads, talk[w].pc = "none",
         NEW u \in Users, s.user = {u}, NEW l \in Of(u), s.link = l, s.seeded = {},
         \/ s.kind \in {"track", "done"} /\ s.pc \in {"count", "find"} /\ (s.kind = "track" => s.pc = "count")
         \/ s.kind = "seed" /\ s.pc = "labels"
  PROVE  CompanionOK'
  <1>1. UNCHANGED <<links, lastLink, progress, raced>>
    BY DEF Reads, table
  <1> DEFINE met == {v \in Commands \ {w} : talk[v].kind = s.kind /\ talk[v].user = s.user}
             new == [s EXCEPT !.alone = (met = {})]
  <1>2. talk' = [v \in Commands |-> IF v = w THEN new ELSE [talk[v] EXCEPT !.alone = talk[v].alone /\ v \notin met]]
    BY DEF Begins
  <1>3. /\ new.kind = s.kind /\ new.pc = s.pc /\ new.user = {u} /\ new.link = l /\ new.seeded = {}
        /\ new.alone <=> met = {}
        /\ DOMAIN new = Fields
    BY DEF Fields
  <1>4. talk'[w] = new
    BY <1>2
  <1>5. ASSUME NEW v \in Commands \ {w}
        PROVE  /\ talk'[v].kind = talk[v].kind /\ talk'[v].pc = talk[v].pc /\ talk'[v].user = talk[v].user
               /\ talk'[v].link = talk[v].link /\ talk'[v].seeded = talk[v].seeded
               /\ talk'[v].wins = talk[v].wins /\ DOMAIN talk'[v] = Fields
               /\ talk'[v].alone <=> (talk[v].alone /\ v \notin met)
    <2>1. DOMAIN talk[v] = Fields
      BY DEF CompanionOK, TalkOK
    <2>2. talk'[v] = [talk[v] EXCEPT !.alone = talk[v].alone /\ v \notin met]
      BY <1>2
    <2> HIDE DEF met
    <2>3. QED
      BY <2>1, <2>2 DEF Fields
  <1>6. \A v \in Commands \ {w} : v \in met <=> talk[v].kind = s.kind /\ talk[v].user = {u}
    OBVIOUS
  <1> HIDE DEF met, new
  <1>7. AloneOK'
    <2> SUFFICES ASSUME NEW x \in Commands, NEW y \in Commands, x # y, talk'[x].kind # "none",
                        talk'[x].kind = talk'[y].kind, talk'[x].user = talk'[y].user
                 PROVE  ~talk'[x].alone
      BY DEF AloneOK
    <2>1. CASE x = w
      BY <1>3, <1>4, <1>5, <1>6, <2>1
    <2>2. CASE y = w
      BY <1>3, <1>4, <1>5, <1>6, <2>2
    <2>3. CASE x # w /\ y # w
      BY <1>5, <2>3 DEF CompanionOK, AloneOK
    <2>4. QED
      BY <2>1, <2>2, <2>3
  <1>8. \A x : Tracked(x)' = Tracked(x)
    BY <1>1 DEF Tracked, Of
  <1>9. ASSUME NEW v \in Commands PROVE TalkOK(talk[v])' /\ SeedOK(talk[v])' /\ TrackOK(talk[v])'
    <2>1. CASE v = w
      <3>1. l \in Nat /\ l <= lastLink /\ l \in DOMAIN links /\ links[l].user = u
        BY DEF Of, CompanionOK, TableOK
      <3>2. TalkOK(talk[v])'
        BY <1>1, <1>3, <1>4, <2>1, <3>1 DEF TalkOK
      <3>3. SeedOK(talk[v])' /\ TrackOK(talk[v])'
        BY <1>3, <1>4, <2>1 DEF SeedOK, TrackOK
      <3>4. QED
        BY <3>2, <3>3
    <2>2. CASE v # w
      <3>1. TalkOK(talk[v])'
        BY <1>1, <1>5, <2>2 DEF CompanionOK, TalkOK
      <3>2. SeedOK(talk[v])'
        BY <1>1, <1>5, <2>2 DEF CompanionOK, SeedOK, Told
      <3>3. TrackOK(talk[v])'
        BY <1>1, <1>5, <1>8, <2>2 DEF CompanionOK, TrackOK
      <3>4. QED
        BY <3>1, <3>2, <3>3
    <2>3. QED
      BY <2>1, <2>2
  <1>10. TableOK' /\ ProgressOK' /\ TrackedInTurn'
    BY <1>1, <1>8 DEF CompanionOK, TableOK, ProgressOK, TrackedInTurn
  <1>11. talk' = [v \in Commands |-> talk'[v]]
    BY <1>2
  <1>12. QED
    BY <1>7, <1>9, <1>10, <1>11 DEF CompanionOK

(* The first of some links is one of them. *)
LEMMA StartKeeps ==
  ASSUME CompanionOK, NEW w \in Commands, NEW u \in Users, Start(w, u)
  PROVE  CompanionOK'
  <1>1. ASSUME NEW kind \in {"track", "done"}, NEW name, questCommand(w, u, kind, name) PROVE CompanionOK'
    <2>1. PICK l \in Of(u) :
            Begins(w, [Silent EXCEPT !.pc = IF kind = "track" THEN "count" ELSE "find", !.kind = kind, !.user = {u},
                                     !.link = l, !.names = {name}])
      BY <1>1 DEF questCommand, FirstLink
    <2> DEFINE s == [Silent EXCEPT !.pc = IF kind = "track" THEN "count" ELSE "find", !.kind = kind, !.user = {u},
                                   !.link = l, !.names = {name}]
    <2>2. /\ DOMAIN s = Fields /\ s.kind = kind /\ s.user = {u} /\ s.link = l /\ s.seeded = {}
          /\ s.pc = IF kind = "track" THEN "count" ELSE "find"
      BY DEF Silent, Fields
    <2>3. PICK t : t = s
      OBVIOUS
    <2>4. Begins(w, t) /\ Reads /\ talk[w].pc = "none"
      BY <1>1, <2>1, <2>3 DEF questCommand
    <2> HIDE DEF s
    <2>5. QED
      BY <2>2, <2>3, <2>4, BeginKeeps
  <1>2. ASSUME NEW auction, seedFromAuction(w, u, auction) PROVE CompanionOK'
    <2>1. PICK l \in Of(u) :
            Begins(w, [Silent EXCEPT !.pc = "labels", !.kind = "seed", !.user = {u}, !.link = l,
                                     !.names = auction.labels, !.wins = auction.achievements])
      BY <1>2 DEF seedFromAuction, FirstLink
    <2> DEFINE s == [Silent EXCEPT !.pc = "labels", !.kind = "seed", !.user = {u}, !.link = l,
                                   !.names = auction.labels, !.wins = auction.achievements]
    <2>2. /\ DOMAIN s = Fields /\ s.kind = "seed" /\ s.user = {u} /\ s.link = l /\ s.seeded = {}
          /\ s.pc = "labels"
      BY DEF Silent, Fields
    <2>3. PICK t : t = s
      OBVIOUS
    <2>4. Begins(w, t) /\ Reads /\ talk[w].pc = "none"
      BY <1>2, <2>1, <2>3 DEF seedFromAuction
    <2> HIDE DEF s
    <2>5. QED
      BY <2>2, <2>3, <2>4, BeginKeeps
  <1>3. QED
    BY <1>1, <1>2 DEF Start

(* The steps of a command that only read. *)
StepReads(w) ==
    \/ countTracked(w) \/ findByNameLoose(w) \/ findByLabelExact(w) \/ findByAchievementNames(w)
    \/ reply(w) \/ commandFails(w)

LEMMA StepReadsKeep ==
  ASSUME CompanionOK, NEW w \in Commands, StepReads(w)
  PROVE  CompanionOK'
  <1> DEFINE r == talk[w]
  <1>1. TalkOK(r) /\ SeedOK(r) /\ TrackOK(r) /\ DOMAIN r = Fields
    BY DEF CompanionOK, TalkOK
  <1>2. CASE Ends(w) /\ Reads
    BY <1>2, SilentOK, ReadKeeps DEF Ends
  <1>3. CASE countTracked(w) /\ ~Ends(w)
    <2>1. /\ r.pc = "count" /\ Reads /\ ~(Cardinality(Tracked(Mine(w))) >= TrackedCap)
          /\ Says(w, [r EXCEPT !.pc = "find"])
      BY <1>3 DEF countTracked, Goes
    <2> DEFINE s == [r EXCEPT !.pc = "find"]
    <2>2. /\ DOMAIN s = Fields /\ s.pc = "find" /\ s.kind = r.kind /\ s.user = r.user /\ s.link = r.link
          /\ s.alone = r.alone
      BY <1>1 DEF Fields
    <2>3. Says(w, s) /\ r.kind # "none" /\ r.kind # "seed"
      BY <1>1, <2>1 DEF TalkOK
    <2> HIDE DEF s
    <2>4. PICK u \in Users : r.user = {u}
      BY <1>1, <2>3 DEF TalkOK
    <2>5. Mine(w) = u
      BY <2>4 DEF Mine
    <2>6. Cardinality(Tracked(u)) < TrackedCap
      <3>1. Cardinality(Tracked(u)) \in Nat
        BY TrackedFinite DEF CompanionOK
      <3>2. QED
        BY <2>1, <2>5, <3>1, CompanionAssumption
    <2>7. TalkOK(s)
      BY <1>1, <2>2, <2>3 DEF TalkOK
    <2>8. SeedOK(s) /\ TrackOK(s)
      BY <2>2, <2>3, <2>4, <2>6 DEF SeedOK, TrackOK
    <2>9. PICK t : t = s
      OBVIOUS
    <2>10. Says(w, t)
      BY <2>3, <2>9 DEF Says
    <2>11. QED
      BY <2>1, <2>2, <2>7, <2>8, <2>9, <2>10, ReadKeeps DEF SeedOK, TrackOK, TalkOK
  <1>4. CASE findByNameLoose(w) /\ ~Ends(w)
    <2>1. /\ r.pc = "find" /\ Reads
          /\ \E found : Says(w, [r EXCEPT !.pc = "report", !.names = {}, !.at = found])
      BY <1>4 DEF findByNameLoose
    <2>2. PICK found : Says(w, [r EXCEPT !.pc = "report", !.names = {}, !.at = found])
      BY <2>1
    <2> DEFINE s == [r EXCEPT !.pc = "report", !.names = {}, !.at = found]
    <2>3. /\ DOMAIN s = Fields /\ s.pc = "report" /\ s.kind = r.kind /\ s.user = r.user /\ s.link = r.link
          /\ s.alone = r.alone
      BY <1>1 DEF Fields
    <2>4. r.kind # "none" /\ r.kind # "seed"
      BY <1>1, <2>1 DEF TalkOK
    <2>5. PICK t : t = s
      OBVIOUS
    <2>6. Says(w, t)
      BY <2>2, <2>5 DEF Says
    <2> HIDE DEF s
    <2>7. TalkOK(t)
      BY <1>1, <2>3, <2>4, <2>5 DEF TalkOK
    <2>8. SeedOK(t) /\ TrackOK(t)
      BY <1>1, <2>1, <2>3, <2>4, <2>5 DEF SeedOK, TrackOK
    <2>9. QED
      BY <2>1, <2>3, <2>5, <2>6, <2>7, <2>8, ReadKeeps
  <1>5. CASE findByLabelExact(w)
    <2>1. /\ r.pc = "labels" /\ Reads
          /\ \E pc \in {"labels", "seed"} : \E names, at :
               Says(w, [r EXCEPT !.pc = pc, !.names = names, !.at = at])
      BY <1>5 DEF findByLabelExact
    <2>2. PICK pc \in {"labels", "seed"} : \E names, at :
               Says(w, [r EXCEPT !.pc = pc, !.names = names, !.at = at])
      BY <2>1
    <2>10. PICK names, at : Says(w, [r EXCEPT !.pc = pc, !.names = names, !.at = at])
      BY <2>2
    <2> DEFINE s == [r EXCEPT !.pc = pc, !.names = names, !.at = at]
    <2>3. /\ DOMAIN s = Fields /\ s.pc = pc /\ s.kind = r.kind /\ s.user = r.user /\ s.link = r.link
          /\ s.alone = r.alone /\ s.seeded = r.seeded
      BY <1>1 DEF Fields
    <2>4. r.kind = "seed"
      BY <1>1, <2>1 DEF TalkOK
    <2>5. PICK t : t = s
      OBVIOUS
    <2>6. Says(w, t)
      BY <2>10, <2>5 DEF Says
    <2> HIDE DEF s
    <2>7. TalkOK(t)
      BY <1>1, <2>2, <2>3, <2>4, <2>5 DEF TalkOK
    <2>8. SeedOK(t) /\ TrackOK(t)
      BY <1>1, <2>3, <2>4, <2>5 DEF SeedOK, TrackOK
    <2>9. QED
      BY <2>1, <2>3, <2>5, <2>6, <2>7, <2>8, ReadKeeps
  <1>6. CASE findByAchievementNames(w)
    <2> DEFINE wins == {q \in Active \ r.seeded : Achieving[q] \cap r.wins # {}}
               s == [r EXCEPT !.pc = "infer", !.wins = wins]
    <2>1. r.pc = "labels" /\ Reads /\ Says(w, s)
      BY <1>6 DEF findByAchievementNames
    <2>2. wins \cap r.seeded = {}
      OBVIOUS
    <2> HIDE DEF wins
    <2>3. /\ DOMAIN s = Fields /\ s.pc = "infer" /\ s.kind = r.kind /\ s.user = r.user /\ s.link = r.link
          /\ s.alone = r.alone /\ s.seeded = r.seeded /\ s.wins = wins
      BY <1>1 DEF Fields
    <2>4. r.kind = "seed"
      BY <1>1, <2>1 DEF TalkOK
    <2>5. PICK t : t = s
      OBVIOUS
    <2>6. Says(w, t)
      BY <2>1, <2>5 DEF Says
    <2> HIDE DEF s
    <2>7. TalkOK(t)
      BY <1>1, <2>2, <2>3, <2>4, <2>5 DEF TalkOK
    <2>8. SeedOK(t) /\ TrackOK(t)
      BY <1>1, <2>3, <2>4, <2>5 DEF SeedOK, TrackOK
    <2>9. QED
      BY <2>1, <2>3, <2>5, <2>6, <2>7, <2>8, ReadKeeps
  <1>7. CASE reply(w) \/ commandFails(w)
    BY <1>2, <1>7 DEF reply, commandFails
  <1>8. QED
    BY <1>2, <1>3, <1>4, <1>5, <1>6, <1>7 DEF StepReads, countTracked, findByNameLoose

-----------------------------------------------------------------------------
(* What a write of progress does: nothing of what the player has said is lost, and only its own
   row changes. *)
LEMMA Upserted ==
  ASSUME CompanionOK, NEW l \in DOMAIN links, NEW q, NEW row, upsertProgress(l, q, row), UNCHANGED table
  PROVE  /\ ProgressOK'
         /\ <<l, q>> \in DOMAIN progress' /\ DOMAIN progress' = DOMAIN progress \cup {<<l, q>>}
         /\ \A k \in DOMAIN progress : k # <<l, q>> => progress'[k] = progress[k]
         /\ \/ progress'[<<l, q>>] = row
            \/ /\ <<l, q>> \in DOMAIN progress /\ progress'[<<l, q>>] = progress[<<l, q>>]
               /\ progress[<<l, q>>].source = "self_report" /\ row.source # "self_report"
  <1>1. UNCHANGED <<links, lastLink>>
    BY DEF table
  <1>2. CASE UNCHANGED progress /\ <<l, q>> \in DOMAIN progress
    BY <1>1, <1>2 DEF upsertProgress, CompanionOK, ProgressOK, Recorded
  <1>3. CASE progress' = Recorded(<<l, q>>, row)
    <2>1. /\ DOMAIN progress' = DOMAIN progress \cup {<<l, q>>}
          /\ \A k \in DOMAIN progress' : progress'[k] = IF k = <<l, q>> THEN row ELSE progress[k]
      BY <1>3 DEF Recorded
    <2>2. IsFiniteSet(DOMAIN progress')
      BY <2>1, OneMore DEF CompanionOK, ProgressOK
    <2>3. ProgressOK'
      BY <1>1, <2>1, <2>2 DEF CompanionOK, ProgressOK
    <2>4. QED
      BY <2>1, <2>3
  <1>4. QED
    BY <1>2, <1>3 DEF upsertProgress

(* What was told stays told, but where it is inferred over. *)
LEMMA ToldKept ==
  ASSUME CompanionOK, NEW l \in DOMAIN links, NEW q, NEW row, upsertProgress(l, q, row), UNCHANGED table,
         NEW m, NEW p, Told(m, p),
         \/ row.source = "self_report"
         \/ row.source = "auction_seed" /\ row.status = "done"
         \/ m # l \/ p # q
  PROVE  Told(m, p)'
  <1>1. CASE <<m, p>> = <<l, q>>
    BY <1>1, Upserted DEF Told
  <1>2. CASE <<m, p>> # <<l, q>>
    <2>1. <<m, p>> \in DOMAIN progress
      BY DEF Told
    <2>2. <<m, p>> \in DOMAIN progress' /\ progress'[<<m, p>>] = progress[<<m, p>>]
      BY <1>2, <2>1, Upserted
    <2>3. QED
      BY <2>2 DEF Told
  <1>3. QED
    BY <1>1, <1>2

(* Only tracking tracks, and only for the owner of the link. *)
LEMMA TrackedKept ==
  ASSUME CompanionOK, NEW l \in DOMAIN links, NEW q, NEW row, upsertProgress(l, q, row), UNCHANGED table, NEW u
  PROVE  /\ Tracked(u)' \subseteq Tracked(u) \cup {<<l, q>>}
         /\ row.status # "tracked" \/ links[l].user # u => Tracked(u)' \subseteq Tracked(u)
         /\ IsFiniteSet(Tracked(u)) /\ Cardinality(Tracked(u)) \in Nat /\ Cardinality(Tracked(u)') \in Nat
         /\ Cardinality(Tracked(u)') <= Cardinality(Tracked(u)) + 1
         /\ row.status # "tracked" \/ links[l].user # u =>
              Cardinality(Tracked(u)') <= Cardinality(Tracked(u))
  <1>1. UNCHANGED links
    BY DEF table
  <1>2. Tracked(u)' \subseteq Tracked(u) \cup {<<l, q>>}
    <2> SUFFICES ASSUME NEW k \in Tracked(u)', k # <<l, q>> PROVE k \in Tracked(u)
      OBVIOUS
    <2>1. k \in DOMAIN progress /\ progress'[k] = progress[k]
      BY Upserted DEF Tracked
    <2>2. QED
      BY <1>1, <2>1 DEF Tracked, Of
  <1>3. ASSUME row.status # "tracked" \/ links[l].user # u PROVE Tracked(u)' \subseteq Tracked(u)
    <2> SUFFICES ASSUME <<l, q>> \in Tracked(u)' PROVE <<l, q>> \in Tracked(u)
      BY <1>2
    <2> DEFINE k == <<l, q>>
    <2>1. k[1] \in Of(u)' /\ progress'[k].status = "tracked"
      BY DEF Tracked
    <2>2. links[l].user = u
      BY <1>1, <2>1 DEF Of
    <2>3. k \in DOMAIN progress /\ progress'[k] = progress[k]
      BY <1>3, <2>1, <2>2, Upserted
    <2>4. QED
      BY <1>1, <2>1, <2>3 DEF Tracked, Of
  <1>4. IsFiniteSet(Tracked(u)) /\ Cardinality(Tracked(u)) \in Nat
    BY TrackedFinite DEF CompanionOK
  <1>5. Cardinality(Tracked(u)') \in Nat /\ Cardinality(Tracked(u)') <= Cardinality(Tracked(u)) + 1
    BY <1>2, <1>4, OneMore
  <1>6. row.status # "tracked" \/ links[l].user # u =>
          Cardinality(Tracked(u)') <= Cardinality(Tracked(u))
    BY <1>3, <1>4, PartOf
  <1>7. QED
    BY <1>2, <1>3, <1>4, <1>5, <1>6

(* The command itself, and the others while it writes. *)
LEMMA WriteKeeps ==
  ASSUME CompanionOK, NEW w \in Commands, talk[w].kind # "none", NEW l \in DOMAIN links, l = talk[w].link,
         NEW q, NEW row, upsertProgress(l, q, row), UNCHANGED table,
         NEW s, Says(w, s), TalkOK(s), SeedOK(s)', TrackOK(s)',
         s.kind = "none" \/ (s.kind = talk[w].kind /\ s.user = talk[w].user /\ s.alone = talk[w].alone),
         \/ row.source = "self_report"
         \/ row.source = "auction_seed" /\ row.status = "done"
         \/ talk[w].kind = "seed",
         raced \subseteq raced',
         \/ row.status # "tracked"
         \/ talk[w].kind = "track" /\ talk[w].pc = "report" /\ (~talk[w].alone => talk[w].user \subseteq raced')
  PROVE  CompanionOK'
  <1>1. PICK u \in Users : talk[w].user = {u}
    BY DEF CompanionOK, TalkOK
  <1>2. links[l].user = u /\ TalkOK(talk[w]) /\ TrackOK(talk[w])
    BY <1>1 DEF CompanionOK, TalkOK
  <1>3. ProgressOK'
    BY Upserted
  <1>4. UNCHANGED <<links, lastLink>>
    BY DEF table
  <1>5. \A v \in Commands \ {w} : talk'[v] = talk[v]
    BY DEF Says, CompanionOK
  <1>6. TrackedInTurn'
    <2> SUFFICES ASSUME NEW x \in Users \ raced' PROVE Cardinality(Tracked(x)') <= TrackedCap
      BY DEF TrackedInTurn
    <2>1. Cardinality(Tracked(x)) <= TrackedCap
      BY DEF CompanionOK, TrackedInTurn
    <2>2. CASE row.status # "tracked" \/ x # u
      BY <1>2, <2>1, <2>2, TrackedKept, CompanionAssumption
    <2>3. CASE row.status = "tracked" /\ x = u
      <3>1. talk[w].alone /\ u \notin raced
        BY <1>1, <2>3
      <3>2. Cardinality(Tracked(u)) < TrackedCap
        BY <1>1, <1>2, <2>3, <3>1 DEF TrackOK
      <3>3. QED
        BY <2>3, <3>2, TrackedKept, CompanionAssumption
    <2>4. QED
      BY <2>2, <2>3
  <1>7. ASSUME NEW v \in Commands \ {w} PROVE TrackOK(talk[v])'
    <2> SUFFICES ASSUME talk[v].kind = "track", talk[v].pc \in {"find", "report"}, talk[v].alone,
                        NEW x \in talk[v].user \ raced'
                 PROVE  Cardinality(Tracked(x)') < TrackedCap
      BY <1>5 DEF TrackOK
    <2>1. Cardinality(Tracked(x)) < TrackedCap
      BY DEF CompanionOK, TrackOK
    <2>2. row.status # "tracked" \/ x # u
      <3> SUFFICES ASSUME talk[w].kind = "track", x = u PROVE FALSE
        OBVIOUS
      <3>1. talk[v].user = {u}
        BY DEF CompanionOK, TalkOK
      <3>2. QED
        BY <1>1, <3>1 DEF CompanionOK, AloneOK
    <2>3. QED
      BY <1>2, <2>1, <2>2, TrackedKept, CompanionAssumption
  <1>8. ASSUME NEW v \in Commands \ {w} PROVE SeedOK(talk[v])'
    <2> SUFFICES ASSUME talk[v].kind = "seed", talk[v].alone, talk[v].link \in DOMAIN links,
                        NEW p \in talk[v].seeded
                 PROVE  Told(talk[v].link, p)'
      BY <1>4, <1>5 DEF SeedOK
    <2>1. PICK m : m = talk[v].link
      OBVIOUS
    <2>2. Told(m, p)
      BY <2>1 DEF CompanionOK, SeedOK
    <2>3. talk[w].kind = "seed" => m # l
      <3> SUFFICES ASSUME talk[w].kind = "seed", m = l PROVE FALSE
        OBVIOUS
      <3>1. talk[v].user = {u}
        BY <1>2, <2>1 DEF CompanionOK, TalkOK
      <3>2. QED
        BY <1>1, <3>1 DEF CompanionOK, AloneOK
    <2>4. Told(m, p)'
      BY <2>2, <2>3, ToldKept
    <2>5. QED
      BY <1>5, <2>1, <2>4
  <1>9. QED
    BY <1>3, <1>6, <1>7, <1>8, SaysKeeps

LEMMA SelfReportKeeps == ASSUME CompanionOK, NEW w \in Commands, selfReport(w) PROVE CompanionOK'
  <1>1. PICK l \in DOMAIN links : l = talk[w].link
    BY DEF selfReport
  <1>2. PICK q, row : /\ upsertProgress(l, q, row) /\ row.source = "self_report"
                      /\ row.status = IF talk[w].kind = "track" THEN "tracked" ELSE "done"
    <2>1. PICK q : upsertProgress(talk[w].link, q, [status |-> IF talk[w].kind = "track" THEN "tracked" ELSE "done",
                                                    source |-> "self_report"])
      BY DEF selfReport
    <2>2. PICK row : row = [status |-> IF talk[w].kind = "track" THEN "tracked" ELSE "done",
                            source |-> "self_report"]
      OBVIOUS
    <2>3. upsertProgress(l, q, row)
      BY <1>1, <2>1, <2>2 DEF upsertProgress, Recorded
    <2>4. QED
      BY <2>2, <2>3
  <1>3. /\ talk[w].pc = "report" /\ UNCHANGED table /\ Says(w, Silent)
        /\ raced' = IF talk[w].kind = "track" /\ ~talk[w].alone THEN raced \cup talk[w].user ELSE raced
    BY DEF selfReport, Ends
  <1>4. talk[w].kind # "none"
    BY <1>3 DEF CompanionOK, TalkOK
  <1>5. SeedOK(Silent)' /\ TrackOK(Silent)'
    BY SilentOK DEF SeedOK, TrackOK
  <1>6. raced \subseteq raced' /\ (talk[w].kind = "track" /\ ~talk[w].alone => talk[w].user \subseteq raced')
    BY <1>3
  <1>7. PICK s : s = Silent
    OBVIOUS
  <1>8. Says(w, s) /\ TalkOK(s) /\ SeedOK(s)' /\ TrackOK(s)' /\ s.kind = "none"
    BY <1>3, <1>5, <1>7, SilentOK
  <1>9. row.status # "tracked" \/ talk[w].kind = "track"
    BY <1>2
  <1>10. QED
    BY <1>1, <1>2, <1>3, <1>4, <1>6, <1>8, <1>9, WriteKeeps

LEMMA SeedKeeps == ASSUME CompanionOK, NEW w \in Commands, seedQuest(w) PROVE CompanionOK'
  <1> DEFINE r == talk[w]
  <1>1. PICK l \in DOMAIN links : l = r.link
    BY DEF seedQuest
  <1>2. r.pc = "seed" /\ UNCHANGED <<importVars, table, raced>>
    BY DEF seedQuest
  <1>3. TalkOK(r) /\ SeedOK(r) /\ DOMAIN r = Fields /\ r.kind = "seed"
    BY <1>2 DEF CompanionOK, TalkOK
  <1>4. PICK q, row : /\ upsertProgress(l, q, row) /\ row.source = "auction_seed" /\ row.status = "done"
                      /\ Says(w, [r EXCEPT !.pc = "labels", !.at = {}, !.seeded = r.seeded \cup {q}])
    <2>1. PICK q : /\ upsertProgress(r.link, q, [status |-> "done", source |-> "auction_seed"])
                   /\ Says(w, [r EXCEPT !.pc = "labels", !.at = {}, !.seeded = r.seeded \cup {q}])
      BY DEF seedQuest
    <2>2. PICK row : row = [status |-> "done", source |-> "auction_seed"]
      OBVIOUS
    <2>3. upsertProgress(l, q, row)
      BY <1>1, <2>1, <2>2 DEF upsertProgress, Recorded
    <2>4. QED
      BY <2>1, <2>2, <2>3
  <1> DEFINE new == [r EXCEPT !.pc = "labels", !.at = {}, !.seeded = r.seeded \cup {q}]
  <1>5. /\ DOMAIN new = Fields /\ new.pc = "labels" /\ new.kind = "seed" /\ new.user = r.user /\ new.link = l
        /\ new.alone = r.alone /\ new.seeded = r.seeded \cup {q}
    BY <1>1, <1>3 DEF Fields
  <1>6. PICK s : s = new
    OBVIOUS
  <1>7. Says(w, s)
    BY <1>4, <1>6 DEF Says
  <1> HIDE DEF new
  <1>8. TalkOK(s)
    BY <1>1, <1>3, <1>5, <1>6 DEF TalkOK
  <1>9. SeedOK(s)'
    <2> SUFFICES ASSUME s.alone, NEW p \in s.seeded PROVE Told(l, p)'
      BY <1>5, <1>6 DEF SeedOK
    <2>1. CASE p \in r.seeded
      <3>1. Told(l, p)
        BY <1>1, <1>3, <1>5, <1>6, <2>1 DEF SeedOK
      <3>2. QED
        BY <1>2, <1>4, <3>1, ToldKept
    <2>2. CASE p = q
      <3>1. UNCHANGED table /\ upsertProgress(l, q, row)
        BY <1>2, <1>4
      <3>2. /\ <<l, q>> \in DOMAIN progress'
            /\ progress'[<<l, q>>] = row \/ progress'[<<l, q>>].source = "self_report"
        BY <3>1, Upserted, ZenonT(30)
      <3>3. Told(l, q)'
        BY <1>4, <3>2 DEF Told
      <3>4. QED
        BY <2>2, <3>3
    <2>3. QED
      BY <1>5, <1>6, <2>1, <2>2
  <1>10. TrackOK(s)'
    BY <1>5, <1>6 DEF TrackOK
  <1>11. QED
    BY <1>1, <1>2, <1>3, <1>4, <1>5, <1>6, <1>7, <1>8, <1>9, <1>10, WriteKeeps

LEMMA InferKeeps == ASSUME CompanionOK, NEW w \in Commands, inferQuest(w) PROVE CompanionOK'
  <1> DEFINE r == talk[w]
  <1>1. PICK l \in DOMAIN links : l = r.link
    BY DEF inferQuest
  <1>2. r.pc = "infer" /\ UNCHANGED <<importVars, table, raced>>
    BY DEF inferQuest
  <1>3. TalkOK(r) /\ SeedOK(r) /\ DOMAIN r = Fields /\ r.kind = "seed" /\ r.wins \cap r.seeded = {}
    BY <1>2 DEF CompanionOK, TalkOK
  <1>12. PICK row : row = [status |-> "done", source |-> "achievement_inferred"]
    OBVIOUS
  <1>4. PICK q \in r.wins : /\ upsertProgress(l, q, row) /\ row.status = "done"
                            /\ Says(w, [r EXCEPT !.wins = r.wins \ {q}])
    <2>1. PICK q \in r.wins : /\ upsertProgress(r.link, q, [status |-> "done", source |-> "achievement_inferred"])
                              /\ Says(w, [r EXCEPT !.wins = r.wins \ {q}])
      BY DEF inferQuest
    <2>2. upsertProgress(l, q, row)
      BY <1>1, <1>12, <2>1 DEF upsertProgress, Recorded
    <2>3. QED
      BY <1>12, <2>1, <2>2
  <1> DEFINE new == [r EXCEPT !.wins = r.wins \ {q}]
  <1>5. /\ DOMAIN new = Fields /\ new.pc = "infer" /\ new.kind = "seed" /\ new.user = r.user /\ new.link = l
        /\ new.alone = r.alone /\ new.seeded = r.seeded /\ new.wins = r.wins \ {q}
    BY <1>1, <1>2, <1>3 DEF Fields
  <1>6. PICK s : s = new
    OBVIOUS
  <1>7. Says(w, s)
    BY <1>4, <1>6 DEF Says
  <1> HIDE DEF new
  <1>8. TalkOK(s)
    BY <1>1, <1>3, <1>5, <1>6 DEF TalkOK
  <1>9. SeedOK(s)'
    <2> SUFFICES ASSUME s.alone, NEW p \in s.seeded PROVE Told(l, p)'
      BY <1>5, <1>6 DEF SeedOK
    <2>1. Told(l, p) /\ p # q
      BY <1>1, <1>3, <1>5, <1>6 DEF SeedOK
    <2>2. QED
      BY <1>2, <1>4, <2>1, ToldKept
  <1>10. TrackOK(s)'
    BY <1>5, <1>6 DEF TrackOK
  <1>11. QED
    BY <1>1, <1>2, <1>3, <1>4, <1>5, <1>6, <1>7, <1>8, <1>9, <1>10, WriteKeeps

-----------------------------------------------------------------------------
LEMMA CompanionBegins == Init => CompanionOK
  <1> SUFFICES ASSUME Init PROVE CompanionOK
    OBVIOUS
  <1>1. DOMAIN links = {} /\ lastLink = 0 /\ DOMAIN progress = {} /\ talk = [w \in Commands |-> Silent]
    BY DEF Init, TableInit
  <1>2. links \in [{} -> Link]
    BY DEF Init, TableInit
  <1>3. TableOK /\ ProgressOK
    BY <1>1, <1>2, FS_EmptySet DEF TableOK, ProgressOK
  <1>4. TrackedInTurn
    <2>1. \A u : Tracked(u) = {}
      BY <1>1 DEF Tracked
    <2>2. Cardinality({}) = 0
      BY FS_EmptySet
    <2>3. TrackedCap \in Nat
      BY CompanionAssumption
    <2>4. QED
      BY <2>1, <2>2, <2>3 DEF TrackedInTurn
  <1>5. QED
    BY <1>1, <1>3, <1>4, SilentOK DEF CompanionOK, AloneOK

(* Every step keeps what the companion relies on; an import touches none of it. *)
LEMMA CompanionKeeps == CompanionOK /\ [Next]_vars => CompanionOK'
  <1> SUFFICES ASSUME CompanionOK, [Next]_vars PROVE CompanionOK'
    OBVIOUS
  <1>1. CASE UNCHANGED <<table, companionVars>>
    <2>1. UNCHANGED <<links, lastLink, progress, talk, raced>>
      BY <1>1 DEF table, companionVars
    <2>2. TableOK' /\ lastLink' >= lastLink
      BY <2>1 DEF CompanionOK, TableOK
    <2>3. DOMAIN progress' = {k \in DOMAIN progress : k[1] \in DOMAIN links'}
      BY <2>1 DEF CompanionOK, ProgressOK
    <2>4. QED
      BY <2>1, <2>2, <2>3, TableKeeps
  <1>2. ASSUME NEW w \in Commands, Step(w) PROVE CompanionOK'
    BY <1>2, StepReadsKeep, SelfReportKeeps, SeedKeeps, InferKeeps DEF Step, StepReads
  <1>3. QED
    BY <1>1, <1>2, OwnersKeep, StartKeeps DEF Next, vars

(* Who tracks one quest after the other stays within the cap: the count is taken two awaits before
   the write (questCommand.ts:35 and :48). *)
THEOREM TracksInTurn == Spec => []TrackedInTurn
  <1>1. CompanionOK => TrackedInTurn
    BY DEF CompanionOK
  <1>2. QED
    BY <1>1, CompanionBegins, CompanionKeeps, PTL DEF Spec

(* A seed that meets no other has stored what it tells: every quest a label named is done with the
   better confidence, whatever else is reported, removed and imported meanwhile
   (questSeedService.ts:92). *)
THEOREM SeedIsStored == Spec => []SeedToldIsStored
  <1>1. CompanionOK => SeedToldIsStored
    BY DEF CompanionOK, TalkOK, SeedOK, Told, SeedToldIsStored
  <1>2. QED
    BY <1>1, CompanionBegins, CompanionKeeps, PTL DEF Spec

(* With a single character what is suggested is allowed, whatever the check lists; while it lists
   all there is, what it allows is suggested or finds no room and ranks before nothing that is
   (questEligibilityService.ts:37-38, questRepository.ts:148-154). *)
THEOREM CheckAgreesWithNext == Spec => []CheckAndNextAgree
  <1>1. CompanionOK => CheckAndNextAgree
    <2> SUFFICES ASSUME CompanionOK, NEW u \in Users, NEW l \in mainCharacter(u), NEW shown \in nextEligible(l)
                 PROVE  /\ Of(u) = {l} => \A q \in shown, listing \in Listings(u) : check(u, q, listing)
                        /\ Cardinality(DoneRows(u)) <= ProgressLimit =>
                             \A q \in Active \ shown, listing \in Listings(u) :
                               check(u, q, listing) =>
                                 Cardinality(shown) = NextLimit /\ \A r \in shown : ~Before(l, q, r)
      BY DEF CheckAndNextAgree
    <2>1. l \in Of(u) /\ l \in mainCharacter(u)
      BY DEF mainCharacter
    <2>2. /\ shown \subseteq Eligible(l)
          /\ shown = Eligible(l) \/ Cardinality(shown) = NextLimit
          /\ \A q \in shown, r \in Eligible(l) \ shown : ~Before(l, r, q)
      BY DEF nextEligible
    <2>3. ASSUME Of(u) = {l}, NEW q \in shown, NEW listing \in Listings(u) PROVE check(u, q, listing)
      <3>1. q \in Eligible(l)
        BY <2>2
      <3>2. \A k \in DoneRows(u) : k[2] # q
        BY <2>3, <3>1 DEF DoneRows, Eligible, CompanionOK, ProgressOK
      <3>3. \A k \in listing : k[2] # q
        BY <3>2 DEF Listings
      <3>4. \A k \in mainCharacter(u) : k = l
        BY <2>3 DEF mainCharacter
      <3>5. QED
        BY <3>1, <3>3, <3>4 DEF check, Eligible
    <2>4. ASSUME Cardinality(DoneRows(u)) <= ProgressLimit,
                 NEW q \in Active \ shown, NEW listing \in Listings(u), check(u, q, listing)
          PROVE  Cardinality(shown) = NextLimit /\ \A r \in shown : ~Before(l, q, r)
      <3>1. listing = DoneRows(u)
        BY <2>4 DEF Listings
      <3>2. /\ \A m \in MinLevel[q] : LevelOf[links[l].character] >= m
            /\ PremiumQuest[q] => PremiumOf[links[l].character]
            /\ \A k \in DoneRows(u) : k[2] # q
        BY <2>1, <2>4, <3>1 DEF check
      <3>3. ~(<<l, q>> \in DOMAIN progress /\ progress[<<l, q>>].status = "done")
        BY <2>1, <3>2 DEF DoneRows
      <3>4. q \in Eligible(l) \ shown
        BY <3>2, <3>3 DEF Eligible
      <3>5. QED
        BY <2>2, <3>4
    <2>5. QED
      BY <2>3, <2>4
  <1>2. QED
    BY <1>1, CompanionBegins, CompanionKeeps, PTL DEF Spec

-----------------------------------------------------------------------------
(* What a player has said only the player corrects: it needs no invariant.  *)

(* A write that is not the player's leaves what the player has said. *)
LEMMA UpsertKeepsReport ==
  ASSUME NEW l, NEW q, NEW row, upsertProgress(l, q, row),
         NEW k \in DOMAIN progress, progress[k].source = "self_report"
  PROVE  k \in DOMAIN progress' /\ progress'[k].source = "self_report"
  <1>1. CASE UNCHANGED progress
    BY <1>1
  <1>2. CASE progress' = Recorded(<<l, q>>, row) /\ ~(k = <<l, q>> /\ row.source # "self_report")
    <2>1. k \in DOMAIN Recorded(<<l, q>>, row)
          /\ Recorded(<<l, q>>, row)[k] = IF k = <<l, q>> THEN row ELSE progress[k]
      BY DEF Recorded
    <2>2. QED
      BY <1>2, <2>1
  <1>3. QED
    BY <1>1, <1>2 DEF upsertProgress

(* No step of any actor takes back or overwrites what a player has said while the link is there *)
(* (questRepository.ts:114).                                                                    *)
THEOREM SelfReportIsKept == Spec => SelfReportKept
  <1> DEFINE Kept(k) == \/ k \in DOMAIN progress' /\ progress'[k].source = "self_report"
                        \/ k[1] \notin DOMAIN links'
  <1>1. ASSUME [Next]_vars, NEW k \in DOMAIN progress, progress[k].source = "self_report"
        PROVE  Kept(k)
    <2>0. CASE UNCHANGED progress
      BY <1>1, <2>0
    <2>1. ASSUME NEW S, Removed(S) PROVE Kept(k)
      <3>1. CASE k[1] \in S
        BY <2>1, <3>1 DEF Removed, Delete, Without
      <3>2. CASE k[1] \notin S
        BY <1>1, <2>1, <3>2 DEF Removed
      <3>3. QED
        BY <3>1, <3>2
    <2>2. ASSUME NEW w \in Commands, selfReport(w) PROVE Kept(k)
      <3>1. PICK l, q, row : upsertProgress(l, q, row)
        BY <2>2 DEF selfReport, upsertProgress, Recorded
      <3>2. QED
        BY <1>1, <3>1, UpsertKeepsReport
    <2>3. ASSUME NEW w \in Commands, seedQuest(w) PROVE Kept(k)
      <3>1. PICK q : upsertProgress(talk[w].link, q, [status |-> "done", source |-> "auction_seed"])
        BY <2>3 DEF seedQuest
      <3>2. PICK l, row : l = talk[w].link /\ row = [status |-> "done", source |-> "auction_seed"]
        OBVIOUS
      <3>3. upsertProgress(l, q, row)
        BY <3>1, <3>2 DEF upsertProgress, Recorded
      <3>4. QED
        BY <1>1, <3>3, UpsertKeepsReport
    <2>4. ASSUME NEW w \in Commands, inferQuest(w) PROVE Kept(k)
      <3>1. PICK q : upsertProgress(talk[w].link, q, [status |-> "done", source |-> "achievement_inferred"])
        BY <2>4 DEF inferQuest
      <3>2. PICK l, row : l = talk[w].link /\ row = [status |-> "done", source |-> "achievement_inferred"]
        OBVIOUS
      <3>3. upsertProgress(l, q, row)
        BY <3>1, <3>2 DEF upsertProgress, Recorded
      <3>4. QED
        BY <1>1, <3>3, UpsertKeepsReport
    <2>5. ASSUME NEW w \in Commands, Step(w) PROVE Kept(k)
      BY <2>0, <2>2, <2>3, <2>4, <2>5
         DEF Step, Reads, countTracked, findByNameLoose, findByLabelExact, findByAchievementNames, reply, commandFails
    <2>6. ASSUME NEW w \in Commands, NEW u \in Users, Start(w, u) PROVE UNCHANGED progress
      BY <2>6 DEF Start, questCommand, seedFromAuction, Reads
    <2>7. CASE Owners
      BY <2>0, <2>1, <2>7 DEF Owners, Linked, NowVerified, companionVars
    <2>8. CASE UNCHANGED companionVars
      BY <2>0, <2>8 DEF companionVars
    <2>9. QED
      BY <1>1, <2>5, <2>6, <2>7, <2>8, <2>0 DEF Next, vars
  <1>2. [Next]_vars => [\A k \in DOMAIN progress : progress[k].source = "self_report" => Kept(k)]_vars
    BY <1>1
  <1>3. QED
    BY <1>2, PTL DEF Spec, SelfReportKept
=============================================================================
