----------------------------- MODULE QuestImport -----------------------------
(***************************************************************************)
(* The quest importer: WikiQuestImporter.run, its weekly scheduler and the *)
(* statements of QuestRepository it uses.  A quest has an overview page,   *)
(* whose revision decides whether it is imported again, and may have a     *)
(* /Spoiler page, which a model rewrites into steps as long as the day's   *)
(* budget lasts.  Texts are versions, as in CatalogImport; the order of    *)
(* the pages is left open, and they are not deleted here: enumerate always *)
(* finds the same, and its await is one with that of start.  finish writes *)
(* the record of the run, which the program never reads.                   *)
(***************************************************************************)
EXTENDS Naturals, FiniteSets

CONSTANTS Quests,       \* the quests that have an overview page
          Imports,      \* the imports that can overlap
          Budget, Cost, \* of a day, and of one rewriting
          Scenarios,    \* what a behaviour is limited to, see scenario
          Faults        \* what may fail, among "wiki", "database", "provider", "restart"

ASSUME QuestAssumption ==
    /\ IsFiniteSet(Quests) /\ Budget \in Nat /\ Cost \in Nat
    /\ \A s \in Scenarios : s.corpus \subseteq Quests /\ s.imports \subseteq Imports /\ s.edits \in Nat

VARIABLES page,     \* page[q]: the revision of its overview, and its spoiler, 0 for none
          quest,    \* quest[q]: its row of the table quests
          spent,    \* the ai_usage of today
          import,   \* import[r]: the local state of a run
          scenario  \* chosen at the start: the quests imported before, whose pages rest; who is active; the bounds

importVars == <<page, quest, spent, import, scenario>>

(* Texts and revisions start at 1: 0 is no row, no revision, no steps, nothing to rewrite.  *)
(* malformed is history: the row was written from an answer without steps.                 *)
NoQuest == [text |-> 0, revision |-> 0, source |-> 0, steps |-> 0, malformed |-> FALSE]
Active == {q \in Quests : quest[q].text # 0}

Unknown == [q \in Quests |-> 0]
Idle == [pc |-> "idle", todo |-> {}, stored |-> Unknown, live |-> Unknown, at |-> {}, new |-> NoQuest]

ImportInit ==
    /\ page \in [Quests -> [revision : {1}, spoiler : {0, 1}]]
    /\ scenario \in Scenarios
    /\ \A q \in scenario.corpus : page[q].spoiler = 0
    /\ quest = [q \in Quests |-> IF q \in scenario.corpus THEN [NoQuest EXCEPT !.text = 1, !.revision = 1] ELSE NoQuest]
    /\ spent = 0
    /\ import = [r \in Imports |-> Idle]

-----------------------------------------------------------------------------
(* Editors, midnight, and the rest of the bot. *)

Edited == {e \in Quests \X {"revision", "spoiler"} : page[e[1]][e[2]] > 1}

EditPage(q, part) ==
    /\ q \notin scenario.corpus /\ page[q][part] < 2 /\ Cardinality(Edited) < scenario.edits
    /\ page' = [page EXCEPT ![q] = [page[q] EXCEPT ![part] = page[q][part] + 1]]
    /\ UNCHANGED <<quest, spent, import, scenario>>

NewDay == spent > 0 /\ spent' = 0 /\ UNCHANGED <<page, quest, import, scenario>>

PlayersSpend == spent < Budget /\ spent' = Budget /\ UNCHANGED <<page, quest, import, scenario>>

-----------------------------------------------------------------------------
(* A run: the reads, then one page after the other. *)

Doing(r, pc) == import[r].pc = pc
Then(r, s) == import' = [import EXCEPT ![r] = s]
On(r, pc) == Then(r, [import[r] EXCEPT !.pc = pc])
Page(r) == CHOOSE q \in Quests : q \in import[r].at
New(r) == import[r].new

(* The next page, or the end. *)
NextPage(r) ==
    Then(r, IF import[r].todo = {} THEN Idle ELSE [import[r] EXCEPT !.pc = "page", !.at = {}, !.new = NoQuest])

(* The timer, and the list of all overview pages; the previous run may still be under way. *)
start(r) == Doing(r, "idle") /\ r \in scenario.imports /\ On(r, "stored") /\ UNCHANGED <<page, quest, spent, scenario>>

sourceRevisions(r) ==
    /\ Doing(r, "stored")
    /\ Then(r, [import[r] EXCEPT !.pc = "revids", !.stored = [q \in Quests |-> quest[q].revision]])
    /\ UNCHANGED <<page, quest, spent, scenario>>

(* The pages whose revision is not the stored one. *)
fetchRevids(r) ==
    LET changed == {q \in Quests : page[q].revision # import[r].stored[q]}
    IN  /\ Doing(r, "revids")
        /\ Then(r, IF changed = {} THEN Idle
                   ELSE [Idle EXCEPT !.pc = "page", !.todo = changed,
                                     !.live = [q \in Quests |-> IF q \in changed THEN page[q].revision ELSE 0]])
        /\ UNCHANGED <<page, quest, spent, scenario>>

(* The overview as it is now. *)
fetchContent(r) ==
    /\ Doing(r, "page")
    /\ \E q \in import[r].todo :
         Then(r, [import[r] EXCEPT !.pc = "spoiler", !.todo = import[r].todo \ {q}, !.at = {q},
                                   !.new = [NoQuest EXCEPT !.text = page[q].revision, !.revision = import[r].live[q]]])
    /\ UNCHANGED <<page, quest, spent, scenario>>

(* Its spoiler, which may say nothing of the steps. *)
fetchSpoiler(r) ==
    /\ Doing(r, "spoiler")
    /\ Then(r, [import[r] EXCEPT !.pc = IF page[Page(r)].spoiler = 0 THEN "upsert" ELSE "spend",
                                 !.new = [New(r) EXCEPT !.source = page[Page(r)].spoiler]])
    /\ UNCHANGED <<page, quest, spent, scenario>>

(* MUTANT: the page counts as imported. *)
globalSpend_KeepsRevision(r) ==
    /\ Doing(r, "spend")
    /\ On(r, IF spent < Budget THEN "rewrite" ELSE "upsert")
    /\ UNCHANGED <<page, quest, spent, scenario>>

(* Over budget: no steps, and no revision, so that the next run reads the page again. *)
globalSpend(r) ==
    /\ Doing(r, "spend")
    /\ IF spent < Budget THEN On(r, "rewrite")
       ELSE Then(r, [import[r] EXCEPT !.pc = "upsert", !.new = [New(r) EXCEPT !.revision = 0]])
    /\ UNCHANGED <<page, quest, spent, scenario>>

(* A malformed answer costs the page its steps. *)
rewriteSteps(r) ==
    /\ Doing(r, "rewrite")
    /\ \/ Then(r, [import[r] EXCEPT !.pc = "record", !.new = [New(r) EXCEPT !.steps = New(r).source]])
       \/ "provider" \in Faults /\ Then(r, [import[r] EXCEPT !.pc = "record", !.new = [New(r) EXCEPT !.malformed = TRUE]])
    /\ UNCHANGED <<page, quest, spent, scenario>>

recordDistillUsage(r) ==
    /\ Doing(r, "record")
    /\ spent' = spent + Cost
    /\ On(r, "upsert")
    /\ UNCHANGED <<page, quest, scenario>>

(* MUTANT: the revision is the one that is current by now. *)
upsertQuest_RevisionOfNow(r) ==
    /\ Doing(r, "upsert")
    /\ quest' = [quest EXCEPT ![Page(r)] = [New(r) EXCEPT !.revision = IF New(r).revision = 0 THEN 0 ELSE page[Page(r)].revision]]
    /\ NextPage(r)
    /\ UNCHANGED <<page, spent, scenario>>

upsertQuest(r) ==
    /\ Doing(r, "upsert")
    /\ quest' = [quest EXCEPT ![Page(r)] = New(r)]
    /\ NextPage(r)
    /\ UNCHANGED <<page, spent, scenario>>

-----------------------------------------------------------------------------
(* Failures. *)

Refused(r) ==
    \/ "wiki" \in Faults /\ import[r].pc \in {"stored", "revids", "page", "spoiler"}
    \/ "database" \in Faults /\ import[r].pc \in {"stored", "spend", "record", "upsert"}
    \/ "provider" \in Faults /\ Doing(r, "rewrite")

(* The page has failed and the loop goes on. *)
pageFails(r) ==
    /\ import[r].at # {} /\ Refused(r)
    /\ NextPage(r)
    /\ UNCHANGED <<page, quest, spent, scenario>>

overviewFails(r) ==
    /\ Doing(r, "page") /\ Refused(r)
    /\ \E q \in import[r].todo :
         Then(r, IF import[r].todo = {q} THEN Idle ELSE [import[r] EXCEPT !.todo = import[r].todo \ {q}])
    /\ UNCHANGED <<page, quest, spent, scenario>>

(* The run has failed. *)
runFails(r) ==
    /\ import[r].pc \in {"stored", "revids"} /\ Refused(r)
    /\ Then(r, Idle)
    /\ UNCHANGED <<page, quest, spent, scenario>>

ImportsKilled ==
    /\ "restart" \in Faults /\ \E r \in Imports : ~Doing(r, "idle")
    /\ import' = [r \in Imports |-> Idle]
    /\ UNCHANGED <<page, quest, spent, scenario>>

ImportStep(r) ==
    \/ start(r) \/ sourceRevisions(r) \/ fetchRevids(r) \/ fetchContent(r) \/ fetchSpoiler(r)
    \/ globalSpend(r) \/ rewriteSteps(r) \/ recordDistillUsage(r) \/ upsertQuest(r)

ImportFailure == ImportsKilled \/ \E r \in Imports : pageFails(r) \/ overviewFails(r) \/ runFails(r)

ImportWork ==
    \/ NewDay \/ \E q \in Quests, part \in {"revision", "spoiler"} : EditPage(q, part)
    \/ \E r \in Imports : ImportStep(r)

ImportNext == ImportWork \/ PlayersSpend \/ ImportFailure

ImportSpec == ImportInit /\ [][ImportNext]_importVars
=============================================================================
