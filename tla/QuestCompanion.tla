--------------------------- MODULE QuestCompanion ---------------------------
(***************************************************************************)
(* The quest companion on top of the corpus QuestImport fills and the      *)
(* links of LinkTable: /quest track and done, /link seed from an auction,  *)
(* and what /quest next and the eligibility check read.  A command is a    *)
(* sequence of statements; others, the import and the owner of the links   *)
(* go on between any two of them.  The capture of a seed is one of         *)
(* Memory's; tiers and snapshots rest, so both are constants here.         *)
(***************************************************************************)
EXTENDS QuestImport, LinkTable, Sequences, SequencesExt, Functions

CONSTANTS Commands,     \* commands under way
          TrackedCap,   \* trackedQuests of everybody's tier
          Exact, Loose, \* Exact[name]: what a name may mean, the best match first; Loose goes on after it
          LabelMap,     \* the quests of the labels that are curated
          Achieving,    \* Achieving[q]: the achievements the page of q names
          Auctions,     \* what an auction page says, see seedFromAuction
          Order,        \* the characters by name
          LevelOf, PremiumOf,       \* of a character
          MinLevel, PremiumQuest,   \* of a quest; MinLevel[q] is {} for null
          Suited,                   \* the level a quest is recommended for, else its least one, else 0
          ProgressLimit,            \* rows of progress the check reads
          NextLimit                 \* quests /quest next shows

ASSUME CompanionAssumption ==
    /\ TrackedCap \in Nat /\ ToSet(Order) = Characters
    /\ \A s \in Scenarios : s.commands \subseteq Commands /\ s.characters \subseteq Characters /\ s.links \in Nat
    /\ ProgressLimit \in Nat /\ NextLimit \in Nat /\ Suited \in [Quests -> Nat]
    /\ \A n \in DOMAIN Exact : IsPrefix(Exact[n], Loose[n])

VARIABLES progress,     \* quest_progress, by link and quest
          talk          \* talk[w]: the local state of a command

(* History: users who tracked two quests at once. *)
VARIABLE raced

companionVars == <<progress, talk, raced>>
vars == <<importVars, table, companionVars>>

(* at holds the quest at hand; wins the achievements of an auction, then the quests they stand for. *)
Silent == [pc |-> "none", kind |-> "none", user |-> {}, link |-> 0, names |-> {}, at |-> {}, wins |-> {},
           seeded |-> {}, alone |-> TRUE]

Init ==
    /\ ImportInit /\ TableInit
    /\ progress = <<>>
    /\ talk = [w \in Commands |-> Silent]
    /\ raced = {}

-----------------------------------------------------------------------------
(* Links come and go; their progress goes with them. *)

Linked(u, c) ==
    /\ lastLink < scenario.links /\ c \in scenario.characters
    /\ Insert(u, c, Of(u) = {})
    /\ UNCHANGED <<importVars, companionVars>>

NowVerified(l) == Verify(l) /\ UNCHANGED <<importVars, companionVars>>

Removed(S) ==
    /\ Delete(S)
    /\ progress' = [k \in {k \in DOMAIN progress : k[1] \notin S} |-> progress[k]]
    /\ UNCHANGED <<importVars, talk, raced>>

-----------------------------------------------------------------------------
(* questRepository. *)

(* listForUser: the main character first, then by name. *)
Earlier(l, m) ==
    IF links[l].main # links[m].main THEN links[l].main
    ELSE IndexFirstSubSeq(<<links[l].character>>, Order) <= IndexFirstSubSeq(<<links[m].character>>, Order)
FirstLink(S) == {l \in S : \A m \in S : Earlier(l, m)}

(* The first quest a name may mean that is in the corpus: a set of one, or none. *)
Find(candidates) ==
    LET known == SelectSeq(candidates, LAMBDA q : q \in Active) IN IF known = <<>> THEN {} ELSE {known[1]}

Tracked(u) == {k \in DOMAIN progress : k[1] \in Of(u) /\ progress[k].status = "tracked"}

Recorded(k, row) == [x \in DOMAIN progress \cup {k} |-> IF x = k THEN row ELSE progress[x]]

(* MUTANT: the last word counts. *)
upsertProgress_LastWins(link, q, row) == progress' = Recorded(<<link, q>>, row)

(* Only the user corrects what the user has said. *)
upsertProgress(link, q, row) ==
    IF <<link, q>> \in DOMAIN progress /\ progress[<<link, q>>].source = "self_report" /\ row.source # "self_report"
    THEN UNCHANGED progress
    ELSE progress' = Recorded(<<link, q>>, row)

-----------------------------------------------------------------------------
(* Commands. *)

Says(w, s) == talk' = [talk EXCEPT ![w] = s]
Goes(w, pc) == Says(w, [talk[w] EXCEPT !.pc = pc])
Ends(w) == Says(w, Silent)
Reads == UNCHANGED <<importVars, table, progress, raced>>

(* A command starts; those of its kind and user that it meets are no longer alone. *)
Begins(w, s) ==
    LET met == {v \in Commands \ {w} : talk[v].kind = s.kind /\ talk[v].user = s.user}
    IN  talk' = [v \in Commands |-> IF v = w THEN [s EXCEPT !.alone = (met = {})]
                                    ELSE [talk[v] EXCEPT !.alone = talk[v].alone /\ v \notin met]]

(* resolveMainLink: the verified main character, else the first verified one. *)
questCommand(w, u, kind, name) ==
    LET verified == Of(u) \cap Verified
        mains == {l \in verified : links[l].main}
    IN  /\ talk[w].pc = "none"
        /\ \E l \in FirstLink(IF mains # {} THEN mains ELSE verified) :
             Begins(w, [Silent EXCEPT !.pc = IF kind = "track" THEN "count" ELSE "find", !.kind = kind, !.user = {u},
                                      !.link = l, !.names = {name}])
        /\ Reads

Mine(w) == CHOOSE u \in Users : u \in talk[w].user

(* MUTANT: the cap is one more. *)
countTracked_OffByOne(w) ==
    /\ talk[w].pc = "count"
    /\ IF Cardinality(Tracked(Mine(w))) > TrackedCap THEN Ends(w) ELSE Goes(w, "find")
    /\ Reads

countTracked(w) ==
    /\ talk[w].pc = "count"
    /\ IF Cardinality(Tracked(Mine(w))) >= TrackedCap THEN Ends(w) ELSE Goes(w, "find")
    /\ Reads

findByNameLoose(w) ==
    /\ talk[w].pc = "find"
    /\ \E name \in talk[w].names :
         LET found == Find(Loose[name])
         IN  IF found = {} THEN Ends(w) ELSE Says(w, [talk[w] EXCEPT !.pc = "report", !.names = {}, !.at = found])
    /\ Reads

(* Refused if the link has gone, as every write of progress. *)
selfReport(w) ==
    /\ talk[w].pc = "report" /\ talk[w].link \in DOMAIN links
    /\ \E q \in talk[w].at :
         upsertProgress(talk[w].link, q, [status |-> IF talk[w].kind = "track" THEN "tracked" ELSE "done", source |-> "self_report"])
    /\ raced' = IF talk[w].kind = "track" /\ ~talk[w].alone THEN raced \cup talk[w].user ELSE raced
    /\ Ends(w)
    /\ UNCHANGED <<importVars, table>>

(* The character must be one the user has linked, verified or not. *)
seedFromAuction(w, u, auction) ==
    /\ talk[w].pc = "none"
    /\ \E l \in FirstLink({l \in Of(u) : links[l].character \in auction.mentions}) :
         Begins(w, [Silent EXCEPT !.pc = "labels", !.kind = "seed", !.user = {u}, !.link = l,
                                  !.names = auction.labels, !.wins = auction.achievements])
    /\ Reads

(* A curated label stands for its quest, any other for what it matches; one that is unknown to *)
(* the corpus is passed over.                                                                   *)
findByLabelExact(w) ==
    /\ talk[w].pc = "labels"
    /\ \E label \in talk[w].names :
         LET found == Find(IF label \in DOMAIN LabelMap THEN <<LabelMap[label]>> ELSE Exact[label])
         IN  Says(w, [talk[w] EXCEPT !.pc = IF found = {} THEN "labels" ELSE "seed", !.names = talk[w].names \ {label}, !.at = found])
    /\ Reads

seedQuest(w) ==
    /\ talk[w].pc = "seed" /\ talk[w].link \in DOMAIN links
    /\ \E q \in talk[w].at :
         /\ upsertProgress(talk[w].link, q, [status |-> "done", source |-> "auction_seed"])
         /\ Says(w, [talk[w] EXCEPT !.pc = "labels", !.at = {}, !.seeded = talk[w].seeded \cup {q}])
    /\ UNCHANGED <<importVars, table, raced>>

(* MUTANT: what the labels have seeded is inferred again. *)
findByAchievementNames_All(w) ==
    /\ talk[w].pc = "labels" /\ talk[w].names = {}
    /\ Says(w, [talk[w] EXCEPT !.pc = "infer", !.wins = {q \in Active : Achieving[q] \cap talk[w].wins # {}}])
    /\ Reads

(* The quests the achievements stand for, but for those the labels have seeded. *)
findByAchievementNames(w) ==
    /\ talk[w].pc = "labels" /\ talk[w].names = {}
    /\ Says(w, [talk[w] EXCEPT !.pc = "infer", !.wins = {q \in Active \ talk[w].seeded : Achieving[q] \cap talk[w].wins # {}}])
    /\ Reads

inferQuest(w) ==
    /\ talk[w].pc = "infer" /\ talk[w].link \in DOMAIN links
    /\ \E q \in talk[w].wins :
         /\ upsertProgress(talk[w].link, q, [status |-> "done", source |-> "achievement_inferred"])
         /\ Says(w, [talk[w] EXCEPT !.wins = talk[w].wins \ {q}])
    /\ UNCHANGED <<importVars, table, raced>>

reply(w) == talk[w].pc = "infer" /\ talk[w].wins = {} /\ Ends(w) /\ Reads

(* A statement or the call is refused: what was written stays. *)
commandFails(w) == talk[w].pc # "none" /\ Ends(w) /\ Reads

Start(w, u) ==
    \/ w \in scenario.commands /\ \E kind \in {"track", "done"}, name \in DOMAIN Loose : questCommand(w, u, kind, name)
    \/ w \in scenario.commands /\ \E auction \in Auctions : seedFromAuction(w, u, auction)

Step(w) ==
    \/ countTracked(w) \/ findByNameLoose(w) \/ selfReport(w)
    \/ findByLabelExact(w) \/ seedQuest(w) \/ findByAchievementNames(w) \/ inferQuest(w)
    \/ reply(w) \/ commandFails(w)

Owners ==
    \/ \E u \in Users, c \in Characters : Linked(u, c)
    \/ \E l \in DOMAIN links : NowVerified(l)
    \/ \E u \in Users : Removed(Of(u)) \/ \E l \in Of(u) : Removed({l})

Next ==
    \/ ImportNext /\ UNCHANGED <<table, companionVars>>
    \/ Owners
    \/ \E w \in Commands : Step(w) \/ \E u \in Users : Start(w, u)

Spec == Init /\ [][Next]_vars

(* The timer starts an import again and again and each goes on, a day passes, and outages  *)
(* and days without a budget end.                                                          *)
FairSpec ==
    /\ Spec
    /\ \A r \in Imports : WF_vars(ImportStep(r) /\ UNCHANGED <<table, companionVars>>)
    /\ WF_vars(NewDay /\ UNCHANGED <<table, companionVars>>)
    /\ <>[][ImportWork \/ UNCHANGED importVars]_vars

-----------------------------------------------------------------------------
(* What a player is told: questEligibilityService. *)

(* The main character among the verified ones, else the link of the lowest id. *)
mainCharacter(u) ==
    LET verified == Of(u) \cap Verified
        best == IF \E l \in verified : links[l].main THEN {l \in verified : links[l].main} ELSE verified
    IN  {l \in best : \A m \in best : l <= m}

(* What listProgressForUser may list: rows of any character of the user, so many of them.  It *)
(* takes those that were written last; which these are is left open.                           *)
DoneRows(u) == {k \in DOMAIN progress : k[1] \in Of(u) /\ progress[k].status = "done"}
Listings(u) == {S \in SUBSET DoneRows(u) : IF Cardinality(DoneRows(u)) <= ProgressLimit THEN S = DoneRows(u)
                                            ELSE Cardinality(S) = ProgressLimit}

(* What the check says of a quest, by the rows that are listed. *)
check(u, q, listing) ==
    \A l \in mainCharacter(u) :
      LET c == links[l].character
      IN  /\ \A m \in MinLevel[q] : LevelOf[c] >= m
          /\ PremiumQuest[q] => PremiumOf[c]
          /\ \A k \in listing : k[2] # q

(* MUTANT: what is under way is not suggested. *)
Eligible_FreshOnly(l) ==
    {q \in Active : /\ <<l, q>> \notin DOMAIN progress
                    /\ \A m \in MinLevel[q] : m <= LevelOf[links[l].character]
                    /\ PremiumQuest[q] => PremiumOf[links[l].character]}

(* Done is asked of the link. *)
Eligible(l) ==
    {q \in Active : /\ ~(<<l, q>> \in DOMAIN progress /\ progress[<<l, q>>].status = "done")
                    /\ \A m \in MinLevel[q] : m <= LevelOf[links[l].character]
                    /\ PremiumQuest[q] => PremiumOf[links[l].character]}

(* What is tracked comes first, then what suits the level best. *)
Under(l, q) == <<l, q>> \in DOMAIN progress /\ progress[<<l, q>>].status = "tracked"
Apart(l, q) == LET level == LevelOf[links[l].character]
               IN  IF Suited[q] >= level THEN Suited[q] - level ELSE level - Suited[q]
Before(l, q, r) == IF Under(l, q) # Under(l, r) THEN Under(l, q) ELSE Apart(l, q) < Apart(l, r)

(* The answers there may be: ties are in any order. *)
nextEligible(l) ==
    {S \in SUBSET Eligible(l) :
       /\ IF Cardinality(Eligible(l)) <= NextLimit THEN S = Eligible(l) ELSE Cardinality(S) = NextLimit
       /\ \A q \in S, r \in Eligible(l) \ S : ~Before(l, r, q)}

-----------------------------------------------------------------------------
(* Every write of the importer is one WikiCopy allows: the text under a row's revision is at   *)
(* least as new, and a row over budget has no revision (wikiQuestImporter.ts:108 and :186).    *)
Corpora == INSTANCE WikiCopy WITH
            Titles <- Quests, Slugs <- Quests, NoTitle <- 0,
            revision <- [q \in Quests |-> page[q].revision],
            copy <- [q \in Quests |-> [title |-> q, revision |-> quest[q].revision, text |-> quest[q].text]]

WritesCopies == [][Corpora!CopyNext]_(Corpora!copyVars)

(* Once editors, outages and overspending end, every row has the text of its page; and, if      *)
(* imports do not overlap, its revision and, where there are any to tell, its steps, unless the *)
(* model failed at the last attempt.  Imports that overlap can undo each other for ever: the    *)
(* one that finds the budget spent takes away the steps the other has paid for.                 *)
CorpusConverges ==
    \A q \in Quests :
      /\ scenario.imports # {} => <>[](quest[q].text = page[q].revision)
      /\ Cardinality(scenario.imports) = 1 =>
           <>[](/\ quest[q].revision = page[q].revision
                /\ (quest[q].steps = quest[q].source \/ quest[q].malformed))

(* What a player has said of a quest only the player corrects, whatever is seeded meanwhile    *)
(* (questRepository.ts:114).                                                                   *)
SelfReportKept ==
    [][\A k \in DOMAIN progress :
         progress[k].source = "self_report" =>
           \/ k \in DOMAIN progress' /\ progress'[k].source = "self_report"
           \/ k[1] \notin DOMAIN links']_vars

(* Who tracks one quest after the other stays within the cap (questCommand.ts:35 counts, :48   *)
(* writes two awaits later).                                                                   *)
TrackedInTurn == \A u \in Users \ raced : Cardinality(Tracked(u)) <= TrackedCap

(* A seed that meets no other tells what it has left behind: every quest a label named is done *)
(* with the better confidence, unless the player has said otherwise or removed the link        *)
(* (questSeedService.ts:92).                                                                   *)
SeedToldIsStored ==
    \A w \in Commands :
      (talk[w].pc = "infer" /\ talk[w].wins = {} /\ talk[w].alone /\ talk[w].link \in DOMAIN links) =>
        \A q \in talk[w].seeded :
          /\ <<talk[w].link, q>> \in DOMAIN progress
          /\ LET row == progress[<<talk[w].link, q>>]
             IN  row.source = "self_report" \/ (row.source = "auction_seed" /\ row.status = "done")

(* What /quest next suggests to a user with a single character the check allows, whatever it    *)
(* lists.  While the rows it lists are all there are, what it allows is suggested, or as many    *)
(* others are as there is room for, of which none ranks behind it                                *)
(* (questEligibilityService.ts:37-38 asks the user, questRepository.ts:148-154 the link).        *)
CheckAndNextAgree ==
    \A u \in Users : \A l \in mainCharacter(u) : \A shown \in nextEligible(l) :
      /\ Of(u) = {l} => \A q \in shown, listing \in Listings(u) : check(u, q, listing)
      /\ Cardinality(DoneRows(u)) <= ProgressLimit =>
           \A q \in Active \ shown, listing \in Listings(u) :
             check(u, q, listing) => Cardinality(shown) = NextLimit /\ \A r \in shown : ~Before(l, q, r)
=============================================================================
