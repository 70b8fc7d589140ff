------------------------------ MODULE MCQuests ------------------------------
(* The quest importer and the companion together: two quests, one of them   *)
(* in the corpus from the start, and a user with a character or two.        *)
EXTENDS QuestCompanion, TLC

CONSTANTS u1, c1, c2, w1, w2, cult, desert

(* cult is the exact title of one and the quest line of the other. *)
MCExact == [n \in {"cult"} |-> <<cult, desert>>]
MCLoose == [n \in {"cult", "des"} |-> IF n = "cult" THEN <<cult, desert>> ELSE <<desert>>]
MCAchieving == [q \in Quests |-> IF q = cult THEN {"friend"} ELSE {"friend", "digger"}]
MCAuctions == {[mentions |-> {c1, c2}, labels |-> {"cult"}, achievements |-> {"friend"}],
               [mentions |-> {c1}, labels |-> {"sand"}, achievements |-> {}]}
MCLabelMap == [n \in {"sand"} |-> desert]
MCOrder == <<c2, c1>>
MCLevel == [c \in Characters |-> IF c = c1 THEN 8 ELSE 7]
MCPremium == [c \in Characters |-> c = c1]
MCMinLevel == [q \in Quests |-> IF q = cult THEN {} ELSE {8}]
MCSuited == [q \in Quests |-> IF q = cult THEN 20 ELSE 8]
MCPremiumQuest == [q \in Quests |-> q = cult]

(* Imports alone, one or two at a time; commands, two with a character or one with two; both. *)
MCScenarios ==
    {[corpus |-> {desert}, imports |-> {"timer"}, edits |-> 2, commands |-> {}, characters |-> {}, links |-> 0],
     [corpus |-> {desert}, imports |-> Imports, edits |-> 1, commands |-> {}, characters |-> {}, links |-> 0],
     [corpus |-> Quests, imports |-> {}, edits |-> 0, commands |-> Commands, characters |-> {c1}, links |-> 2],
     [corpus |-> Quests, imports |-> {}, edits |-> 0, commands |-> {w1}, characters |-> Characters, links |-> 2],
     [corpus |-> {desert}, imports |-> {"timer"}, edits |-> 0, commands |-> {w1}, characters |-> {c1}, links |-> 1]}
=============================================================================
