SPECIFICATION FairSpec
CONSTANTS
    u1 = u1
    c1 = c1
    c2 = c2
    w1 = w1
    w2 = w2
    cult = cult
    desert = desert
    Quests = {cult, desert}
    Imports = {"timer", "next"}
    Budget = 1
    Cost = 1
    Scenarios <- MCScenarios
    Faults = {"wiki", "database", "provider", "restart"}
    Users = {u1}
    Characters = {c1, c2}
    Commands = {w1, w2}
    TrackedCap = 1
    Exact <- MCExact
    Loose <- MCLoose
    LabelMap <- MCLabelMap
    Achieving <- MCAchieving
    Auctions <- MCAuctions
    Order <- MCOrder
    LevelOf <- MCLevel
    PremiumOf <- MCPremium
    MinLevel <- MCMinLevel
    PremiumQuest <- MCPremiumQuest
    Suited <- MCSuited
    ProgressLimit = 1
    NextLimit = 1
INVARIANTS
    TrackedInTurn
    SeedToldIsStored
    CheckAndNextAgree
PROPERTIES
    WritesCopies
    SelfReportKept
    CorpusConverges
