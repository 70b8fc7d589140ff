SPECIFICATION FairSpec
CONSTANTS
    u1 = u1
    u2 = u2
    t1 = t1
    t2 = t2
    w1 = w1
    Users = {u1, u2}
    Ticks = {t1}
    Writers = {}
    Names = {"quest"}
    Main = "main"
    UsersPerTick = 2
    CapturesPerBatch = 2
    FactCap = 1
    MaxOps = 1
    MaxMentions = 1
    MaxCaptures = 2
    MaxFacts = 2
    MaxWipes = 1
    MaxLost = 1
    Faults = {"provider", "restart"}
INVARIANTS
    TypeOK
    ForgottenAddsNoFact
PROPERTIES
    CapturesSettle
