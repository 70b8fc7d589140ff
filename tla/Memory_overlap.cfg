SPECIFICATION Spec
CONSTANTS
    u1 = u1
    u2 = u2
    t1 = t1
    t2 = t2
    w1 = w1
    Users = {u1}
    Ticks = {t1, t2}
    Writers = {w1}
    Names = {"main", "quest"}
    Main = "main"
    UsersPerTick = 1
    CapturesPerBatch = 1
    FactCap = 1
    MaxOps = 2
    MaxMentions = 0
    MaxCaptures = 1
    MaxFacts = 4
    MaxWipes = 0
    MaxLost = 1
    Faults = {"database"}
INVARIANTS
    FactOvershootBounded
    HistoryIsChain
    CallsBounded
SYMMETRY AnyTick
