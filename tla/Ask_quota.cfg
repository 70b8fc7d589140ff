SPECIFICATION Spec
CONSTANTS
    u1 = u1
    c1 = c1
    c2 = c2
    c3 = c3
    Users = {u1}
    Calls = {c1, c2, c3}
    TierNames = {"free", "pro"}
    Limit <- OneAndTwo
    RateMax = 1
    RateWindow = 1
    MaxRounds = 1
    MaxTools = 0
    Attempts = 1
    MaxCost = 1
    Cap = 1
    UsersPerTick = 2
    MaxBackground = 2
    Slow = {"getTier", "create", "callTool", "editReply"}
    Patience = 1
    Faults = {"database", "discord", "provider", "restart"}
INVARIANTS
    BurstBounded
    QuotaOvershootBounded
    SpendOvershootBounded
SYMMETRY AnyCall
