SPECIFICATION FairSpec
CONSTANTS
    u1 = u1
    c1 = c1
    c2 = c2
    c3 = c3
    Users = {u1}
    Calls = {c1}
    TierNames = {"free", "pro"}
    Limit <- OneAndTwo
    RateMax = 2
    RateWindow = 2
    MaxRounds = 2
    MaxTools = 2
    Attempts = 2
    MaxCost = 1
    Cap = 2
    UsersPerTick = 1
    MaxBackground = 1
    Slow = {"getTier", "create", "callTool", "editReply"}
    Patience = 2
    Faults = {"database", "discord", "provider", "restart"}
PROPERTIES
    ReplyMatchesCharge
    EveryAskEnds
