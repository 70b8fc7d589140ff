SPECIFICATION Spec
CONSTANTS
    u1 = u1
    u2 = u2
    c1 = c1
    former = former
    c2 = c2
    a1 = a1
    a2 = a2
    w1 = w1
    w2 = w2
    Users = {u1, u2}
    Characters = {c1, former, c2}
    Avatars = {a1, a2}
    AvatarOf <- TwoNamesOfOne
    Commands = {w1, w2}
    LinkCap <- FreeAndPro
    MaxLinks = 3
    MaxCodes = 3
    MaxTrades = 1
INVARIANTS
    OnlyOwnersVerify
    ToldVerifiedIsVerified
    AddsInTurn
PROPERTY ImplementsTable
SYMMETRY Alike
CONSTRAINT SideBySide
