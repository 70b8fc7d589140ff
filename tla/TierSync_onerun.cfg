SPECIFICATION Spec
CONSTANTS
    u1 = u1
    s1 = s1
    s2 = s2
    s3 = s3
    NoUser = NoUser
    Users = {u1}
    Subs = {s1, s2, s3}
    Owner <- TwoAndNobodys
    Statuses = {"active", "paused"}
    OperatorTiers = {"admin", "pro"}
    Runs = {"r1"}
    Faults = {"stripe"}
    SessionPage = 2
    MaxSessions = 2
INVARIANTS
    TypeOK
    NoStrandedPro
    ActiveRowHasTier
PROPERTY ImplementsContract
