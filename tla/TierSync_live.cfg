SPECIFICATION FairSpec
CONSTANTS
    u1 = u1
    s1 = s1
    s2 = s2
    s3 = s3
    NoUser = NoUser
    Users = {u1}
    Subs = {s1, s2}
    Owner <- TwoOfOne
    Statuses = {"active", "incomplete", "paused", "none"}
    OperatorTiers = {}
    Runs = {"r1"}
    Faults = {"stripe", "database", "restart"}
    SessionPage = 1
    MaxSessions = 2
PROPERTIES
    SubscriberKeepsTier
    LapsedLosesProUnlessStranded
