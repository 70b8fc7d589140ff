SPECIFICATION FairSpec
CONSTANTS
    u1 = u1
    s1 = s1
    s2 = s2
    s3 = s3
    NoUser = NoUser
    Users = {u1}
    Subs = {s1}
    Owner <- Single
    Statuses = {"active", "canceled"}
    OperatorTiers = {}
    Runs = {"r1"}
    Faults = {"database"}
    SessionPage = 2
    MaxSessions = 2
PROPERTY LapsedSubscriberLosesPro
