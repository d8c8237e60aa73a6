SPECIFICATION FairSpec
CONSTANTS
    s1 = s1
    s2 = s2
    t1 = t1
    t2 = t2
    t3 = t3
    Threads = {t1, t2, t3}
    Servers <- MCServers
    Malformed = Malformed
    MaxCalls = 4
CHECK_DEADLOCK FALSE
INVARIANTS
    TypeOK
    FlagsHaveThreads
    OneOriginAuth
PROPERTIES
    ListEnds
    PromosFollowAuth
