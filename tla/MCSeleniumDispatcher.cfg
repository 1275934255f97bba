SPECIFICATION FairSpec
CONSTANTS
    k1 = k1
    k2 = k2
    k3 = k3
    s1 = s1
    s2 = s2
    NoKey = NoKey
    AllSites = AllSites
    NotClearing = NotClearing
    Keys <- MCKeys
    Sites <- MCSites
    SiteOf <- MCSiteOf
    Events = {"stop", "clear", "other_worker", "factory_raises", "thread_raises", "job_raises"}
    MaxQueue = 3
    MaxDeaths = 1
INVARIANTS
    TypeOK
    TasksBalance
    AtMostOneJobPerKey
    PendingKeysAreJobs
    StoppedMeansNoThread
PROPERTIES JoinWaitsForJobs PendingKeysSettle JoinReturns
