SPECIFICATION FairSpec
CONSTANTS
    MinInterval = 1
    OpenAfterDenies = 2
    HalfOpenProbeAllowed = 1
    BaseSeconds = 1
    Factor = 2
    MaxSeconds = 3
    JitterSeconds = 1
    RetryAfters = {0, 5}
    NoJob = NoJob
    Drops <- AllDrops
    MaxDenies = 3
    MaxJobs = 2
INVARIANTS
    TypeOK
    BreakerFollowsDenies
    ProbeBudget
PROPERTIES
    DenyNeverShortens
    HalfOpenResolves
