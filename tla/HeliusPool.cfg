SPECIFICATION FairSpec
CONSTANTS
    Enhanced = enhanced
    N = 2
    Classes = {enhanced}
    Tasks = {t1, t2}
    ClassOf <- OneClass
    Rate = 1
    MaxRetries = 1
    AuthThreshold = 2
    OpenTime = 1
    MaxCooldown = 1
    MaxSleep = 1
    MaxLoad = 0
INVARIANTS
    StreakTripsBreaker
PROPERTIES
    PoolRecovers
