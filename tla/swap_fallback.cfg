SPECIFICATION PoolSpec
CONSTANTS
    Callers = {t1, t2, t3}
    Calls = 1
    Size = 2
    BuildFails = TRUE
    MaxPools = 3
INVARIANTS LeasesExact PublishedIsOpen CleanCallsSucceed
PROPERTIES CallsReturn
CHECK_DEADLOCK FALSE
