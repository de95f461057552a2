\* The missing notify_shutdown: a sleeper that shutdown does not wake.
CONSTANTS
    p1 = p1
    p2 = p2
    d1 = d1
    d2 = d2
    d3 = d3
    WorldSize = 3
    Producers = {p1, p2}
    Dispatchers = {d1, d2}
    Request <- MCFewRequests
SPECIFICATION FairSpec
PROPERTY ShutdownEndsWaiting
\* After shutdown every thread may be out for good.
CHECK_DEADLOCK FALSE
