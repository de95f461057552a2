\* Liveness, with either kind of MPI library and failing MPI calls; the two
\* workers are one group, so a failed one may wait for the other.
CONSTANTS
    t1 = t1
    t2 = t2
    WorldSize = 3
    HttpThreads = {t1}
    Models <- MCModels
    Group <- MCPairGroup
    Submissions <- MCLiveSubmissions
    LoraPrompts <- MCLoraPrompts
    Oversized <- MCOversized
    MaxInt = 2
    MaxSubmissions = 2
    Buffering = {TRUE, FALSE}
    Synchronizing = {TRUE, FALSE}
    MpiErrors = TRUE
SPECIFICATION FairSpec
PROPERTIES
    EveryRequestAnswered
    ShutdownEndsSystem
