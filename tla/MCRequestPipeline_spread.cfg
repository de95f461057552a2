\* Load: rank 2 stays idle while requests wait.
CONSTANTS
    t1 = t1
    t2 = t2
    WorldSize = 3
    HttpThreads = {t1, t2}
    Models <- MCModels
    Group <- MCGroup
    Submissions <- MCFewSubmissions
    LoraPrompts <- MCLoraPrompts
    Oversized <- MCOversized
    MaxInt = 3
    MaxSubmissions = 2
    Buffering = {TRUE}
    Synchronizing = {TRUE}
    MpiErrors = FALSE
SPECIFICATION FairSpec
PROPERTY LoadIsDistributed
