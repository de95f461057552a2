\* The request counter passes the largest int.
CONSTANTS
    t1 = t1
    t2 = t2
    WorldSize = 3
    HttpThreads = {t1}
    Models <- MCModels
    Group <- MCGroup
    Submissions <- MCFewSubmissions
    LoraPrompts <- MCLoraPrompts
    Oversized <- MCOversized
    MaxInt = 1
    MaxSubmissions = 2
    Buffering = {TRUE}
    Synchronizing = {TRUE}
    MpiErrors = FALSE
SPECIFICATION Spec
INVARIANT IssuedIdsCanBeAskedFor
