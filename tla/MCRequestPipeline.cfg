\* Safety and refinement: three ranks, two handlers, two requests of six kinds.
CONSTANTS
    t1 = t1
    t2 = t2
    WorldSize = 3
    HttpThreads = {t1, t2}
    Models <- MCModels
    Group <- MCGroup
    Submissions <- MCSubmissions
    LoraPrompts <- MCLoraPrompts
    Oversized <- MCOversized
    MaxInt = 2
    MaxSubmissions = 2
    Buffering = {TRUE, FALSE}
    Synchronizing = {TRUE}
    MpiErrors = TRUE
SYMMETRY MCSymmetry
SPECIFICATION Spec
INVARIANTS
    TypeOK
    RequestConservation
    BusyIffAssigned
    ChannelsQuiet
    BackendsInGroup
PROPERTY ImplementsLifecycle
