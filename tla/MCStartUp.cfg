\* Three ranks, any topology file, failures everywhere.  A rank whose freeing
\* waits for members that never free stops the system.
CONSTANTS
    WorldSize = 3
    IntValues = 32
    Bad = Bad
    Unreadable = Unreadable
    Unparsable = Unparsable
    TooLarge = TooLarge
    Empty = Empty
    NoModels = NoModels
    Documents <- MCDocuments
    OtherDocuments <- MCOtherDocuments
    DeviceCounts = {0, 1, 2}
    Failures = {"device", "mpi", "gpu", "loop"}
SPECIFICATION Spec
INVARIANTS
    TypeOK
    GroupsAreProper
    WorldCallsAgree
    CommsArePrecise
    NothingLeftToFree
PROPERTIES
    FailureAborts
    StartsAndEnds
CHECK_DEADLOCK FALSE
