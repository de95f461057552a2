\* Any call may fail, on any rank.  When a rank stays away from a broadcast
\* its peers stop for good.
CONSTANTS
    Group = {0, 1}
    Root = 0
    Adapters = 2
    Failing <- MCFailing
SPECIFICATION Spec
INVARIANTS
    LoraTypeOK
    SuccessHasRootsWeights
    NothingOutlivesACall
PROPERTIES
    CallsEnd
CHECK_DEADLOCK FALSE
