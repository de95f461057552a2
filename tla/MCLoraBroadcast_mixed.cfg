\* A rank whose call throws before it joins, and whose caller goes on with the
\* next adapter.
CONSTANTS
    Group = {0, 1}
    Root = 0
    Adapters = 2
    Failing = {"malloc"}
SPECIFICATION Spec
INVARIANT SuccessIsShared
CHECK_DEADLOCK FALSE
