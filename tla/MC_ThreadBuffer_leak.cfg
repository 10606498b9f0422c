\* Readdirplus takes lookup references the kernel never receives.
CONSTANTS
    NFiles = 3
    EntrySizes = {1, 2, 3}
    ReqSizes = {4}
    XattrSizes = {0, 2}
    LinkLens = {2, 5}
    MaxCalls = 7
SPECIFICATION Spec
INVARIANT RefsMatchLookups
\* The requests are bounded: the model stops.
CHECK_DEADLOCK FALSE
