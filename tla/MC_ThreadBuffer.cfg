\* Directory listings, readlink and xattr calls of one worker sharing its Buffer.
CONSTANTS
    NFiles = 3
    EntrySizes = {1, 2, 3}
    ReqSizes = {4}
    XattrSizes = {0, 2}
    LinkLens = {2, 5}
    MaxCalls = 7
SPECIFICATION Spec
INVARIANT KernelRefsCounted
INVARIANT ReadlinkWhole
PROPERTY ListingRefined
\* The requests are bounded: the model stops.
CHECK_DEADLOCK FALSE
