\* Concurrent writeLog calls leave whole records unless one of them reported a problem.
CONSTANTS
    w1 = w1  w2 = w2
    Threads <- MCThreads
    Chunks = 3
    MaxRecords = 4
SPECIFICATION Spec
SYMMETRY Symmetry
INVARIANT TypeOK
INVARIANT LogWholeUnlessWarned
\* The records are bounded: the model stops.
CHECK_DEADLOCK FALSE
