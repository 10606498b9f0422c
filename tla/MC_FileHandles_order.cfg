\* Violation run: the records of one handle are not written in the order of its events.
CONSTANTS
    t1 = t1  t2 = t2
    Threads <- MCThreads
    Fds <- MCFds
    MaxRequests = 5
SPECIFICATION Spec
INVARIANT HandleRecordsInOrder
CHECK_DEADLOCK FALSE
