\* Logical file handles: records identify their file; every release is logged.
CONSTANTS
    t1 = t1  t2 = t2
    Threads <- MCThreads
    Fds <- MCFds
    MaxRequests = 5
SPECIFICATION Spec
INVARIANT TypeOK
INVARIANT LogHandleIdentifiesFile
PROPERTY ReleasedFilesCloseLogged
\* The kernel may stop sending requests; the bound on requests ends every behaviour.
CHECK_DEADLOCK FALSE
