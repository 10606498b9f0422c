\* The BPF tracer submits one event per traced call, of that call's kind.
CONSTANTS
    t1 = t1  t2 = t2  f1 = f1  f2 = f2
    Threads <- MCThreads
    Logged = {t1}
    Files <- MCFiles
    NoFile = NoFile
    NInos = 2
    MaxLinks = 2
    MaxCalls = 3
SPECIFICATION Spec
INVARIANT EventsMatchCalls
\* The bound on calls ends every behaviour.
CHECK_DEADLOCK FALSE
