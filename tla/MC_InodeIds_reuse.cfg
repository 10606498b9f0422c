\* Violation run: a reused Node address gives a second file the first one's logical inode ID.
CONSTANTS
    f1 = f1  f2 = f2  a1 = a1  a2 = a2
    Files <- MCFiles
    Addrs <- MCAddrs
    InitFiles <- MCInitFiles
    NoAddr = NoAddr
    RootIno = RootIno
    MaxRecords = 4
SPECIFICATION Spec
SYMMETRY Symmetry
INVARIANT LogInodeIdentifiesFile
\* The records are bounded: the model stops.
CHECK_DEADLOCK FALSE
