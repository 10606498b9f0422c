\* Safety of the node table with the mount's own requests and processes outside the mount changing the backing directory.
CONSTANTS
    t1 = t1  t2 = t2  a = a  b = b  i1 = i1  i2 = i2  i3 = i3
    Threads <- MCThreads
    Names <- MCNames
    Inodes <- MCInodes
    FdNums <- MCFdNums
    NoFd = 0
    NoIno = NoIno
    NoName = NoName
    NoThread = NoThread
    MaxRequests = 4
    ExternalWriters = TRUE
SYMMETRY Symmetry
SPECIFICATION Spec

INVARIANT TypeOK
INVARIANT NoDanglingRef
INVARIANT NodesInUseLive
\* The session ends with Destroy; nothing runs after it.
CHECK_DEADLOCK FALSE
