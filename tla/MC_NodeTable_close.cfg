\* Violation run: the descriptor of a lookup that lost emplace is closed twice.
CONSTANTS
    t1 = t1  t2 = t2  a = a  b = b  i1 = i1  i2 = i2  i3 = i3
    Threads <- MCThreads
    Names <- MCNames
    Inodes <- MCInodes
    FdNums <- MCFdNums
    NoFd = 0
    NoIno = NoIno
    NoName = NoName
    NoThread = NoThread
    MaxRequests = 6
    ExternalWriters = FALSE
SYMMETRY Symmetry
SPECIFICATION Spec
INVARIANT FdsAccounted

\* The session ends with Destroy; nothing runs after it.
CHECK_DEADLOCK FALSE
