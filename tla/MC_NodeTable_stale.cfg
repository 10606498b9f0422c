\* Violation run: findChild keys a node by an st_ino its descriptor does not have.
CONSTANTS
    t1 = t1  t2 = t2  a = a  b = b  i1 = i1  i2 = i2  i3 = i3
    Threads <- MCThreads
    Names <- MCNames
    Inodes <- MCInodes
    FdNums <- MCFdNums
    NoFd = 0
    NoIno = NoIno
    NoName = NoName
    NoThread = NoThread
    MaxRequests = 8
    ExternalWriters = TRUE
SYMMETRY Symmetry
SPECIFICATION Spec
INVARIANT NodeFdMatchesKey
\* The session ends with Destroy; nothing runs after it.
CHECK_DEADLOCK FALSE
