\* A file's Read, Write or Release never reaches another file's descriptor.
CONSTANTS
    h1 = h1  h2 = h2  k1 = k1  k2 = k2  f1 = f1  f2 = f2
    Handles <- MCHandles
    Kfh <- MCKfh
    Files <- MCFiles
    FdNums = {3, 4}
    NoHandle = NoHandle
    Pipe = Pipe
    Stdin = Stdin
    Free = Free
    PipeCap = 2
SPECIFICATION Spec
INVARIANT NoCrossFileIO
CHECK_DEADLOCK FALSE
