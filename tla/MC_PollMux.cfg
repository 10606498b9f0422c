\* The poll thread notifies and destroys each handle at most once.
CONSTANTS
    h1 = h1  h2 = h2  h3 = h3
    Handles <- MCHandles
    NoHandle = NoHandle
    Pipe = Pipe
    Stdin = Stdin
    PipeCap = 2
SPECIFICATION Spec
INVARIANT TypeOK
INVARIANT HandlesReleasedOnce
\* The thread exits or aborts, and the model bounds the handles: it stops.
CHECK_DEADLOCK FALSE
