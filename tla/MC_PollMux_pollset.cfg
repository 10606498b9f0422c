\* Violation run: after a removal the thread no longer polls the pipe and its handles.
CONSTANTS
    h1 = h1  h2 = h2  h3 = h3
    Handles <- MCHandles
    NoHandle = NoHandle
    Pipe = Pipe
    Stdin = Stdin
    PipeCap = 2
SPECIFICATION Spec

INVARIANT PollSetMatchesHandles
\* The thread exits or aborts, and the model bounds the handles: it stops.
CHECK_DEADLOCK FALSE
