\* Violation run: a record time whose nanoseconds add up to one second is left at 10^9.
CONSTANTS
    RtSecs = {5, 6}
    MonSecs = {1, 2}
    NanoSecs <- MCNanoSecs
SPECIFICATION Spec
INVARIANT RTimeExact
