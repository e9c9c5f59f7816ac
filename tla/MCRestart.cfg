\* A restart of MARTe on a byte that the first cycle writes again.
CONSTANTS
    MaxCycle = 2
    W = 4
    MaxLag = 1
    Oracle = {1}
    MaxRestarts = 1
SPECIFICATION Spec
INVARIANT WrittenAfterIncrement
CHECK_DEADLOCK FALSE
