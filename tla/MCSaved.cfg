\* Fewer samples than the arrays have room for.
CONSTANTS
    Count = 2
    MAX_ELEMENTS = 3
    Faults = {}
    MaxFaults = 0
SPECIFICATION Spec
INVARIANT SavedWasReceived
CHECK_DEADLOCK FALSE
