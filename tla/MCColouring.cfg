\* The eight tests on a board without trouble.
CONSTANTS
    Tests <- MCTests
    REPS = 1
    MaxTrouble = 0
SPECIFICATION Spec
INVARIANT ColouringAsLabelled
CHECK_DEADLOCK FALSE
