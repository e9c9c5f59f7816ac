\* The test against an FPGA that is right, with signals.
CONSTANTS
    MaxCycle = 3
    W = 4
    Lines = 3
    WarmUp = 3
    MaxSignals = 2
SPECIFICATION FairSpec
INVARIANTS NoFalseAlarm LeftDisabled
PROPERTY TestEnds
CHECK_DEADLOCK FALSE
