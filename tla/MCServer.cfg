\* Both servers, every recording of up to six tokens; replies late by several
\* periods, seconds that turn within a cycle, a clock set back and forward by
\* more than a period.
CONSTANTS
    MaxTokens = 6
    MAX_ELEMENTS = 2
    Servers = {"vs", "vses"}
    Files <- MCFiles
    Compared <- MCCompared
    Columns <- MCColumns
    SIZE_MAX = 7
    NSEC_PER_USEC = 2
    NSEC_PER_SEC = 4
    Offset = 0
    Period = 1
    StartTimes = {3}
    ClockSteps <- MCClockSteps
    Horizon = 7
    MaxActivations = 3
SPECIFICATION ServerSpec
INVARIANTS
    CountsCompleteRows RowsInPlace NoDescriptorLeft
    TimerTypeOK ReleasesOnGrid NeverEarly MeasuredWithinOneMicrosecond
PROPERTIES Returns DescriptorLifecycle
CHECK_DEADLOCK FALSE
