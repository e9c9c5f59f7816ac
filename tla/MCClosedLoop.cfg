\* The server on the controller byte by byte, with faults of every kind; the
\* FPGA within the cycle.
CONSTANTS
    Count = 2
    MAX_ELEMENTS = 2
    Faults = {"sendto", "recvfrom", "lose", "repeat"}
    MaxFaults = 2
    MaxCycle = 4
    W = 2
    MaxLag = 1
    Oracle = {0, 1}
    MaxRestarts = 0
SPECIFICATION ClosedSpec
INVARIANTS TypeOK PairedReplies OneInFlight NeverAhead SteadyClassic
PROPERTIES AnswersAsPromised LoopKept Completes
CHECK_DEADLOCK FALSE
