\* The byte counters with a lagging FPGA, and a restart of MARTe wherever the
\* thread and the FPGA are, on whatever bytes there are by then.
CONSTANTS
    MaxCycle = 4
    W = 4
    MaxLag = 2
    Oracle = {0, 1, 2}
    MaxRestarts = 1
SPECIFICATION Spec
VIEW HandOver
INVARIANTS TypeOK FreshReply PublishedThisCycle DecisionLinearizable
PROPERTY NoOverwriteDuringCopy
CHECK_DEADLOCK FALSE
