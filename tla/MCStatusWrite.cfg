\* The FPGA may read marte_strategy between Increment's two stores.
CONSTANTS
    MaxCycle = 4
    W = 4
    MaxLag = 1
    Oracle = {0, 1}
    MaxRestarts = 0
SPECIFICATION Spec
INVARIANT StrategyAgreement
CHECK_DEADLOCK FALSE
