\* Every configuration of the repository, four datagrams; each law class
\* also with one of its signals declared wrongly.
CONSTANTS
    N <- MCN
    A <- MCA
    B <- MCB
    C <- MCC
    D <- MCD
    A1 <- MCA1
    B1 <- MCB1
    C1 <- MCC1
    D1 <- MCD1
    Cos <- MCCos
    Sin <- MCSin
    alpha = 3
    kES = 2
    Af = 2
    Bf = 3
    Cf = 5
    Df = 7
    gain = 4
    Files = {"VSES_Control", "VSES_Control_Write", "VSES_Control_noSwap", "VS_Control", "VS_Control_Print"}
    Edited = {"VSGAMIncrement", "VSGAMExtremum", "VSGAMSwap", "VSGAMClassic"}
    Datagrams <- MCDatagrams
    MaxCycles = 4
SPECIFICATION FairSpec
INVARIANTS SentIsLaw ReadsFresh CheckedNeverStray PageAsDeclared
PROPERTY Answers
CHECK_DEADLOCK FALSE
