\* The eight tests, two repetitions, trouble twice.
CONSTANTS
    Tests <- MCTests
    REPS = 2
    MaxTrouble = 2
SPECIFICATION FairSpec
INVARIANTS LabelsTrue OneSetPerRepetition StartsClean
PROPERTIES TraceCompleted CampaignEnds
CHECK_DEADLOCK FALSE
