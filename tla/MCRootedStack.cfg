SPECIFICATION FairSpec
CONSTANTS
    Polls = 2
    MaxStarts = 1
    MaxInterrupts = 2
    MaxKills = 1
    MaxCrashes = 1
INVARIANTS
    TypeOK
    NoChildLeftBehind
    ReadyMeansUp
PROPERTIES
    StartsEnd
    ExitTearsDown
    OrphansAreFoundOut
CHECK_DEADLOCK FALSE
