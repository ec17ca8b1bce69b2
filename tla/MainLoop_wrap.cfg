SPECIFICATION LoopFairSpec
CONSTANTS
    TIMER = 64
    PERIOD = 20
    MAX_GAP = 7
INVARIANTS
    LoopTypeOK
    RunsOnTime
PROPERTY RunsForever
