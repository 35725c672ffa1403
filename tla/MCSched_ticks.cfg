SPECIFICATION FairSpec
CONSTANTS
    NR_TASKS = 3
    Threads = 2
    Priority = 3
    Interval = 5
    Late = 2
    MaxNest = 2
INVARIANTS TypeOK SwitchSafe MaskedBriefly SliceBound
PROPERTIES ZombieStays RechargeWhenSpent Served
