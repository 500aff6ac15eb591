CONSTANTS
    Default = 3
    Shortest = 2
    Longest = 4
    Proposed = {1, 4, 9}
    Grace = 1
    MaxPause = 2
    MaxTime = 9
    MaxRestarts = 2
SPECIFICATION Spec
INVARIANTS ChainAlive PlanIsDurable
PROPERTIES CyclesSpaced
CHECK_DEADLOCK FALSE
