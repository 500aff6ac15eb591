CONSTANTS
    Default = 3
    Shortest = 2
    Longest = 4
    Proposed = {1, 4, 9}
    Grace = 1
    MaxPause = 1
    MaxTime = 9
    MaxRestarts = 2
SPECIFICATION Spec
INVARIANTS FailedWithoutOrders
CHECK_DEADLOCK FALSE
