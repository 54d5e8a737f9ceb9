CONSTANTS
    high = high
    mid = mid
    low = low
    idle = idle
    mx = mx
    my = my
    Thread = {high, mid, low, idle}
    Idle = idle
    WaitList = {mx, my}
    PrioMax = 4
    InitPrio <- MCPrio
    InitReady <- MCReady
    NONE = NONE
    Flag = "PRIO"
    Times <- MCTimes
    MaxHold = 1
SPECIFICATION Spec
INVARIANT PriorityRestored
