CONSTANTS
    high = high
    mid = mid
    low = low
    idle = idle
    gate = gate
    Thread = {high, mid, low, idle}
    Idle = idle
    WaitList = {gate}
    PrioMax = 3
    InitPrio <- MCPrio
    InitReady <- MCReady
    Gate = gate
    NONE = NONE
    Static = {low}
    Sleepers = {high}
    Victims = {mid, low}
SPECIFICATION LifeSpec
INVARIANTS
    KernelSettled
    ClosedOffQueues
    FreedNotInUse
