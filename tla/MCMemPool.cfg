CONSTANTS
    high = high
    mid = mid
    low = low
    idle = idle
    mp = mp
    Thread = {high, mid, low, idle}
    Idle = idle
    WaitList = {mp}
    PrioMax = 3
    InitPrio <- MCPrio
    InitReady <- MCReady
    Pool = mp
    Blocks = {b1, b2}
    Allocators = {high, mid, low}
    WaitTimes <- Forever
SPECIFICATION PoolSpec
INVARIANTS
    NoStrandedBlock
