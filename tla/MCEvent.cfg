CONSTANTS
    high = high
    low = low
    idle = idle
    ev = ev
    rx = rx
    done = done
    Thread = {high, low, idle}
    Idle = idle
    WaitList = {ev}
    PrioMax = 3
    InitPrio <- MCPrio
    InitReady <- MCReady
    Ev = ev
    EventFlag = "FIFO"
    Bit = {rx, done}
    Requests <- MCRequests
    RecvTimes <- MCTimes
    MaxSends = 2
SPECIFICATION EventSpec
INVARIANTS
    NoSatisfiedWaiter
    ReceivedIsReal
    ClearedOnce
