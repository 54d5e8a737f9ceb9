CONSTANTS
    high = high
    low = low
    idle = idle
    Thread = {high, low, idle}
    Idle = idle
    PrioMax = 3
    InitPrio <- MCPrio
    InitReady <- MCReady
    Times <- MCTimes
    rl = rl
    sl = sl
    WaitList = {rl, sl}
    RecvList = rl
    SendList = sl
    Size = 2
    Msg = {m1, m2}
    Flag = "PRIO"
    Senders = {high, low}
    Receivers = {high, low}
SPECIFICATION FairSpec
INVARIANTS
    NoStrandedMessage
    DeadlineKept
    NoStrandedRoom
PROPERTIES
    ImplementsFifo
    TimedCallReturns
