CONSTANTS
    high = high
    low = low
    idle = idle
    Thread = {high, low, idle}
    Idle = idle
    PrioMax = 3
    InitPrio <- MCPrio
    InitReady <- MCReady
    Times <- MCTimes
    mq = mq
    s1 = s1
    s2 = s2
    Mq = mq
    WaitList = {mq}
    Slot = {s1, s2}
    NULL = NULL
    Normal = {m1}
    Urgent = {u1}
    Flag = "FIFO"
    Senders = {high, low}
    Receivers = {high, low}
SPECIFICATION Spec
INVARIANTS
    SlotsAccounted
    NoStrandedMessage
    DeadlineKept
PROPERTIES
    CopyUndisturbed
    ImplementsFifo
