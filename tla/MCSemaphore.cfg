CONSTANTS
    high = high
    mid = mid
    low = low
    idle = idle
    sem = sem
    Thread = {high, mid, low, idle}
    Idle = idle
    WaitList = {sem}
    PrioMax = 3
    InitPrio <- MCPrio
    Sem = sem
    Flag = "PRIO"
    InitValue = 0
    ValueMod = 8
    MaxCredit = 2
    Times <- MCTimes
    InitReady <- MCReady
SPECIFICATION FairSpec
INVARIANTS
    KernelConsistent
    NoLostWakeup
    CreditConserved
    HighestRuns
PROPERTIES
    OutcomeFinal
    TimedTakeReturns
