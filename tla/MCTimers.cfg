CONSTANTS
    once = once
    every = every
    inner = inner
    Timer = {once, every, inner}
    TickMod = 9
    Times = {0, 1}
    Periodic = {every}
    Client = {once}
    Controlled = {once}
    Inner <- MCInner
    MaxDelay = 1
SPECIFICATION FairSpec
INVARIANTS
    ListInOrder
    ActiveIsLinked
PROPERTIES
    ImplementsCountdown
    TickEnds
