CONSTANTS
    t1 = t1
    t2 = t2
    none = none
    Caller = {t1, t2}
    Size = 100
    Hdr = 16
    MinSize = 12
    AlignSize = 4
    SizeMod = 256
    Requests <- MCRequests
    NoBlock = none
SPECIFICATION Spec
SYMMETRY Symmetric
INVARIANTS ChainWhole HolesPlugged UsedIsHeld
PROPERTIES ImplementsAllocator
