CONSTANTS
    MboxSize = 1
    MaxPackets = 2
    RingSize = 3
    MaxBurst = 2
    SemMax = 2
SPECIFICATION Spec
INVARIANTS NoLostInterrupt NoStrandedPacket AnswerIsOwn AnswerIsComing NoStrandedCharacter
PROPERTIES LostOnlyWhenClearing
