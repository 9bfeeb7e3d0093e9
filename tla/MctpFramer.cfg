SPECIFICATION FairSpec
CONSTANTS
    FCS <- MCFcs
    Inputs <- MCInputs
    Faults <- MCFaults
    PipeCap = 1
    MaxRx = 10
INVARIANTS
    TypeOK
    FrameLength
    PacketsBounded
    ThreadOwnsFds
    
PROPERTIES
    CloseReturns
