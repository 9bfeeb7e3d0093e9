SPECIFICATION FairSpec
CONSTANTS
    FCS <- MCFcs
    Messages <- MCMessages
    PipeCap = 1
    WireCap = 2
    MaxSent = 3
    MaxFaults = 2
INVARIANTS
    LinkTypeOK
    InStep
    WireIsBuildWire
    NothingForged
    FcsIsCrc
    WrongByteDetected
PROPERTIES
    IsPacketChannel
CHECK_DEADLOCK FALSE
