SPECIFICATION ReplugSpec
CONSTANTS
    FCS <- MCFcs
    Messages <- MCMessages
    PipeCap = 1
    WireCap = 2
    MaxSent = 1
    MaxFaults = 0
PROPERTY Recovers
