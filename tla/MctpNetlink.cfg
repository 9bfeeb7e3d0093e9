SPECIFICATION NetlinkSpec
CONSTANTS
    Gone = Gone
    Names = {n1, n2}
    Indices = {1, 2}
    Eids = {8}
    Nets = {1, 2}
    Faults <- AllFaults
INVARIANTS
    NetlinkTypeOK
PROPERTIES
    TrueMeansDone
    FlagsKept
    CallReturns
