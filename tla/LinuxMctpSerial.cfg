SPECIFICATION Spec
CONSTANTS
    None = None
    Procs = {p1, p2}
    Names = {0, 1}
    Aliases = {a1, a2}
    Transparent = {}
    Peers <- OnePeer
    Scans = 4
    Waits = 3
    Faults <- AllFaults
INVARIANTS
    LinuxTypeOK
    NothingLeftBehind
    OwnInterfaceIfUndisturbed
    ConfiguredUnlessWarned
SYMMETRY ProcSymmetry
