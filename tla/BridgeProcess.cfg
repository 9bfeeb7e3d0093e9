SPECIFICATION ProcessSpec
CONSTANTS
    None = None
    Stale = Stale
    Procs = {p1, p2}
    Faulty = {p1}
    Tagged = {p1}
    Names = {0, 1}
    Aliases = {}
    Transparent = {p1, p2}
    Peers <- NoPeer
    Scans = 1
    Waits = 1
    Faults <- SomeFaults
INVARIANTS
    ServedIfUncrowded
    StartsUnlessHindered
    ExitLeavesNothing
PROPERTIES
    SignalEnds
