SPECIFICATION Spec
CONSTANTS
    None = None
    Procs = {p1, p2}
    Names = {0, 1}
    Aliases = {a1, a2}
    Transparent = {}
    Peers <- OnePeer
    Scans = 3
    Waits = 2
    Faults = {}
INVARIANT OwnInterface
