SPECIFICATION FairSpec
CONSTANTS
    PtyCap = 1
    InCap = 2
    DevCap = 1
    Faults <- SomeFaults
    MaxPlugs = 2
    MaxRetriggers = 1
    MaxBytes = 2
INVARIANTS
    UsbTypeOK
    InOrderBothWays
    LeaksOnlyRepeated
PROPERTIES
    AnnouncedIsAttached
    GoneIsDetached
    CloseReturnsUnlessStuck
CHECK_DEADLOCK FALSE
