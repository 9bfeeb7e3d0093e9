SPECIFICATION DispatchFair
CONSTANTS
    Clients = {c1}
    None = None
    ClientMsgs <- MCClientMsgs
    Fds <- MCFds
    Backlog = 1
    SockCap = 1
    PipeCap = 1
    MaxTty = 2
    MaxLinux = 1
    MaxClient = 1
PROPERTY CloseReturns
