SPECIFICATION Spec
CONSTANTS
    Clients = {c1, c2}
    None = None
    ClientMsgs <- MCClientMsgs
    ServerMsgs <- MCServerMsgs
    Fds <- MCFds
    Backlog = 2
    SockCap = 1
INVARIANTS
    ApiTypeOK
    OwnSocketsInUse
    NothingLeaks
