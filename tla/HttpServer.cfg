SPECIFICATION FairSpec
CONSTANTS
    Clients = {c1, c2}
    NoClient = NoClient
    Requests <- MCRequests
    BufSize = 6
    RespSize = 2
    Backlog = 1
    SizeMod = 16
    HttpFaults = {"poll_error", "accept_error", "socket_error"}
INVARIANT HttpTypeOK
INVARIANT WholeRequest
INVARIANT RefusedTooLarge
PROPERTY ServedInTheEnd
