\* One spoke, two connections, hubs that come and go.
SPECIFICATION OpenSpec
CONSTANTS
    Nodes = {2, 3}
    NoHost = NoHost
    MaxConns = 2
    Self = 2
    Other = 3
    FromHub <- MCFromHub
    Topics = {"t"}
    Mimes = {"text"}
    MaxReceived = 1
    MaxCalls = 2
INVARIANTS
    OpenTypeOK
    EachCallOnce
    ClientIsCurrent
    DestroyedCleanly
\* a process that died, or that waits for a hub
CHECK_DEADLOCK FALSE
