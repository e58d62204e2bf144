\* A hub that stays: the nodes come, call, and one of them goes.
SPECIFICATION Spec
CONSTANTS
    Nodes <- StableNodes
    NoHost = NoHost
    MaxConns = 3
    Calls <- StableCalls
    Mortal <- StableMortal
    HubMortal = FALSE
    Abrupt = FALSE
INVARIANTS
    TypeOK
    QuiescentAgreement
    NoCallLost
    OneOrderedStream
    LeaveOnlyOfDead
PROPERTIES
    ViewsConverge
\* a group at rest has nothing to do
CHECK_DEADLOCK FALSE
