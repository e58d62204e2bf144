\* A hub that stays, and a spoke killed while the hub reads its introduction.
SPECIFICATION Spec
CONSTANTS
    Nodes <- FailoverNodes
    NoHost = NoHost
    MaxConns = 4
    Calls <- NoCalls
    Mortal <- FailoverMortal
    HubMortal = FALSE
    Abrupt = TRUE
INVARIANTS
    LeaveOnlyOfDead
\* a group at rest has nothing to do
CHECK_DEADLOCK FALSE
