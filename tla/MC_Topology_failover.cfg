\* The hub dies and one of its spokes takes over.
SPECIFICATION Spec
CONSTANTS
    Nodes <- FailoverNodes
    NoHost = NoHost
    MaxConns = 4
    Calls <- FailoverCalls
    Mortal <- FailoverMortal
    HubMortal = TRUE
    Abrupt = TRUE
INVARIANTS
    HubAssertionsHold
    MintedIdentity
    SpokesSorted
PROPERTIES
    AllAttached
\* a group at rest has nothing to do
CHECK_DEADLOCK FALSE
