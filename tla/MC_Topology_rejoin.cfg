\* The hub dies, and its successor purges a spoke before it has reconnected.
SPECIFICATION Spec
CONSTANTS
    Nodes <- FailoverNodes
    NoHost = NoHost
    MaxConns = 4
    Calls <- NoCalls
    Mortal <- FailoverMortal
    HubMortal = TRUE
    Abrupt = FALSE
PROPERTIES
    LiveNodesKnown
\* a group at rest has nothing to do
CHECK_DEADLOCK FALSE
