\* The hub dies while a spoke flushes its backlog.
SPECIFICATION Spec
CONSTANTS
    Nodes <- FailoverNodes
    NoHost = NoHost
    MaxConns = 4
    Calls <- FailoverCalls
    Mortal <- FailoverMortal
    HubMortal = TRUE
    Abrupt = TRUE
INVARIANTS
    LossOfClientSurvived
\* a group at rest has nothing to do
CHECK_DEADLOCK FALSE
