\* A publisher, a node that replies and publishes, and a listener that may die.
SPECIFICATION MCSpec
CONSTANTS
    Nodes <- MCNodes
    Topics <- MCTopics
    QueueLength = 1
    Wants <- MCWants
    Says <- MCSays
    Replies <- MCReplies
    MaxPublished <- MCMaxPublished
    Mortal = {4}
    Destroyed = {2}
    Dirty = {}
INVARIANTS
    TypeOK
    NeighboursFollowView
    OnceInOrder
    NobodyElseHears
PROPERTIES
    PublishReturns
    LoopEnds
    TablesConverge
\* nodes at rest have nothing to do
CHECK_DEADLOCK FALSE
