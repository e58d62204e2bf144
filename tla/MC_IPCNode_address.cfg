\* A node starts on a stack that is not clean.
SPECIFICATION MCSpec
CONSTANTS
    Nodes <- MCNodes
    Topics <- MCTopics
    QueueLength = 1
    Wants <- MCWants
    Says <- MCSays
    Replies <- MCReplies
    MaxPublished <- MCMaxPublished
    Mortal = {4}
    Destroyed = {}
    Dirty = {4}
INVARIANTS
    LiveNeighboursReached
\* nodes at rest have nothing to do
CHECK_DEADLOCK FALSE
