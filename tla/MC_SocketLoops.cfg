\* Two clients of one server, and sockets with room for one packet.
SPECIFICATION Spec
CONSTANTS
    MaxConns = 2
    Packets = {"packet"}
    QueueLength = 1
    MaxSends = 2
    MaxWritten = 2
    Mortal = {2}
    Owned = {1}
INVARIANTS
    TypeOK
PROPERTIES
    ImplementsUDS
    DestructorsReturn
    CallsReturn
    OtherEndLearns
\* everybody is gone, or nothing is left to send
CHECK_DEADLOCK FALSE
