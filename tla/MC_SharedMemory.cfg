\* Two subscribers and two messages; the publisher and one of them may die at any moment, and that one keeps messages; in the other one Create may lose a descriptor.
SPECIFICATION Spec
CONSTANTS
    s1 = s1
    s2 = s2
    Subs <- MCSubs
    Mortal = {s1}
    Keepers = {s1}
    Mapless = {s2}
    Nobody = Nobody
    QueueLength = 1
    MaxSends = 2
INVARIANTS
    TypeOK
    SegmentsReleased
    ExactlyOnceInOrder
PROPERTIES
    SendReturns
    EndIsNoticed
\* everybody is gone, or nothing is left to send
CHECK_DEADLOCK FALSE
