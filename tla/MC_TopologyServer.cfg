\* Clients that introduce themselves, and that replay what earlier hubs sent them.
SPECIFICATION ServerSpec
CONSTANTS
    Fds <- MCFds
    Digests <- MCDigests
    Inbound <- MCInbound
    Uids <- MCUids
INVARIANTS
    TypeOK
    SequenceAssertionsHold
    HistoryInOrder
    EveryoneHasHistory
    DeliveredInOrder
    OneMessagePerSeq
PROPERTIES
    KeepsPromise
\* all connections used up and everybody gone: nothing is left to happen
CHECK_DEADLOCK FALSE
