\* A spoke replays the LEAVE that an earlier hub minted.
SPECIFICATION ServerSpec
CONSTANTS
    Fds <- MCFds
    Digests <- MCDigests
    Inbound <- MCInbound
    Uids <- MCUids
INVARIANTS
    OldMessagesIdentified
\* everybody gone, or the process ended by a failed assert
CHECK_DEADLOCK FALSE
