SPECIFICATION FairSpec
CONSTANTS
    Stream = {c1, c2}
    Sender = {s1}
    Prober = {p1}
    None = None
    Capacity = 2
    HeartbeatPolls = 2
    IdleLimit = 0
    MaxResults = 2
    MaxWork = 3
INVARIANTS
    TypeOK
PROPERTIES
    KeepsChannel
    ClosedStreamsEnd
    AbandonedStreamsEnd
    QueuedIsSent
CHECK_DEADLOCK FALSE
