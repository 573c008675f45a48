SPECIFICATION FairSpec
CONSTANTS
    m1 = m1
    m2 = m2
    m3 = m3
    s1 = s1
    Messages <- MCMessages
    Streams <- MCStreams
    NotifyCapacity = 2
    ChannelSize = 1
    InitialLimits <- MCInitialLimits
    MaxInitialLimit = 2
INVARIANTS
    BufferSafe
    StreamExactlyOnce
    InOrderPerSender
PROPERTIES
    WebhooksAnswered
CHECK_DEADLOCK FALSE
