CONSTANTS
    Channels <- MCChannels
    Private <- MCPrivate
    MaxCalls = 3
    MaxPings = 2
SPECIFICATION Spec
INVARIANT
    TypeOK
PROPERTIES
    PingAnswered
CHECK_DEADLOCK FALSE
