SPECIFICATION PhoneSpec
CHECK_DEADLOCK FALSE
CONSTANTS
    Systems <- MCSystems
    QueueSize = 2
    MaxPackets = 3
    MaxOpens = 2
INVARIANTS
    FastNeedsVoltage
    ChannelExclusive
    WaiterWoken
PROPERTIES
    PressReported
    PowerFollows
    KeyFinallyShown
    
    
    PairsPlayed
