SPECIFICATION Spec
CONSTANTS
    usbnet = usbnet smsri = smsri good = good bad = bad n1 = n1 None = none
    Configs <- MCSilentCalls
    Entries <- MCNoEntries
    Pins <- MCPins
    GoodPin = good
    Numbers <- MCNumbers
    Slow <- MCNone
    Errors <- MCNone
    MaxCalls = 1 MaxRings = 0 MaxConfigs = 1 MaxErrors = 0 MaxBacklog = 2
INVARIANTS UpToDateMeansTrue
CHECK_DEADLOCK FALSE
