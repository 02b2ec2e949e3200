SPECIFICATION Spec
CONSTANTS
    usbnet = usbnet smsri = smsri good = good bad = bad n1 = n1 None = none
    Configs <- MCStartup
    Entries <- MCEntries
    Pins <- MCPins
    GoodPin = good
    Numbers <- MCNumbers
    Slow <- MCSlow
    Errors <- MCErrors
    MaxCalls = 0 MaxRings = 0 MaxConfigs = 1 MaxErrors = 1 MaxBacklog = 2
INVARIANTS  SimNotBlocked
CHECK_DEADLOCK FALSE
