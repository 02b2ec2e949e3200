SPECIFICATION FairSpec
CONSTANTS
    usbnet = usbnet smsri = smsri good = good bad = bad n1 = n1 None = none
    Configs <- MCCalls
    Entries <- MCNoEntries
    Pins <- MCPins
    GoodPin = good
    Numbers <- MCNumbers
    Slow <- MCNone
    Errors <- MCNone
    MaxCalls = 1 MaxRings = 2 MaxConfigs = 2 MaxErrors = 0 MaxBacklog = 2
PROPERTIES CallsFollowed
CHECK_DEADLOCK FALSE
