SPECIFICATION FairSpec
CONSTANTS
    usbnet = usbnet smsri = smsri good = good bad = bad n1 = n1 None = none
    Configs <- MCStartup
    Entries <- MCEntries
    Pins <- MCPins
    GoodPin = good
    Numbers <- MCNumbers
    Slow <- MCNone
    Errors <- MCNone
    MaxCalls = 0 MaxRings = 0 MaxConfigs = 0 MaxErrors = 0 MaxBacklog = 2
PROPERTIES SettingsConfirmed
CHECK_DEADLOCK FALSE
