SPECIFICATION FairSpec
CONSTANTS
    usbnet = usbnet smsri = smsri good = good bad = bad n1 = n1 None = none
    Configs <- MCGoodPin
    Entries <- MCEntries
    Pins <- MCPins
    GoodPin = good
    Numbers <- MCNumbers
    Slow <- MCNone
    Errors <- MCQueryErrors
    MaxCalls = 0 MaxRings = 0 MaxConfigs = 2 MaxErrors = 2 MaxBacklog = 2
PROPERTIES AnswerMatchesCommand EchoOff RebootRecovered 
CHECK_DEADLOCK FALSE
