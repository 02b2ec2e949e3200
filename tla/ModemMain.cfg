SPECIFICATION FairSpec
CONSTANTS
    None = none
    GraceTicks = 2 LimitTicks = 3
    Powers = {"on", "off"}
    MaxConfigs = 3 MaxBusy = 1
INVARIANTS StatesAgree
  
CHECK_DEADLOCK FALSE
