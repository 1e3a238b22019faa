\* Two tabs of one device and one of another; one fetch may be lost.
SPECIFICATION FairSpec
CONSTANTS
    d1 = d1
    d2 = d2
    t1 = t1
    t2 = t2
    t3 = t3
    p1 = p1
    Tabs <- MCTabs
    Devices <- MCDevices
    DeviceOf <- MCDeviceOf
    Posts <- MCPosts
    MaxFixes = 1
    MaxTokens = 4
    MaxLosses = 1
CHECK_DEADLOCK FALSE
INVARIANTS
    OneDevice
    ViewerKeepsCookie
PROPERTIES
    EveryPageEnds
