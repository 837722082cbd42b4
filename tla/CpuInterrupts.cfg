CONSTANTS
    HMax = 16
    HBlankStart = 12
    HCounterMax = 8
    VMax = 4
    ScreenHeight = 1
    NMITrigger = 2
    NMIWindow = 1
    Cost = 1
    DMACost = 17
    HDMACost = 3
    HDMATimes = {0, 3}
    HBeams = {1}
    VBeams = {1}
    TimerBits = {TRUE, FALSE}
    NMIBits = {TRUE, FALSE}
    SA1 = TRUE
SPECIFICATION FairSpec
PROPERTIES
    OneNMIPerFrame
    WAIEnds
    FramesEnd
