CONSTANTS
    HMax = 16
    HBlankStart = 12
    HCounterMax = 8
    VMax = 5
    ScreenHeight = 1
    NMITrigger = 2
    NMIWindow = 1
    Cost = 1
    DMACost = 17
    HDMACost = 3
    HDMATimes = {0, 3}
    HBeams = {1, 6, 7, 9}
    VBeams = {1, 5}
    TimerBits = {TRUE, FALSE}
    NMIBits = {FALSE}
    SA1 = TRUE
SPECIFICATION Spec
INVARIANTS
    TypeOK
    HBlankOncePerLine
    LineBounded
    IRQNotForgotten
    WaitsAtWAI
PROPERTIES
    HTimerMissedOnlyByVTimerOff
