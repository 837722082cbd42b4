CONSTANTS
    t1 = t1
    t2 = t2
    c1 = c1
    c2 = c2
    Thread <- MCThread
    Client <- MCClient
    PktLen = 2
    NSema = 2
    PidMod = 3
    Modes = {"wait"}
    SendMayFail = FALSE
SPECIFICATION FairSpec
PROPERTIES
    CallsReturn
    RpcServiceImplemented
