SPECIFICATION FairSpec
CONSTANTS
    Header = 2
    KMaxMsg = 4
    SndCap = 3
    Scripts <- Good
    Pipelining = FALSE
PROPERTIES
    AllServed
CHECK_DEADLOCK FALSE
