SPECIFICATION Spec
CONSTANTS
    Header = 2
    KMaxMsg = 4
    SndCap = 3
    Scripts <- AllScripts
    Pipelining = TRUE
INVARIANTS
    EchoInOrder
    BuffersSuffice
CHECK_DEADLOCK FALSE
