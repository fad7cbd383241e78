SPECIFICATION Spec
CONSTANTS
    Header = 2
    KMaxMsg = 4
    SndCap = 3
    Scripts <- Refused
    Pipelining = TRUE
INVARIANTS
    AssertsHold
CHECK_DEADLOCK FALSE
