SPECIFICATION FairSpec
CONSTANTS
    Header = 2
    KMaxMsg = 4
    ErrSize = 2
    SndCap = 3
    Scripts <- ScriptSet
INVARIANTS
    AssertsHold
    Framing
PROPERTIES
    WaitingServed
CHECK_DEADLOCK FALSE
