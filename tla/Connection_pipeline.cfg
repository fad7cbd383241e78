SPECIFICATION FairSpec
CONSTANTS
    Header = 2
    KMaxMsg = 4
    ErrSize = 2
    SndCap = 3
    Scripts <- ScriptSet
PROPERTIES
    AllServed
CHECK_DEADLOCK FALSE
