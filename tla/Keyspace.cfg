SPECIFICATION FairSpec
CONSTANTS
    k1 = k1
    k2 = k2
    e1 = e1
    e2 = e2
    v1 = v1
    n1 = n1
    s1 = s1
    Keys = {k1, k2}
    Entries = {e1, e2}
    Vals = {v1}
    Names = {n1}
    Scores = {s1}
    None = None
    Ttls <- TtlSet
    Wrap = 16
    MS = 2
    Large = 0
    MaxWorks = 0
    MaxTime = 3
INVARIANTS
    OneOwner
    HeapRefsLive
PROPERTIES
    ImplementsKvStore
    OverdueExpires
