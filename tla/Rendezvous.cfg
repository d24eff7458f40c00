CONSTANTS
    Interrupted = Interrupted
    Nobody = Nobody
    NoGroup = NoGroup
    NoTag = NoTag
    NoVal = NoVal
    Proc = {p1, p2, p3}
    Poster = {n1}
    Tag = {t1, t2}
    Group = {g1, g2}
    FirstGroup = g1
    NNOTE = 1
    Noted = {p1}
    Leaver = {p1}
CHECK_DEADLOCK FALSE
SPECIFICATION FairSpec
INVARIANTS
    NobodyMissed
    ChainIsWaiting
    UnlocksItsLock
PROPERTIES
    ImplementsExchange
    NobodyStuck
