CONSTANTS
    NoProc = NoProc
    NoTag = NoTag
    p1 = p1
    p2 = p2
    p3 = p3
    t1 = t1
    t2 = t2
    t3 = t3
    t4 = t4
    Proc = {p1, p2, p3}
    Tag = {t1, t2, t3, t4}
    Pool <- MCPool
    Noted = {p1}
    MaxFlush = 1
SPECIFICATION FairSpec
INVARIANTS
    ReplyToRequester
    TagNotReused
PROPERTIES
    RequestReturns
