CONSTANTS
    NoProc = NoProc
    Proc = {p1, p2, p3, p4}
    Pollers = {p1, p2, p3, p4}
SPECIFICATION FairSpec
INVARIANTS
    ReadersWriterExclusion
    CountersTrue
    NoPanic
    NoIdleWaiters
PROPERTIES
    WaiterServed
