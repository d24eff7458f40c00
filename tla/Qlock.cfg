CONSTANTS
    NoProc = NoProc
    Proc = {p1, p2, p3, p4, p5}
    Pollers = {p1, p2, p3, p4, p5}
SPECIFICATION FairSpec
INVARIANTS
    TypeOK
    MutualExclusion
    WaiterNotLost
PROPERTIES
    ImplementsMutex
    WaiterServed
