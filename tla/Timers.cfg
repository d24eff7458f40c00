CONSTANTS
    Proc = {p1}
    Cpu = {c1, c2}
    Rendez = {r1, r2}
    Timeout = {0, 1, 3}
    Period = 2
    NoCpu = NoCpu
    NoRendez = NoRendez
    NoTimer = NoTimer
    Never = Never
SPECIFICATION FairSpec
INVARIANTS
    ListsTrue
    NoTimerLeft
    ClockInTime
PROPERTIES
    HzRuns
