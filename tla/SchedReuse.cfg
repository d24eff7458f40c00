CONSTANTS
    NoProc = NoProc
    NoCpu = NoCpu
    Proc = {p1, p2}
    Cpu = {c0, c1}
    Cpu0 = c0
    Mortal = {p1}
    Npriq = 1
    Wirable = {}
    Tuned = {}
SPECIFICATION ReuseSpec
INVARIANT
    CpuNilOnlyWhenSaved
