CONSTANTS
    NoProc = NoProc
    NoCpu = NoCpu
    Proc = {p1, p2}
    Cpu = {c0, c1}
    Cpu0 = c0
    Mortal = {p1, p2}
    Npriq = 2
    Wirable = {p1}
    Tuned = {p1}
SPECIFICATION Spec
INVARIANTS
    TypeOK
    OneCpu
    CpuNilOnlyWhenSaved
    ReadyInOnePlace
