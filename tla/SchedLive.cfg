CONSTANTS
    NoProc = NoProc
    NoCpu = NoCpu
    Proc = {p1, p2, p3}
    Cpu = {c0}
    Cpu0 = c0
    Mortal = {}
    Npriq = 2
    Wirable = {}
    Tuned = {p1}
SPECIFICATION FairSpec
PROPERTIES
    ReadyRuns
