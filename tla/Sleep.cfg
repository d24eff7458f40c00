CONSTANTS
    NoProc = NoProc
    NoRendez = NoRendez
    Nobody = Nobody
    Sleeper = {s1, s2}
    Waker = {w1, w2}
    Poster = {n1}
    Rendez = {r1, r2}
SPECIFICATION FairSpec
INVARIANTS
    NoPanic
    RendezSynchronized
    NoLostWakeup
PROPERTIES
    WakeupReturns
    SleeperWakes
