CONSTANTS
    Unlocked = Unlocked
    NoAddr = NoAddr
    p1 = p1
    p2 = p2
    p3 = p3
    a1 = a1
    a2 = a2
    Proc = {p1, p2, p3}
    Addr = {a1, a2}
    Calls <- MCCalls
    Noted = {p2}
    Permits <- MCPermits
    Units = 2
SPECIFICATION SemFairSpec
CHECK_DEADLOCK FALSE
INVARIANTS
    PermitsConserved
    NoMissedWakeup
    ClearedIsWoken
PROPERTIES
    NoStuckWaiter
