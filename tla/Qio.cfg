CONSTANTS
    Nobody = Nobody
    Eof = Eof
    Hungup = Hungup
    Reader = {r1}
    Writer = {w1, w2}
    Handler = {h1}
    Closer = {c1}
    Data <- MCData
    ReadSize = {1, 4}
    Limit = 4
    MaxBlocks = 2
SPECIFICATION QioFairSpec
INVARIANTS
    LenAccurate
    SleeperWillBeWoken
PROPERTIES
    ImplementsStream
    NoStuckSleeper
