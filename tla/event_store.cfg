CONSTANTS
    m = m
    w = w
    tick = tick
    p1 = p1
    p2 = p2
    NoPart = NoPart
    Emitter = {m, w}
    Main = m
    Timer = tick
    Partition = {p1, p2}
    MaxEvents = 3
    BufferMax = 2
    MaxFaults = 1
SPECIFICATION FairSpec
INVARIANTS TypeOK DrainedOnce SerialExactlyOnce
PROPERTIES LandedStays ImplementsLog EventsSettle CloseEnds
CHECK_DEADLOCK FALSE
