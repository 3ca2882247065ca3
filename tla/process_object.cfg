\* Three calls of Pause, Resume and Stop, or one and the timer; s1 may fail.
SPECIFICATION FairSpec
CONSTANTS
    c1 = c1
    c2 = c2
    s1 = s1
    s2 = s2
    d1 = d1
    d2 = d2
    Process = Process
    None = None
    Controller = {c1, c2}
    Methods <- Called
    Step = {s1, s2}
    Faulty = {s1}
    Waiter = {d1, d2}
    Faults = {"timeout", "before"}
    Caller = {c1, c2, s1, s2, Process}
    Bit <- Bits
    Flag <- StatusFlags
    Clearable <- Cleared
    MaxMoves = 3
INVARIANTS
    GateCounted ResourcesRight DoneBlocks
PROPERTIES
    RefinesFlags DoneReturns
CHECK_DEADLOCK FALSE
