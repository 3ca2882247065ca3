\* A step fails while Resume is about to swap the word.
SPECIFICATION FairSpec
CONSTANTS
    c1 = c1
    c2 = c2
    s1 = s1
    s2 = s2
    d1 = d1
    d2 = d2
    Process = Process
    None = None
    Controller = {c1}
    Methods <- CalledAlone
    Step = {s1}
    Faulty = {s1}
    Waiter = {d1}
    Faults = {}
    Caller = {c1, s1, Process}
    Bit <- Bits
    Flag <- StatusFlags
    Clearable <- Cleared
    MaxMoves = 2
PROPERTIES
    ResumeReturns
CHECK_DEADLOCK FALSE
