\* Two steps that may fail or be skipped, their join, and a branch of its own.
SPECIFICATION Spec
CONSTANTS
    a = a  b = b  c = c  d = d
    Step = {a, b, c, d}
    None = None
    Depends <- Join
    Retry <- RetryA
    Faults <- FailUnmet
    SkipDeps <- AAndB
    Excludes <- ExcludeC
    Recoverable = TRUE
    ProcFaults = {"before", "timeout"}
    Controls = {}
    MaxPauses = 0
INVARIANTS
    TypeOK CountersExact Ownership NoneStranded
    FailureReachesDependents MarksJustified SuccessIsComplete
PROPERTIES
    RefinesTaskGraph
