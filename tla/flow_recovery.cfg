\* Two steps that join in a third, and one after it; executed and recovered twice.
SPECIFICATION FlowSpec
CONSTANTS
    a = a  b = b  c = c  d = d
    Step = {a, b, c, d}
    None = None
    Depends <- Stem
    Retry <- NoRetry
    Faults <- Mixed
    SkipDeps <- OnlyB
    Excludes <- NoExcludes
    Recoverable = TRUE
    ProcFaults = {"before", "after"}
    Controls = {}
    MaxPauses = 0
    FlowFaults = {"before", "after", "persist"}
    MaxRecovers = 2
INVARIANTS
    NothingLost PointRecorded SuspendReaches
PROPERTIES
    BeginsAtFailure SkippedBodyHasRun BodyRunsOnce RefinesTaskGraphAgain
