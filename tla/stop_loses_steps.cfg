\* A chain of two steps: stopped while the first runs, then recovered.
SPECIFICATION FlowSpec
CONSTANTS
    a = a  b = b  c = c  d = d
    Step = {a, b}
    None = None
    Depends <- Chain
    Retry <- NoRetry
    Faults <- NoFaults
    SkipDeps <- Nobody
    Excludes <- NoExcludes
    Recoverable = TRUE
    ProcFaults = {}
    Controls = {"Stop"}
    MaxPauses = 0
    FlowFaults = {}
    MaxRecovers = 1
INVARIANTS
    NothingLost
