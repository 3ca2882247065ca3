\* Stop, one Pause and the process timeout against two steps that join.
SPECIFICATION FairSpec
CONSTANTS
    a = a  b = b  c = c  d = d
    Step = {a, b, c}
    None = None
    Depends <- Vee
    Retry <- NoRetry
    Faults <- HangTimeout
    SkipDeps <- Nobody
    Excludes <- NoExcludes
    Recoverable = TRUE
    ProcFaults = {"timeout"}
    Controls = {"Stop", "Pause"}
    MaxPauses = 1
INVARIANTS
    ReleasedWhenQuiet
PROPERTIES
    NoStartAfterStop Terminates AllStepsSettle
