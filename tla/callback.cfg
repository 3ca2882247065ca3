\* One execution and up to two recoveries of a step, or of a process.
SPECIFICATION Spec
CONSTANTS
    Length <- Lengths
    Must <- Musts
    MaxRuns = 3
INVARIANTS
    NoFailureForgotten FailureBlocks BeforeOnce
PROPERTIES
    RefinesUnit
