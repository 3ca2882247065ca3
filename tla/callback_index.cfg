\* The chains of callback.cfg, and what the documentation says of must callbacks.
SPECIFICATION Spec
CONSTANTS
    Length <- Lengths
    Must <- Musts
    MaxRuns = 2
INVARIANTS
    MustNotOverlooked
