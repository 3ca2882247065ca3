\* Every order and numbering of three steps, three values set, one recovery.
SPECIFICATION Spec
CONSTANTS
    a = a
    b = b
    c = c
    key = key
    input = input
    Name = {a, b, c}
    Process = Process
    Key = {key}
    Nothing = Nothing
    Input <- FlowInput
    MaxSets = 3
    MaxFails = 1
    MaxRecovers = 1
    Renumbers = FALSE
INVARIANTS
    OwnersRight
PROPERTIES
    RefinesViews 
CHECK_DEADLOCK FALSE
SYMMETRY Alike
