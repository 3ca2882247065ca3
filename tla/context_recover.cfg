\* Three merged steps; the program is started again before the recovery.
SPECIFICATION Spec
CONSTANTS
    a = a
    b = b
    c = c
    key = key
    input = input
    Name = {a, b, c}
    Process = Process
    Key = {key}
    Nothing = Nothing
    Input <- FlowInput
    MaxSets = 3
    MaxFails = 1
    MaxRecovers = 1
    Renumbers = TRUE
PROPERTIES
    RecoversViews
CHECK_DEADLOCK FALSE
SYMMETRY Alike
