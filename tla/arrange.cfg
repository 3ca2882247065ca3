\* Up to four building calls.
SPECIFICATION Spec
CONSTANTS
    a = a
    b = b
    c = c
    d = d
    Name = {a, b, c, d}
    MergedName = {a, b, c}
    MaxCalls = 4
    MaxNodes = 62
INVARIANTS
    FirstLayerStarts LayersFollowDepends PanicJustified EndsCover
    VisibleIsUpstream
PROPERTIES
    MergeNumbersUpwards
SYMMETRY Alike
