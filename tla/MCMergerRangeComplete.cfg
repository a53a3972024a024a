SPECIFICATION Spec
CONSTANTS
    N = 2
    Ts <- MCTs
    Types = {"f32", "f64"}
    OutMaxLen = 2
    MaxItemLen = 1
    MaxItems = 2
INVARIANT
    RangeCompleteForwarded
