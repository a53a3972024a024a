SPECIFICATION Spec
CONSTANTS
    N = 3
    Ts <- MCTs
    Types = {"f32", "f64"}
    OutMaxLen = 2
    MaxItemLen = 2
    MaxItems = 3
INVARIANTS
    TypeOK
    EmittedSorted
    DuplicatesRemoved
    NoTimestampLost
    NoInternalError
PROPERTY
    MergeEnds
