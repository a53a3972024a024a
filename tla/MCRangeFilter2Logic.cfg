SPECIFICATION Spec
CONSTANTS
    Ts <- MCTs
    Beg = 2
    End = 4
    MaxItemLen = 2
    MaxItems = 3
INVARIANT
    NeverLogicError
