SPECIFICATION Spec
CONSTANTS
    RangeBeg = 8
    RangeEnd = 20
    BinLen = 2
    Coarse = 2
    OutMax = 1
    Vals <- MCVals
    Scale = 2
    MaxChunk = 2
    MaxEvents = 4
INVARIANTS TypeOK BinsMatch CoarseMatch RangeCovered
