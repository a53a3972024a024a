SPECIFICATION Spec
CONSTANTS
    MsLen = 2
    GridLen = 6
    RolloverIvl <- MCRolloverIvl
    ReadWindow <- MCReadWindow
    Ts <- MCTs
    MinQuiet <- MCMinQuiet
    PollSlack = 0
    ReputIvl = 5
    CountMax = 2
    Keyspaces <- MCKeyspaces
    MspLimit = 1
    BckLimit = 2
    BckMax = 2
    LspLimit = 2
    MergeLimit = 3
    Preopen = 2
    Reserve = 1
    BufMax = 1
    Ranges <- MCRanges
    MaxLate = 1
    MaxLost = 1
    MaxWriters = 2
    MaxFaults = 2
    MaxReadFaults = 0
CHECK_DEADLOCK FALSE
INVARIANTS TypeOK MergedSorted ReadComplete OneBeforeFound SettledIsFindable QuietReachesLong
PROPERTIES ReadEnds
