SPECIFICATION SafetySpec
CONSTANTS
    Chans = {"c1", "c2"}
    EnumChans = {"c1"}
    Offered <- OnePolled
    InsertQueueMax = 1
    EventQueueMax = 1
    Reorder = FALSE
    MaxCmds = 3
    MaxIoid = 2
    MaxFaults = 1
INVARIANTS EnumHandlerHasChannel
