SPECIFICATION SafetySpec
CONSTANTS
    Chans = {"c1", "c2"}
    Addrs = {"a1", "a2"}
    Configs = {"f1", "f2"}
    SearchPendingMax = 1
    Faults = {"ConnEnd", "ConnError", "ConnStuck", "CreateFail", "Timeout", "LookupError", "FinderDrop"}
    MaxCmds = 3
    MaxFaults = 2
INVARIANTS TypeOK AssignedHasConn NoHandlerError SearchNotForgotten
PROPERTY SearchLimit
