SPECIFICATION SafetySpec
CONSTANTS
    Chans = {"c1"}
    Addrs = {"a1"}
    Configs = {"f1", "f2"}
    SearchPendingMax = 1
    Faults = {"ConnEnd"}
    MaxCmds = 2
    MaxFaults = 1
INVARIANT ClosedConnIsNoticed
