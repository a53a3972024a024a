SPECIFICATION SafetySpec
CONSTANTS
    Chans = {"c1"}
    Addrs = {"a1"}
    Configs = {"f1", "f2"}
    SearchPendingMax = 1
    Faults = {"CreateFail"}
    MaxCmds = 2
    MaxFaults = 1
PROPERTY CreateFailSuspectsAddress
