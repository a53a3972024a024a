SPECIFICATION Spec
CONSTANTS
    Chans = {"c1", "c2"}
    Addrs = {"a1", "a2"}
    Configs = {"f1", "f2"}
    SearchPendingMax = 1
    Faults = {"ConnEnd", "ConnError", "ConnStuck", "CreateFail"}
    MaxCmds = 3
    MaxFaults = 2
INVARIANTS OneHolder HeldAsConfigured
PROPERTIES ShutdownEnds SearchResolved
