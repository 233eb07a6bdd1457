SPECIFICATION Spec
CONSTANTS
    Task = {"lib_setscene", "lib_stage", "app_build"}
    Depends <- ChainDepends
    FnOf <- ChainFnOf
    NoStamp = {}
    SelfStamp = {"lib_setscene"}
    Targets = {{"lib_setscene"}, {"lib_stage"}, {"app_build"}}
    StampPolicy = "full"
    StampWhitelist = {}
    NumberTasks = 2
    Pid = {p1, p2, p3}
    NoTask = NoTask
    MaxRuns = 3
    MaxInterrupts = 1
    MaxTicks = 1
SYMMETRY PidSymmetry
INVARIANTS TypeOK CurrentIsGood UpToDate ForcedRuns
