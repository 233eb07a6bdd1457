SPECIFICATION Spec
CONSTANTS
    Task = {"lib_stage", "app_fetch", "app_compile", "app_doc", "app_build"}
    Depends <- DiamondDepends
    FnOf <- DiamondFnOf
    NoStamp = {"app_fetch"}
    SelfStamp = {}
    Targets = {{"app_build"}, {"app_compile", "app_doc"}}
    StampPolicy = "perfile"
    StampWhitelist = {}
    NumberTasks = 2
    Pid = {p1, p2, p3}
    NoTask = NoTask
    MaxRuns = 2
    MaxInterrupts = 1
    MaxTicks = 0
SYMMETRY PidSymmetry
INVARIANTS NoOverlap SlotLimit SuccessCompletes KeepGoing
PROPERTIES ReapsAll AbortStops ImplementsOrder
