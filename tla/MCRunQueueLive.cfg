SPECIFICATION FairSpec
CONSTANTS
    Task = {"lib_stage", "dev_stage", "app_build"}
    Depends <- JoinDepends
    FnOf <- JoinFnOf
    NoStamp = {}
    SelfStamp = {}
    Targets = {{"app_build"}}
    StampPolicy = "full"
    StampWhitelist = {}
    NumberTasks = 2
    Pid = {p1, p2, p3}
    NoTask = NoTask
    MaxRuns = 1
    MaxInterrupts = 2
    MaxTicks = 0
PROPERTIES RunEnds
