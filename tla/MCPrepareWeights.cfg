SPECIFICATION Spec
CONSTANTS
    NumTasks = 6
    tasks_fnid <- ChainFnid
    tasks_name <- ChainName
    Parents <- ChainParents
    Idepends <- NoIdepends
    deptask <- ChainDeptask
    recrdeptask <- NoRecrdeptask
    depids <- ChainDepids
    Providers <- ChainProviders
    Targets <- ChainTargets
    Broken = {{}}
CHECK_DEADLOCK FALSE
INVARIANT MostNeededHeaviest
