SPECIFICATION Spec
CONSTANTS
    NumTasks = 7
    tasks_fnid <- MCFnid
    tasks_name <- MCName
    Parents <- UsualParents
    Idepends <- FewIdepends
    deptask <- MCDeptask
    recrdeptask <- MCRecrdeptask
    depids <- MCDepids
    Providers <- MCProviders
    Targets <- MCTargets
    Broken <- MCBroken
CHECK_DEADLOCK FALSE
INVARIANT GivenUpIsLeftOut
