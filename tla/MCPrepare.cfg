SPECIFICATION FairSpec
CONSTANTS
    NumTasks = 7
    tasks_fnid <- MCFnid
    tasks_name <- MCName
    Parents <- SomeParents
    Idepends <- FewIdepends
    deptask <- MCDeptask
    recrdeptask <- MCRecrdeptask
    depids <- MCDepids
    Providers <- MCProviders
    Targets <- MCTargets
    Broken <- MCBroken
CHECK_DEADLOCK FALSE
INVARIANTS LoopsFound RecursiveComplete EachTaskOnce RecipesTogether
PROPERTIES PreparationEnds
