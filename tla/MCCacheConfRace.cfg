SPECIFICATION Spec
CONSTANTS
    Recipes <- OneRecipe
    Inc = {"common.inc"}
    Includes <- Own
    Optional = {}
    MainConf = "bitbake.conf"
    ConfInc = {"local.conf"}
    DontCache = {}
    EditIdle = {}
    EditBusy = {"local.conf"}
    RemoveBusy = {}
    Restored = {}
    MaxRuns = 3
    MaxEdits = 2
    MaxInterrupts = 0
INVARIANTS NeverStale
