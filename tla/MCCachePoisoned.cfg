SPECIFICATION Spec
CONSTANTS
    Recipes <- OneRecipe
    Inc = {"common.inc"}
    Includes <- Own
    Optional = {}
    MainConf = "bitbake.conf"
    ConfInc = {"local.conf"}
    DontCache = {}
    EditIdle = {}
    EditBusy = {}
    RemoveBusy = {}
    Restored = {}
    MaxRuns = 3
    MaxEdits = 0
    MaxInterrupts = 1
INVARIANTS FailsForReason
