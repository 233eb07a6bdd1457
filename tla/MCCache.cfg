SPECIFICATION Spec
CONSTANTS
    Recipes <- TwoRecipes
    Inc = {"common.inc"}
    Includes <- Shared
    Optional = {}
    MainConf = "bitbake.conf"
    ConfInc = {"local.conf"}
    DontCache = {"app.bb"}
    EditIdle = {"app.bb", "lib.bb", "common.inc", "local.conf"}
    EditBusy = {"common.inc"}
    RemoveBusy = {"lib.bb"}
    Restored = {"app.bb", "lib.bb"}
    MaxRuns = 3
    MaxEdits = 2
    MaxInterrupts = 1
INVARIANTS NeverStale FailsOnlyAfterInterrupt NothingParsedTwice
