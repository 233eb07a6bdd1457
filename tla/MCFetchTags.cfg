SPECIFICATION Spec
CONSTANTS
    Task = {"app", "lib"}
    File = {"lib_1", "lib_2"}
    Wants <- TagWants
    Repo <- TagRepo
    Sites = 1
    BadSites = {}
    Md5 <- NoSums
    Listed <- NoSums
    Mortal = {}
    MaxTries = 1
    None = None
CHECK_DEADLOCK FALSE
INVARIANTS StampedIsGood
