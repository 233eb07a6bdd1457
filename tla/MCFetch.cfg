SPECIFICATION FairSpec
CONSTANTS
    Task = {"app", "lib"}
    File = {"src.tgz", "doc.tgz", "lib_1"}
    Wants <- MixedWants
    Repo <- MixedRepo
    Sites = 2
    BadSites = {2}
    Md5 <- MixedMd5
    Listed <- MixedListed
    Mortal = {"app"}
    MaxTries = 2
    None = None
CHECK_DEADLOCK FALSE
INVARIANTS OneWriter StampedIsGood DoneIsVerified
PROPERTIES NoSecondDownload FetchEnds
