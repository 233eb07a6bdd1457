SPECIFICATION FairSpec
CONSTANTS
    Fn = {"app.bb", "lib.bb", "alt.bb"}
    Target = {"image", "tool", "lib", "dev", "gcc"}
    RunTarget = {"dev"}
    Ignored = {"gcc"}
    DataCaches <- SomeCaches
    CommandLine <- ImageAndTool
    MaxProviders = 2
    IdependsOf <- AltIdepend
INVARIANTS QueueComplete DeadAreFailed
PROPERTIES GivenUpForReason Terminates
