SPECIFICATION Spec
CONSTANTS
    Fn = {"app.bb", "lib.bb", "alt.bb"}
    Target = {"image", "tool", "lib", "dev", "gcc"}
    RunTarget = {}
    Ignored = {"gcc"}
    DataCaches <- Caches
    CommandLine <- ImageOnly
    MaxProviders = 2
    IdependsOf <- NoIdepends
INVARIANTS FailedNamesUnbuildable
