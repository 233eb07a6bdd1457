SPECIFICATION Spec
CONSTANTS
    Var <- MCVar
    Override = {"arm", "task"}
    Given <- MCGiven
    Assignments <- MCAssignments
    Appends <- MCAppends
    Renames <- MCRenames
    Deleted <- MCDeleted
    Read <- MCRead
    None = None
    MaxStores = 2
    MaxOps = 4
CHECK_DEADLOCK FALSE
PROPERTY KeptAppends
