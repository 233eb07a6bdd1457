SPECIFICATION Spec
CONSTANTS
    Var <- MCVar
    Override = {"arm", "task"}
    Given <- MCGiven
    Assignments <- MCAssignments
    Appends <- MCAppends
    Renames <- MCRenames
    Deleted <- MCDeleted
    Read <- MCRead
    None = None
    MaxStores = 3
    MaxOps = 6
CHECK_DEADLOCK FALSE
INVARIANTS IndexComplete CacheFresh AppendedOnce
PROPERTIES CopiesOnly LastOverrideWins
