SPECIFICATION FairSpec
CONSTANTS
    Proc = {p1, p2, p3}
    Inode = {i1, i2, i3, i4}
    None = None
INVARIANTS MutualExclusion
PROPERTY SomebodyEnters
