SPECIFICATION Spec
CONSTANTS
    None = None
    Dirs = {top, sub}
    Anchors = {ours, theirs, others}
    Here = ours
    Edits <- MCEdits
    MaxRuntimes = 1
    CacheMax = 2
    MaxWrites = 2
SYMMETRY MCSymmetry
INVARIANTS TypeOK RevokedStaysOut OneLoadOnly FreshUnlessRaced GrantsKept
CHECK_DEADLOCK FALSE
