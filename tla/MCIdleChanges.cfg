SPECIFICATION Spec
CONSTANTS
    a = a  b = b
    i1 = i1  i2 = i2  i3 = i3
    old = old  new = new
    NoRequest = NoRequest
    Change = {a, b}
    Idle = {i1, i2, i3}
    Overlap = FALSE
    MaxRuns = 4
    HookMap = {old, new}
    Hooks <- MCHooks
SYMMETRY MCSymmetry
INVARIANTS
    TypeOK
    ChangesAreOwed
