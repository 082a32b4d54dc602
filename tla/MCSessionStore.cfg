SPECIFICATION FairSpec
CONSTANTS
    main = main  child = child  left = left  right = right  other = other
    null = null  undefined = undefined
    w1 = w1  w2 = w2
    Session = {main, child, left, right, other}
    Null = null  Undefined = undefined
    Lookup = {w1, w2}
    Changing = {main, child}
    Leaving = {main, child, other}
    MaxTombs = 2
    MaxRecords = 2
    Ancestors <- MCAncestors
    Asks <- MCAsks
    Root <- MCRoot
INVARIANTS
    TypeOK
    RootsAreTrue
    DeletionsRemembered
PROPERTIES
    LookupsCreateNothing
    LookupsEnd
