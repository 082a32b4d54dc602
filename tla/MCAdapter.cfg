SPECIFICATION Spec
CONSTANTS
    None = None
    Sessions = {s1, s2}
    Hosts = {"pi", "omp"}
    MaxVisits = 3
    Calls = {c1, c2}
    MaxEntries = 1
    MaxRuns = 2
SYMMETRY MCSymmetry
INVARIANTS TypeOK DeletedOncePerVisit CreatedOnce ResultsGoHome IdleOncePerRun
CHECK_DEADLOCK FALSE
