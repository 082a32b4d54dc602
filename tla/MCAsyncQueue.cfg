SPECIFICATION FairSpec
CONSTANTS
    j1 = j1  j2 = j2  j3 = j3  j4 = j4  j5 = j5
    s1 = s1
    group = group  event = event
    Job = {j1, j2, j3, j4, j5, s1}
    Lane = {group, event}
    MaxPending = 2
    LaneOf <- MCLaneOf
    Concurrency <- MCConcurrency
INVARIANTS
    TypeOK
    CountersExact
    WithinLimits
    NeverStalls
    StartInOrder
PROPERTIES
    AcceptedRuns
