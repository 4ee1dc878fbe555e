SPECIFICATION FairSpec
CONSTANTS
    r1 = r1
    r2 = r2
    c1 = c1
    Tasks <- MCTasks
    Roots <- MCRoots
    Strays = {s1}
    Lengths = {0, 1, 3}
    Durations = {0, 2}
INVARIANTS LockCount WakeUpsMatchSleepers DrainStrandsNobody
PROPERTIES WokenOnTime ClockSpec RunReturns
