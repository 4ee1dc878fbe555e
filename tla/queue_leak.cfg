SPECIFICATION QueueSpec
CONSTANTS
    t1 = t1
    t2 = t2
    t3 = t3
    Orphan = Orphan
    Tasks <- Two
    Roots <- Two
    Users <- OneEach
    MaxItems = 2
    Strays = {}
    Lengths = {8}
    Durations = {1, 2}
INVARIANTS LockCount
CHECK_DEADLOCK FALSE
