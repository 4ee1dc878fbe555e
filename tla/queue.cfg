SPECIFICATION QueueSpec
CONSTANTS
    t1 = t1
    t2 = t2
    t3 = t3
    Orphan = Orphan
    Tasks <- Three
    Roots <- Three
    Users <- OneOrTwoGetters
    MaxItems = 2
    Strays = {}
    Lengths = {6}
    Durations = {0, 1, 2}
INVARIANTS GetRaisesOnlyTimeout NobodyWaitsBesideAnItem EveryTaskHoldsTheClock SleepingGetterIsServed
CHECK_DEADLOCK FALSE
