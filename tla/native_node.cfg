SPECIFICATION FairSpec
CONSTANTS
    n1 = n1
    n2 = n2
    Nodes = {n1, n2}
    Slots <- MCSlots
    Length = 6
    Durations = {2}
    Timeouts = {0, 1}
    AirTime = 1
    MaxCalls <- FewCalls
    MaxPackets = 1
    Calls <- OneOfEach
INVARIANTS OpenMeansOutstanding OneLockPerNode
PROPERTIES SleepsOut CallsReturn
CHECK_DEADLOCK FALSE
