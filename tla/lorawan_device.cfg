SPECIFICATION FairSpec
CONSTANTS
    u1 = u1
    u2 = u2
    l1 = l1
    l2 = l2
    s1 = s1
    s2 = s2
    None = None
    Uplinkers = {u1, u2}
    Loops = {l1, l2}
    Sessions = {s1, s2}
    Groups = {1, 2}
    Parameters <- TwoParameters
    OwnRate = 0
    OwnFrequency = 1
    Leads = {1}
    Lengths = {2}
    Switches = {"A", "C"}
    MaxCalls = 3
    StandbyTime = 1
    AirTime = 3
    ReceiveDelay1 = 2
    ReceiveDelay2 = 4
    Window = 1
    PollInterval = 2
INVARIANTS SuspendsMatchUplinks NoLoopForgotten RepliesGoToTheWindow SessionsAccounted TunedOutsideWindows
PROPERTIES ClassCListens
CHECK_DEADLOCK FALSE
