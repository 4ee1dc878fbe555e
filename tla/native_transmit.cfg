SPECIFICATION Spec
CONSTANTS
    n1 = n1
    n2 = n2
    Nodes = {n1}
    Slots <- MCSlots
    Length = 9
    Durations = {1, 2}
    Timeouts = {0}
    AirTime = 2
    MaxCalls <- PingPongCalls
    MaxPackets = 1
    Calls <- PingPong
PROPERTY TransmitBlockingWaits
CHECK_DEADLOCK FALSE
