SPECIFICATION FairSpec
CONSTANTS
    r1 = r1
    r2 = r2
    f1 = f1
    f2 = f2
    None = None
    Replies = {r1, r2}
    Frames = {f1, f2}
    Refusable = {f2}
    Rate <- Rates
    OwnRate = 5
    DueTime <- DueTimes
    SlotOffsets = {3, 6}
    MaxSlots = 2
    ReplyTime = 1
    FrameTime <- FrameTimes
    BeaconTime = 1
    PingTime = 1
    MaxExtra <- ExtraTimes
    Gateways <- TwoGateways
    ReceiveDelay1 = 2
    BeaconInterval = 10
    BeaconGuard = 3
    BeaconReserved = 5
    PollInterval = 2
    TXBackoff = 1
    StandbyTime = 1
INVARIANTS OneFrameAtATime RepliesNeverDelayBeacons BeaconWaitsForOneFrame OthersAtOwnRate
PROPERTIES QuietTimeKept MulticastIsSent GatewayListens
