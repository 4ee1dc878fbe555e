SPECIFICATION HSpec
CONSTANTS
    a = a
    b = b
    c = c
    Tasks = {a, b, c}
    NoTask = NoTask
    Radios = {1, 2, 3}
    radioOf <- OwnRadios
    Calls <- ClientCalls
    Frequencies = {1, 2}
    Modulations = {1}
    waveform <- SameWaveform
    DefaultConfig <- Default
    MaxChains <- Gateway
    OutOfRange = {}
    Survivors <- AnyOutcome
    MaxPackets = 2
    StandbyTime = 1
    PreambleTime = 1
    PayloadTimes = {1}
    SenseTime = 1
    ProcessDelay = 1
    Timeouts = {2}
INVARIANTS TransitIsOnAir IdleWaiterHasAPacket TransmissionStaysInTX EndTakesATickPerReceiver
PROPERTIES OnlyUntouchedChainsDeliver DeliveredOnce
