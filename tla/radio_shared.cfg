SPECIFICATION FairSpec
CONSTANTS
    a = a
    b = b
    c = c
    Tasks = {a, b, c}
    NoTask = NoTask
    Radios = {1, 2}
    radioOf <- SharedRadio
    Calls <- SharedCalls
    Frequencies = {1}
    Modulations = {1}
    waveform <- SameWaveform
    DefaultConfig <- Default
    MaxChains <- Gateway
    OutOfRange = {}
    Survivors <- NoCapture
    MaxPackets = 1
    StandbyTime = 1
    PreambleTime = 1
    PayloadTimes = {1}
    SenseTime = 1
    ProcessDelay = 1
    Timeouts = {2}
INVARIANTS TXHasTransmission
PROPERTIES CallsEnd
