SPECIFICATION MCSpec
CONSTANTS
    Sizes <- MCSizes
    MaxFrame = 3
    MaxMessage = 5
    Readers <- MCReaders
    Batch = 3
    MaxPending = 3
    MaxFrames = 4
    Endpoints = 2
    IdleTicks <- MCIdle
    ProbeTicks <- MCProbe
    ConfigTicks = 2
    DrainTicks = 1
    NetTicks = 1
    Silence = 18
    EndpointCount = 2
    MaxStarts = 2
    MaxGeneration = 3
    Session = {t1}
    Network = {wifi, lte}
    NoSession = NoSession
    Subject = {u1}
    Site = {a1, a2, a3}
    Domain = {dom1, NoDomain}
    Ttls <- MCTtls
    MinTtl = 1
    MaxTtl = 2
    FlowGap = 1
    FlowKept = 2
    MaxMappings = 2
    NoDomain = NoDomain
    Nothing = Nothing
INVARIANTS
    HeardInTime
    OnePump
    OneConnection
    PruningUnseen
    NothingLeaks
PROPERTIES
    FramesInOrder
    FramesArrive
    HangNoticed
    CompletedOnce
    Released
    NetworkFollowed
CHECK_DEADLOCK FALSE
