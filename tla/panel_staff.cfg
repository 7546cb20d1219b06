SPECIFICATION MCSpec
CONSTANTS
    Name = {n1, n2}
    Browser = {b1, b2}
    Key = {k1}
    Role <- MCRole
    Slots = 1
    MaxPasswords = 4
    None = None
    Source = {s1, s2, s3}
    PerSource = 2
    Global = 3
    MaxSources = 2
    Window = 2
    NoEntry = NoEntry
INVARIANTS
    SessionsCurrent
    OwnerRemains
    ThrottleHolds
PROPERTIES
    RemovedByOwner
    LoginAnswered
