SPECIFICATION FramingSpec
CONSTANTS
    Sizes <- MCSizes
    MaxFrame = 3
    MaxMessage = 5
    Readers <- MCReaders
    Batch = 3
    MaxPending = 3
    MaxFrames = 4
INVARIANT
    MessageIsOneFrame
