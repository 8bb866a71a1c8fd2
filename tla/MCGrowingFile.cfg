SPECIFICATION FileSpec
CONSTANTS
    minPartSize = 8
    maxParts = 10
    MaxUploadBytes = 2600
    Rates <- FrameRates
    Interval = 2
    MaxThumbnails = 100
    DefaultColumns = 10
INVARIANTS PartsFitTheFile KeyframesOnGrid StripIsRight
CHECK_DEADLOCK FALSE
