SPECIFICATION InputSpec
CONSTANTS
    UnsignedRange = 8
    LongRange = 64
    FloatUnit = 1048576
    Lines <- MCLines
    Starts <- MCStarts
    Words <- MCWords
    Disk <- MCDisk
    Factors <- MCFactors
    MaxLines = 3
    MaxWords = 4
    MaxSide = 9
CHECK_DEADLOCK FALSE
INVARIANTS
    FromTextExact
    LoadedIsUsable
    CliRunsAsAsked
    AppReadsAsCli
    ManifestsValid
    ResolutionFits
    PixelsKept
