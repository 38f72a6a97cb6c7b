SPECIFICATION MCSpec
CONSTANTS
    InputCapacity = 4
    OutputCapacity = 16
    InterpolationEnabled = TRUE
    Provider = "fake"
    Shapes = {"frame"}
    MaxFrames = 8
    MaxPts = 300000
    Fps = 30
CHECK_DEADLOCK FALSE
INVARIANTS
    SmokeContract
    OnlyBackendsFail
PROPERTY
    AlwaysEnds
