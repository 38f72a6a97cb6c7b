SPECIFICATION Spec
CONSTANTS
    InputCapacity = 1
    OutputCapacity = 1
    InterpolationEnabled = FALSE
    Provider = "fake"
    Shapes = {"sd"}
    MaxFrames = 3
    MaxPts = 1
PROPERTY
    OverloadKeepsNewest
