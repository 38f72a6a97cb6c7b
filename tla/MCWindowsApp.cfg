SPECIFICATION MCSpec
CONSTANTS
    InputCapacity = 1
    OutputCapacity = 2
    InterpolationEnabled = TRUE
    Provider = "fake"
    Shapes = {"vga"}
    SyntheticShape = "vga"
    MaxFrames = 4
    MaxPts = 3
    CaptureCapacity = 2
    FrameDuration = 1
    MaxSwitches = 2
CHECK_DEADLOCK FALSE
INVARIANT
    ScreenCurrent
PROPERTIES
    PaintedInOrder
    CapturedGetsPainted
    ClosingEnds
