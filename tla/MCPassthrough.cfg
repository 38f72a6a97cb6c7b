SPECIFICATION Spec
CONSTANTS
    InputCapacity = 2
    OutputCapacity = 2
    MaxFrames = 6
    MaxPts = 3
INVARIANT
    FramesAccounted
PROPERTY
    ImplementsStream
