SPECIFICATION MCSpec
CONSTANTS
    InputCapacity = 2
    OutputCapacity = 3
    InterpolationEnabled = TRUE
    Provider = "onnx"
    Shapes = {"sd", "hd"}
    MaxFrames = 4
    MaxPts = 3
INVARIANTS
    DeliveredInOrder
    InputConserved
    WorkAccounted
    BackendsPresent
    StateExplained
PROPERTIES
    StoppedForGood
    ImplementsStream
