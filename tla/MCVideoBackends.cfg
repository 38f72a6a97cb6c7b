SPECIFICATION MCSpec
CONSTANTS
    Provider = "onnx"
    HasOnnxRuntime = TRUE
    Sessions = {s1, s2}
    NoSession = NoSession
    Manifests <- OfferedManifests
    Sizes = {1, 2}
INVARIANTS
    ModelsAgree
    ProviderHonest
    NothingLeaks
    FailureExplained
    ScaleHonoured
PROPERTIES
    ImplementsContract
