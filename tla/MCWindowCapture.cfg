SPECIFICATION Spec
CONSTANTS
    Controllers = {ui, other}
    Owner = ui
    Callbacks = {t1, t2}
    Nobody = Nobody
    QueueCapacity = 2
    MaxCalls = 4
    MaxSequence = 3
CHECK_DEADLOCK FALSE
INVARIANTS
    RaceFree
    QuietAfterStop
    WholeOrGone
    FramesInOrder
PROPERTY
    CallsReturn
    ImplementsSource
