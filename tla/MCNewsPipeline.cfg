\* Two producers with two messages between them, buffers of one slot; malloc may fail.
CONSTANTS
    N = 2
    Loads <- TwoProducersLoads
    queueSize <- TwoProducersSizes
    coEditorSize = 1
    AllocMayFail = TRUE
SPECIFICATION Spec
INVARIANTS
    TypeOK
    InTransit
    OutputComplete
    NoUseAfterDestroy
PROPERTY GoodEnd
