CONSTANTS
    Buffer = {b1, b2, b3, b4}
    Indexers = {i1, i2}
    Actions <- SmallActions
    OneLine <- Deletes
    Topic <- SmallTopic
    ChanCap = 1
    HasProducer = TRUE
    TraceLevel = TRUE
SPECIFICATION Spec
INVARIANTS TypeOK NoSharing BatchesAreWhole FailedLinesExact TraceSeesMessageUntilPut
PROPERTY PanicsOnlyOnOneLine
CHECK_DEADLOCK FALSE
SYMMETRY Symmetry
