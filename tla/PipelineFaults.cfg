CONSTANTS
    s1 = s1  s2 = s2  s3 = s3
    Messages <- TwoMessages
    Indexers = {i1, i2}
    ConsumerChanCap = 1
    ErrorChanCap = 1
    ProducerChanCap = 1
    MsgLimit = 2
    BytesLimit = 2
    Faults <- AllFaults
SPECIFICATION Spec
INVARIANTS TypeOK Conservation NoPanic Drains
PROPERTIES OnlyAbortAbandons ImplementsDelivery
CHECK_DEADLOCK FALSE
SYMMETRY Symmetry
