CONSTANTS
    s1 = s1  s2 = s2  s3 = s3
    Messages <- TwoMessages
    Indexers = {i1}
    ConsumerChanCap = 1
    ErrorChanCap = 1
    ProducerChanCap = 1
    MsgLimit = 2
    BytesLimit = 2
    Faults = {"bulk_call"}
SPECIFICATION Spec
INVARIANT FailedSpisAreRepublished
