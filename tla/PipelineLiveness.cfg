CONSTANTS
    s1 = s1  s2 = s2  s3 = s3
    Messages <- SingleSpis
    Indexers = {i1, i2}
    ConsumerChanCap = 1
    ErrorChanCap = 1
    ProducerChanCap = 1
    MsgLimit = 2
    BytesLimit = 1
    Faults = {"es_status", "producer_start"}
SPECIFICATION FairSpec
PROPERTIES ShutdownOnlyBlockedWithoutReader EverySpiSettles
CHECK_DEADLOCK FALSE
