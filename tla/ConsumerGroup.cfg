SPECIFICATION FairSpec
CONSTANTS
    Instances = {n1, n2}
    Nobody = Nobody
    Partitions = {p1}
    MaxOffset = 2
    MaxIncidents = 4
INVARIANTS TypeOK NothingPassedOver ConsumedOnce
PROPERTIES OffsetsNeverGoBack EveryMessageSettles
CHECK_DEADLOCK FALSE
