CONSTANTS
    MaxMsgs = 3
    MaxSpin = 2
    LogDeliveryReports = TRUE
SPECIFICATION FairSpec
INVARIANTS TypeOK CountersMatchReports
PROPERTY ProducerEnds SpinningEnds
