CONSTANTS
    MaxMsgs = 3
    MaxSpin = 2
    LogDeliveryReports = TRUE
SPECIFICATION Spec
INVARIANT FlushDoesNotPanic
