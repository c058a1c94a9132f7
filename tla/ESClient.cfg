SPECIFICATION FairSpec
CONSTANTS
    Indexers = {i1, i2}
    Clusters = {0, 2, 100}
    MaxDeadPercentage = 59
    MaxRetries = 1
INVARIANTS TypeOK ThresholdExact NoReloadStorm DuplicatesBounded ScrapesSucceed
PROPERTY DeadPoolHandled
