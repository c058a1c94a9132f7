CONSTANTS
    Indexers = {"indexer0", "indexer1"}
    Limits = {1, 5}
    Densities = {0, 3}
SPECIFICATION FairSpec
INVARIANTS TypeOK RootCauseReported BucketsFollowDensity
PROPERTIES SetupEnds HangupServed FailureStopsUnlessStuck SignalStopsUnlessStuck
