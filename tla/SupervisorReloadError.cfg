CONSTANTS
    Indexers = {"indexer0"}
    Limits = {2}
    Densities = {1}
SPECIFICATION FairSpec
PROPERTY FailureIsFatal
