\* Two runs over each other's files, with programs of every kind.
SPECIFICATION Spec
CONSTANTS
    NSamples = 3
    WorldSizes = {1, 2}
    Runs = 2
    Workers = 2
    Right = {0, 1}
    Listed = {1}
    Empty = Empty
INVARIANTS
    PredictionIsOwn
    MergedOnce
PROPERTIES
    RunEnds
