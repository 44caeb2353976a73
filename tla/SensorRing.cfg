\* Wrap-around, overflow, interrupted batches, a corrupted slot, and timestamps that
\* repeat, go back and are zero.
SPECIFICATION Spec
CONSTANTS
    Capacity = 4
    One = 8
    Timestamps = {0, 1, 2}
    Metrics = {8}
    Proxies = {8}
    MaxBatch = 3
    MaxSeq = 6
    Corruptible = {1}
    Indeterminate = Indeterminate
INVARIANTS
    TypeOK
    Conservation
    SlotsInOrder
    FlagsTellLosses
    MonotonicUnlessFlagged
    AveragesSaturate
PROPERTIES
    DeliveredInOrder
    ImplementsLossyQueue
