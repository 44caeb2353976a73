\* A ring of four slots that has not processed a batch.
SPECIFICATION Spec
CONSTANTS
    Capacity = 4
    One = 8
    Timestamps = {0}
    Metrics = {0}
    Proxies = {0}
    MaxBatch = 1
    MaxSeq = 2
    Corruptible = {}
    Indeterminate = Indeterminate
INVARIANTS
    SnapshotIsAFrame
