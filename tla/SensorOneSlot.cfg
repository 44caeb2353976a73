\* A ring of one slot, which init accepts.
SPECIFICATION Spec
CONSTANTS
    Capacity = 1
    One = 8
    Timestamps = {0}
    Metrics = {0}
    Proxies = {0}
    MaxBatch = 3
    MaxSeq = 7
    Corruptible = {}
    Indeterminate = Indeterminate
PROPERTIES
    NewestKept
