\* Samples that need not cover the problems.
SPECIFICATION Spec
CONSTANTS
    MaxSamples = 2
    Tasks = {t1, t2}
    GivenIds = {}
    Absent = Absent
    Workers = 2
    Ks = {1, 2}
INVARIANTS
    CleanRunReturns
