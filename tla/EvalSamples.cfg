\* Up to three samples on two workers, read or of the ground truth.
SPECIFICATION ScriptSpec
CONSTANTS
    MaxSamples = 3
    Tasks = {t1, t2}
    GivenIds = {0}
    Absent = Absent
    Workers = 2
    Ks = {1, 2, 3}
    Hard = {t2}
INVARIANTS
    ScoreIsShareOfDraws
    RecordsOwn
    NothingLeft
    StatsAgree
PROPERTIES
    ImplementsEvaluation
    ScriptEnds
