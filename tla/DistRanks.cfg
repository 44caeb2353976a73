\* Three processes, as in test_config.yaml; four prompts, sampled twice.
SPECIFICATION Spec
CONSTANTS
    Size = 3
    Prompts = 4
    NSample = 2
    BatchSize = 3
    Jobs = 2
    NoFile = NoFile
INVARIANTS
    ScoredOnce
    LogsAreThere
    MergeUndisturbed
PROPERTIES
    Ends
