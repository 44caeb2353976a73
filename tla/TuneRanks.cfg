\* Three ranks and up to two examples, cut at four tokens.
SPECIFICATION Spec
CONSTANTS
    WorldSize = 3
    MaxExamples = 2
    Sources <- MCSources
    Targets <- MCTargets
    ModelMaxLength = 4
    Shown = 2
    Ignore = "ignore"
INVARIANTS
    OneCache
    OnlyAnswerLearned
PROPERTIES
    NoneLeftWaiting
