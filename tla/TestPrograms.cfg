\* Every script and language; batches of up to three problems for mbpp.
SPECIFICATION Spec
CONSTANTS
    Languages = {"python", "cpp", "java", "cs", "js", "ts", "php", "sh", "go", "other"}
    Texts <- MCTexts
    BatchSize = 3
    MaxNew = 14
    OwnLengths = {3, 9, 12}
    ShotLength = 4
    MaxSeqLen = 15
    MaxGenLen = 5
INVARIANTS
    ProgramIsWhole
    OwnCodeRuns
    PromptFits
    RowsWhole
