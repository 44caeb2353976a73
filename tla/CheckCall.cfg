\* One call in any language, with a timeout below and far above javac's limit, and
\* below and above bash's.
SPECIFICATION Spec
CONSTANTS
    Langs = {"python", "go", "js", "cpp", "php", "sh", "ts", "cs", "rust", "java", "other"}
    Timeouts = {2, 15}
    CompileLimit = 3
    ShellLimit = 10
INVARIANTS
    TypeOK
    ReadsAgree
    PassedIsEarned
    SlackSuffices
    TimedOutIsLate
    RetriesAreSpaced
PROPERTIES
    FirstVerdictFinal
    CallReturns
