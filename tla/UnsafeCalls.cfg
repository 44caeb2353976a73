\* Three calls in any language, two names: alone, sharing, killed.
SPECIFICATION Spec
CONSTANTS
    Langs = {"python", "go", "js", "cpp", "php", "sh", "ts", "cs", "rust", "java"}
    Calls = {c1, c2, c3}
    Good = {c1}
    Broken = {c3}
    Dirs = {d1, d2}
    NoDir = NoDir
    Nobody = Nobody
INVARIANTS
    AloneIsCorrect
    DamageConfined
    Reclaimed
    LastIsRight
