\* Two calls that draw the same name.
SPECIFICATION Spec
CONSTANTS
    Langs = {"cpp"}
    Calls = {c1, c2}
    Good = {c1}
    Broken = {}
    Dirs = {d1, d2}
    NoDir = NoDir
    Nobody = Nobody
INVARIANTS
    OwnVerdict
