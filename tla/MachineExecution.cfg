SPECIFICATION Spec
CONSTANTS
    Calls = {r1, r2}
    Attempts = {a1}
    Kinds = {"prepare", "submit", "get"}
    Strays = {a1}
    Stamps = {t1}
    MaxActive = 1
    MaxSubmissions = 2
    MaxNew = 2
    Window = 1
    MaxClock = 1
    None = None
SYMMETRY CallSymmetry
VIEW Unanswered
INVARIANTS
    RecordsAreReal
    JobsAreCounted
