SPECIFICATION Spec
CONSTANTS
    Calls = {r1, r2}
    Attempts = {a1, a2}
    Kinds = {"submit", "get"}
    Strays = {}
    Stamps = {t1, t2}
    MaxActive = 1
    MaxSubmissions = 1
    MaxNew = 1
    Window = 1
    MaxClock = 2
    None = None
SYMMETRY Symmetry
VIEW Decisive
INVARIANTS
    StampsAreUnique
    
    RunningWithinCap
PROPERTY SubmittedIsFinal
