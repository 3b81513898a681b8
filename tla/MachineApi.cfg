SPECIFICATION ApiSpec
CONSTANTS
    r1 = r1
    r2 = r2
    None = None
    Bad = Bad
    Absent = Absent
    Calls = {r1, r2}
    Attempts = {a1}
    Kinds = {"prepare", "submit", "get"}
    Strays = {a1}
    Stamps = {t1, t2}
    MaxActive = 2
    MaxSubmissions = 2
    MaxNew = 2
    Window = 1
    MaxClock = 0
    TokenFiles <- SomeFiles
    Requests <- SomeRequests
    Versions <- SomeVersions
    MaxCpus = 1
    MaxUpgrades = 1
SYMMETRY ApiSymmetry
VIEW Decisive
INVARIANT SubmittedAsPlanned
PROPERTY RetriesAreRecognised
