SPECIFICATION Spec
CONSTANTS
    r1 = r1
    r2 = r2
    a1 = a1
    d1 = d1
    Requests <- TwoRequests
    Attempts <- OneAttempt
    Dirs = {d1}
    RunDir <- OnlyDir
    Prints = {f1, f2}
    Provs = {v1}
    NoSpec = NoSpec
    TornFile = TornFile
    MaxMisreads = 2
    AmbiguousExit = TRUE
SYMMETRY Symmetry
INVARIANTS
    ProtocolInv
    ClaimIsExclusive
    JobsAreReal
    PreparedFilesArePresent
PROPERTIES
    PackageIsFrozen
    ImplementsLifecycle
