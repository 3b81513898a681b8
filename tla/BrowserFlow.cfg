SPECIFICATION Spec
CONSTANTS
    t1 = t1
    t2 = t2
    Bad = Bad
    Absent = Absent
    Tabs = {t1, t2}
    Structures <- AllStructures
    Outputs = {"relaxed_structure", "electronic_dos"}
    Customs <- EnteredStages
    Attempts = {1}
    MaxClock = 1
    MaxRestarts = 1
SYMMETRY TabSymmetry
INVARIANTS
    JobsAreWhatWasShown
    PreparedIsWhatWasBuilt
    TreatmentsAreAccounted
    PowerChecksWhatWasPrepared
CHECK_DEADLOCK FALSE
