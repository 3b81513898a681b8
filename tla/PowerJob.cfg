SPECIFICATION Spec
CONSTANTS
    Stages <- ThreeStages
    Parents <- StageParents
    Diversion <- Diverted
    Tolerant = {"more"}
    Absent = Absent
    Modules = {"execution", "workflows", "dft_u_policy"}
    Late = {"dft_u_policy"}
    Upgraded = {"workflows"}
    Packages = {"pymatgen"}
    Foreign = "foreign"
    MaxChanges = 1
    MaxRuns = 2
INVARIANTS
    OnlyUploadedCodeRuns
    NothingRunsUnchecked
    ProvenanceIsWhatRuns
    NoDependentStageRuns
    DoneMeansAllRan
PROPERTY
    RunEnds
\* Every run ends.
CHECK_DEADLOCK FALSE
