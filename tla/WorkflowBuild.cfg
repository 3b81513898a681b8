SPECIFICATION Spec
\* A request is answered once.
CHECK_DEADLOCK FALSE
CONSTANTS
    Bad = Bad
    Absent = Absent
    MaxStages = 3
    Requests <- AllRequests
    Stages <- AllStages
    Structures <- AllStructures
    Givens <- AllGivens
    Meshes = {"default", "line"}
INVARIANTS
    PreviewIsWhatRuns
    TheTwoSpecsAgree
    TreatmentsReachTheInputs
    RestartsAreReadable
