SPECIFICATION Spec
CONSTANTS
    t1 = t1
    t2 = t2
    Bad = Bad
    Absent = Absent
    Tabs = {t1}
    Structures <- OnlySi
    Outputs = {}
    Customs <- EnteredEnergy
    Attempts = {1}
    MaxClock = 0
    MaxRestarts = 0
INVARIANT CustomWorkflowsAreStable
CHECK_DEADLOCK FALSE
