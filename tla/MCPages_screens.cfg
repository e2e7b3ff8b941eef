CONSTANTS
    a1 = a1
    a2 = a2
    None = None
    Addresses = {a1, a2}
    Versions <- MCVersions
    AbsentIn <- MCAbsentIn
    Lanes <- MCLanes
    MaxOutages = 1

SPECIFICATION Spec
INVARIANTS TypeOK AbsenceIsTold 
PROPERTY ScreenCatchesUp
CHECK_DEADLOCK FALSE
