CONSTANTS
    i1 = i1
    i2 = i2
    i3 = i3
    Runs <- MCRuns
    Absent = Absent
    Foreign = Foreign
SPECIFICATION Spec
CHECK_DEADLOCK FALSE
PROPERTY OnlyStaleRemoved
