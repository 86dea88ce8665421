CONSTANTS
    User = {u1, u2}
    MaxFaults = 1
    MaxCrashes = 0
    MaxSaves = 1
SPECIFICATION Spec
PROPERTIES
    UserBytesSurvive
