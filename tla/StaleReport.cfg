\* One plane without traffic: three reports at both ends.
CONSTANTS
    NPlanes = 1
    Threads = {tcp}
    Monitored = {"S", "R"}
    MaxEvents = 3
    MaxFaults = 0
    MaxTimeouts = 0
    MaxSkips = 0
    MaxSteps = 0
    Window = 1
    MaxQp = 7
SPECIFICATION FairSpec
PROPERTIES BothRecover
CHECK_DEADLOCK FALSE
