\* Two messages over two planes, both in flight, when nothing goes wrong.
CONSTANTS
    NPlanes = 2
    Threads = {tcp}
    Monitored = {"S", "R"}
    MaxEvents = 0
    MaxFaults = 0
    MaxTimeouts = 0
    MaxSkips = 0
    MaxSteps = 2
    Window = 2
    MaxQp = 7
SPECIFICATION FairSpec
PROPERTIES AllDelivered
CHECK_DEADLOCK FALSE
