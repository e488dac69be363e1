\* A message over two planes, of which the sender loses one and gets it back.
CONSTANTS
    NPlanes = 2
    Threads = {tcp}
    Monitored = {"S"}
    MaxEvents = 2
    MaxFaults = 0
    MaxTimeouts = 0
    MaxSkips = 0
    MaxSteps = 1
    Window = 1
    MaxQp = 7
SPECIFICATION Spec
INVARIANTS MatchedOnOnePlane
CHECK_DEADLOCK FALSE
