\* Two messages over two planes, one at a time, and one queue pair fails.
CONSTANTS
    NPlanes = 2
    Threads = {tcp}
    Monitored = {"S", "R"}
    MaxEvents = 0
    MaxFaults = 1
    MaxTimeouts = 0
    MaxSkips = 0
    MaxSteps = 2
    Window = 1
    MaxQp = 7
SPECIFICATION Spec
INVARIANTS DataCorrect
CHECK_DEADLOCK FALSE
