\* A message over two planes, of which the receiver's monitor reports one.
CONSTANTS
    NPlanes = 2
    Threads = {tcp}
    Monitored = {"R"}
    MaxEvents = 1
    MaxFaults = 0
    MaxTimeouts = 0
    MaxSkips = 0
    MaxSteps = 1
    Window = 1
    MaxQp = 7
SPECIFICATION FairSpec
PROPERTIES DeliveredIfUsable
CHECK_DEADLOCK FALSE
