\* Three processes in a ring; every wait may time out, the tables are quiet.
CONSTANTS
    Procs = {1, 2, 3}
    Edges <- Ring
    Planes = {0}
    MaxEvents = 0
    MaxTimeouts = 6
SPECIFICATION Spec
INVARIANT NoCircularWait
CHECK_DEADLOCK FALSE
