\* Two planes: three reports on one of them by two monitor threads in each
\* process, or a message with any two of a report, two faults and a timeout,
\* and a refused call.
CONSTANTS
    NPlanes = 2
    Threads = {tcp, udp}
    Monitored = {"S", "R"}
    MaxEvents = 3
    MaxFaults = 2
    MaxTimeouts = 1
    MaxSkips = 1
    MaxSteps = 1
    Window = 1
    MaxQp = 8
SPECIFICATION Spec
INVARIANTS TypeOK AnswerFindsShadow ProbeAlreadyArrived WaitIsAnswered PairedActive ReplacementsSound RequestQpKept PostedIsTracked
PROPERTIES NeverReadmitted AgreementSpec
CONSTRAINT ReportsOrTraffic
SYMMETRY ThreadSymmetry
CHECK_DEADLOCK FALSE
