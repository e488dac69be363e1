SPECIFICATION Spec
CONSTANTS
    k1 = k1
    k2 = k2
    Conns = {k1, k2}
    SenderOf <- OneFromEach
    Reporters = {"P"}
    OnlyProbes = TRUE
    MaxReports = 2
    MaxFailures = 0
PROPERTIES WaitsEnd
CHECK_DEADLOCK FALSE
