\* One of the connections' components at a time; of "shared" two connections
\* made by one process, two reports, an error and a refusal.
CONSTANTS
    k1 = k1
    k2 = k2
    Conns = {k1, k2}
    SenderOf <- BothFromP
    Reporters = {"P"}
    OnlyProbes = TRUE
    MaxReports = 2
    MaxFailures = 1
SPECIFICATION FairSpec
INVARIANTS TypesOK SenderNotAhead DataCorrect
PROPERTIES AgreementSpec AllRebuilt SenderRecovers AllDelivered
CHECK_DEADLOCK FALSE
