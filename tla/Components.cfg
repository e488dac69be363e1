\* One of the components at a time; the agreement has two planes and four
\* transitions of each.
CONSTANTS
    FaultPlanes = {0, 1}
    Gens = {1, 2, 3}
SPECIFICATION FairSpec
INVARIANTS TypesOK NoContradiction HealthyNotAhead PairedGenerations LoadedWhileUsed RefsCountUsers MonitorsJoined DevicesWhileUsed ElementsConserved RunningComplete StoppedFinishes ReadInOrder
PROPERTIES GenerationsOrdered AttemptsEnd FifoSpec SendsEnd  ProbeAgreement AnsweredIsHealthy SilentNotUsed PostedRuns AllOperationsEnd
CHECK_DEADLOCK FALSE
