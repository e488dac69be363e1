\* One communicator ends while another still uses the plugin.
CONSTANTS
    Comms = {"c1", "c2", "c3"}
    Conns = {"k1", "k2"}
    Threads = {"tcp", "udp"}
    MaxReports = 2
    Nobody = "nobody"
    Overlap = TRUE
SPECIFICATION Spec
INVARIANT DevicesWhileUsed
CHECK_DEADLOCK FALSE
