\* The GPU needs received data flushed; the plugin's iflush does nothing.
CONSTANTS
    Steps = 2
    Depth = 2
    Shared = TRUE
    Ops <- TwoSteps
    Late = TRUE
    Flushes = FALSE
SPECIFICATION Spec
INVARIANT ReadInOrder
CHECK_DEADLOCK FALSE
