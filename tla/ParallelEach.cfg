SPECIFICATION FairPoolSpec
CONSTANTS
    N = 5
    Concurrency = 3
INVARIANTS
    HandledOnce
    ReturnsQuiet
PROPERTIES
    Returns
