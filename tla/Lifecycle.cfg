SPECIFICATION FairSpec
CONSTANTS
    Requests = {q1, q2}
PROPERTIES
    StopIsNoFailure
    Exits
