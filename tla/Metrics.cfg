SPECIFICATION FairSpec
CONSTANTS
    Goroutines = {g1, g2, g3}
    NoGoroutine = NoGoroutine
    Limits = 2
    Observed <- SomeObservations
    MaxObservations = 4
    MaxCollections = 1
INVARIANTS
    MapsAreSafe
    PagesAreConsistent
    PagesAreSnapshots
PROPERTIES
    ObservationsEnd
