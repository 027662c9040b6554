SPECIFICATION Spec
CONSTANTS
    MaxDuration = 15
    Window = 5
    Timestamps <- SomeTimestamps
    Nows = {0}
    Mantissas = {0, 1, 10, 15}
    Exponents <- SomeExponents
INVARIANTS
    VerificationIsExact
    EventsMatchPayment
    RefusedForCause
