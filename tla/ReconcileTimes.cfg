SPECIFICATION Spec
CONSTANTS
    Replicas = {r1, r2}
    First = 1
    Lease = 6
    Base = 1
    Cap = 360
    \* 50 polls of up to 20 s by 8 workers, in units of 10 s; 100 by one worker
    MaxHold = 14
    \* such a batch, and the ticker
    MaxLate = 15
INVARIANTS
    OneReplicaPolls
    OpenIsHeardOf
PROPERTIES
    ClaimsAreSpaced
