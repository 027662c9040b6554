SPECIFICATION FairSpec
CONSTANTS
    e1 = e1
    e2 = e2
    e3 = e3
    r1 = r1
    r2 = r2
    Events = {e1, e2, e3}
    CreatedAt <- OneAfterAnother
    Refused = {e1}
    Replicas = {r1, r2}
    Limit = 2
    MaxFaults = 2
    MaxRestarts = 1
CHECK_DEADLOCK FALSE
INVARIANTS
    DuplicatesHaveACause
PROPERTIES
    DeliversAtLeastOnce
    EventsArePublished
