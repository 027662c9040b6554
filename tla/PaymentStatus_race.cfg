SPECIFICATION Spec
CONSTANTS
    p1 = p1
    p2 = p2
    r1 = r1
    r2 = r2
    q1 = q1
    c1 = c1
    c2 = c2
    id1 = id1
    Payments = {p1, p2}
    Connections = {c1, c2}
    PrepayIDs = {id1}
    ConnectionOf <- TwoConnections
    PrepayOf <- SharedPrepay
    Mismatched = {}
    Replicas = {r1, r2}
    Requests = {q1}
    Calls = {"close"}
    BatchLimit = 1
    ProviderMoves <- ShortMoves
    Notified = {"PAY_SUCCESS"}
SYMMETRY Interchangeable
INVARIANTS
    ScheduleFollowsStatus
    StatusesReported
    OutboxMatchesInbound
    AcknowledgedIsDurable
PROPERTIES
    RecordsOutcomes
