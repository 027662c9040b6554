SPECIFICATION ConnectorSpec
CONSTANTS
    p1 = p1
    r1 = r1
    q1 = q1
    c1 = c1
    id1 = id1
    Payments = {p1}
    Connections = {c1}
    PrepayIDs = {id1}
    ConnectionOf <- OneConnection
    PrepayOf <- OnePrepay
    Mismatched = {}
    Replicas = {r1}
    Requests = {q1}
    Calls = {}
    BatchLimit = 1
    ProviderMoves <- ShortMoves
    Notified = {"PAY_SUCCESS", "PAY_CLOSED"}
    Refused = {}
    Limit = 2
    MaxFaults = 1
    MaxRestarts = 1
PROPERTIES
    TellsOutcomes
    OutcomeIsTold
