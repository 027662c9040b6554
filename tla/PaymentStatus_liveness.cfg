SPECIFICATION FairSpec
CONSTANTS
    p1 = p1
    p2 = p2
    r1 = r1
    r2 = r2
    q1 = q1
    c1 = c1
    c2 = c2
    id1 = id1
    Payments = {p1}
    Connections = {c1}
    PrepayIDs = {id1}
    ConnectionOf <- OneConnection
    PrepayOf <- OnePrepay
    Mismatched = {}
    Replicas = {r1, r2}
    Requests = {q1}
    Calls = {"query", "close"}
    BatchLimit = 1
    ProviderMoves <- FinalMoves
    Notified = {"UNNAMED", "PAID", "PAY_SUCCESS"}
INVARIANTS
    TypeOK
    VerdictsAgree
PROPERTIES
    OpenIsPolled
    OutcomeIsLearnt
    OutcomeIsKept
