SPECIFICATION Spec
CONSTANTS
    k1 = k1
    k2 = k2
    k3 = k3
    a1 = a1
    a2 = a2
    b1 = b1
    c1 = c1
    ra = ra
    rb = rb
    rc = rc
    ia = ia
    ic = ic
    q1 = q1
    q2 = q2
    Keys = {k1, k2, k3}
    Commands = {a1, a2, b1, c1}
    Refunds = {ra, rb, rc}
    RequestIDs = {ia, ic}
    RefundOf <- RefundOfCommand
    RequestOf <- RequestOfRefund
    Sent <- SentPairs
    Requests = {q1, q2}
SYMMETRY Interchangeable
INVARIANTS
    AnswersAreStored
    GetTellsOutcome
    RefundsAreKnown
PROPERTIES
    SettledIsFinal
