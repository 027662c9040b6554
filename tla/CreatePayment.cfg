SPECIFICATION Spec
CONSTANTS
    k1 = k1
    k2 = k2
    a1 = a1
    a2 = a2
    b1 = b1
    ta = ta
    tb = tb
    c1 = c1
    c2 = c2
    ref = ref
    o1 = o1
    o2 = o2
    q1 = q1
    q2 = q2
    q3 = q3
    Keys = {k1, k2}
    Commands = {a1, a2, b1}
    Transactions = {ta, tb}
    Connections = {c1, c2}
    References = {ref}
    OrderIDs = {o1, o2}
    TransactionOf <- TransactionOfCommand
    ConnectionOf <- ConnectionOfCommand
    ReferenceOf <- SharedReference
    Requests = {q1, q2, q3}
    NoCommand = NoCommand
    NoOrder = NoOrder
SYMMETRY Interchangeable
INVARIANTS
    OneOrderPerKey
    CompletedIsStored
    AnswersAgree
PROPERTIES
    CompletedIsFinal
