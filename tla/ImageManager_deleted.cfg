SPECIFICATION Spec
CONSTANTS
    w1 = w1
    w2 = w2
    r1 = r1
    r2 = r2
    r3 = r3
    r4 = r4
    Workers = {w1}
    Requests = {r1, r2, r3}
    None = None
    Faults = {}
    OperatorDoes = {"delete"}
    StrayIds = {}
    StatusIsText = TRUE
PROPERTIES IssuedKeyIsEmpty
