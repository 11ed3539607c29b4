SPECIFICATION Spec
CONSTANTS
    w1 = w1
    w2 = w2
    r1 = r1
    r2 = r2
    r3 = r3
    r4 = r4
    Workers = {w1, w2}
    Requests = {r1, r2}
    None = None
    Faults = {"noConnection", "sqlError"}
    OperatorDoes = {"free", "delete"}
    StrayIds = {1}
    StatusIsText = TRUE
SYMMETRY Symmetry
INVARIANTS DictionaryCoversTable
