SPECIFICATION Spec
CONSTANTS
    g1 = g1
    g2 = g2
    p1 = p1
    None = None
    Gets = {g1, g2}
    Posts = {}
    MaxStarts = 2
    Faults = {}
    OperatorDoes = {}
    StrayIds = {}
    StatusIsText = TRUE
INVARIANTS AnsweredKeysDiffer
