SPECIFICATION Spec
CONSTANTS
    g1 = g1
    g2 = g2
    p1 = p1
    None = None
    Gets = {g1, g2}
    Posts = {p1}
    MaxStarts = 2
    Faults = {"noConnection"}
    OperatorDoes = {"free"}
    StrayIds = {}
    StatusIsText = TRUE
SYMMETRY Symmetry
INVARIANTS TypeOK HandlersTakeTurns HoldersAnswered
PROPERTIES ServerAllocatesKeys
