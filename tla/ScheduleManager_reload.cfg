SPECIFICATION Spec
CONSTANTS
    w1 = w1
    w2 = w2
    i1 = i1
    i2 = i2
    Workers = {w1, w2}
    Ids = {i1, i2}
    None = None
    MaxPosts = 2
    Faults = {}
SYMMETRY Symmetry
INVARIANTS LoadReadsBack
