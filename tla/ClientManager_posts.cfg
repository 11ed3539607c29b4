SPECIFICATION Spec
CONSTANTS
    w1 = w1
    w2 = w2
    u1 = u1
    u2 = u2
    Workers = {w1, w2}
    Uids = {u1, u2}
    None = None
    MaxPosts = 3
    Faults = {"noConnection", "sqlError"}
SYMMETRY Symmetry
INVARIANTS TypeOK NeverAhead AnsweredIsStored
