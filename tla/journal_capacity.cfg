CONSTANTS
    o1 = o1
    o2 = o2
    r1 = r1
    r2 = r2
    d1 = d1
    d2 = d2
    c1 = c1
    c2 = c2
    Owners = {o1, o2}
    RequestIds = {r1, r2}
    Digests = {d1}
    Callers = {c1}
    MaxRecords = 2
SPECIFICATION Spec
SYMMETRY Symmetry
INVARIANTS
    AtMostOnce
