CONSTANTS
    o1 = o1
    o2 = o2
    f1 = f1
    f2 = f2
    c1 = c1
    c2 = c2
    NoOwner = NoOwner
    Owners = {o1}
    Futures = {f1, f2}
    Callers = {c1, c2}
    MaxGenerations = 2
SPECIFICATION Spec
SYMMETRY Symmetry
INVARIANTS
    TypeOK
    OneGenerationWorks
    CloseMeansQuiet
    DrainMeansQuiet
PROPERTIES
    ResolvedOnce
