CONSTANTS
    o1 = o1
    o2 = o2
    r1 = r1
    r2 = r2
    d1 = d1
    d2 = d2
    c1 = c1
    c2 = c2
    Owners = {o1, o2}
    RequestIds = {r1}
    Digests = {d1, d2}
    Callers = {c1, c2}
    MaxRecords = 1
SPECIFICATION FairSpec
INVARIANTS
    TypeOK
    ReceiptsAreTrue
PROPERTIES
    OutcomesAreFinal
    LateAnswersRecorded
