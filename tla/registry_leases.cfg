CONSTANTS
    w1 = w1
    w2 = w2
    t1 = t1
    t2 = t2
    r1 = r1
    r2 = r2
    NoThread = NoThread
    NoWorkflow = NoWorkflow
    Workflows = {w1, w2}
    ProjectOf <- NestedProjects
    AccessOf <- OneWriter
    Threads = {t1, t2}
    Kinds = {"write"}
    ResumeIds = {}
    MaxGeneration = 0
SPECIFICATION Spec
SYMMETRY TwoThreads
INVARIANTS
    TypeOK
    ProjectsNotShared
    NothingOutlivesItsLease
    CacheAgrees
    CallsKeepTheirResource
    ReclaimsOnlyIdle
    StoppedIsEmpty
PROPERTIES
    LeaseSpec
