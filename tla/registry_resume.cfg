CONSTANTS
    w1 = w1
    w2 = w2
    t1 = t1
    t2 = t2
    r1 = r1
    r2 = r2
    NoThread = NoThread
    NoWorkflow = NoWorkflow
    Workflows = {w1}
    ProjectOf <- OneProject
    AccessOf <- Writer
    Threads = {t1, t2}
    Kinds = {"read", "control", "status"}
    ResumeIds = {r1, r2}
    MaxGeneration = 2
SPECIFICATION Spec
PROPERTIES
    HandedTokensWork
    ReplacedCredentialsAreDead
