CONSTANTS
    c1 = c1
    c2 = c2
    s1 = s1
    s2 = s2
    o1 = o1
    o2 = o2
    Order <- PatchOrder
    MaxFaults = 2
    MaxMeddling = 1
    Lines = {"a", "b"}
    MaxHunkFile = 3
    MaxHunk = 2
    MaxHunks = 2
    Names = {"a", "b", "c"}
    MaxOperations = 3
    BufferLimit = 4
    HeadDivisor = 2
    MaxBytes = 9
    Commands <- TwoCommands
    MaxActive = 1
    MaxRetained = 1
    Searches <- TwoSearches
    Clients <- TwoClients
    MaxSearches = 2
    MaxPerOwner = 1
    MaxFailures = 2
    MaxLine = 3
    MaxFile = 3
    MaxLines = 2
    MaxMatches = 3
    MaxResults = 2
    ListedFiles = {"a", "b", "c"}
    Patterns = {"p", "q"}
    MaxListed = 2
    MaxBatch = 2
SPECIFICATION FairSpec
INVARIANTS
    AllOrNothing
    PatchIsExact
    OutputAccounted
    NoProcessIsLost
    FileToolsHonest
PROPERTIES
    SearchesSettleOnce
CHECK_DEADLOCK FALSE
