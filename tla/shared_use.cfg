CONSTANTS
    w1 = w1
    w2 = w2
    c1 = c1
    c2 = c2
    Transfers <- TwoThings
    Peers <- OneOwner
    MaxFile = 2
    MaxStored = 3
    MaxPerPeer = 2
    MaxTrouble = 2
    BrowserRequests <- ThreeRequests
    Navigations <- OneNavigation
    Uploads <- OneUpload
    Downloads <- OneDownload
    MaxSessions = 2
    MaxKills = 1
    Workflows <- TwoThings
    Sessions <- OneSession
    DeskCalls <- TwoCalls
    MaxListed = 2
    MaxInputs = 2
    Windows <- TwoThings
    WindowCalls <- TwoCalls
    MaxEvents = 2
    MaxMeddling = 1
    Settings <- TwoSettings
    Tunnelled <- OneTunnelled
    Pids <- TwoPids
    MaxBirths = 4
    MaxCrashes = 1
    Clients <- TwoClients
    Preregistered <- OnePreregistered
    Redirects <- TwoRedirects
    Bases <- TwoBases
    Verifiers <- TwoVerifiers
    Terms <- FourTerms
    Approvals <- TwoApprovals
    TokenRequests <- TwoCalls
    MaxClients = 2
    MaxCodes = 1
    CodeTTL = 0
    TokenTTL = 1
    MaxIssued = 2
    MaxTime = 1
    Pages <- TwoThings
    MaxPages = 1
    MaxDocs = 2
    MaxVersions = 2
    Threads <- TwoCalls
    Tools <- TwoTools
    ErrorLimit = 1
    QueueLimit = 2
    MaxCalls = 2
    MaxHandshakes = 1
    Callers <- TwoCalls
    RequestIds <- TwoThings
    MaxBreaks = 1
SPECIFICATION Spec
SYMMETRY Symmetry
INVARIANTS
    BrowserIsTrue
    DesktopIsMinded
    NothingIsLost
    CallsAreJudged
    CountsAddUp
PROPERTIES
    UploadsOnlyCreate
    TokensAreApproved
CHECK_DEADLOCK FALSE
