SPECIFICATION PartsSpec
CONSTANTS
    p1 = p1
    p2 = p2
    x1 = x1
    x2 = x2
    q1 = q1
    block = block
    fact = fact
    s1 = s1
    s2 = s2
    fileA = fileA
    fileB = fileB
    root = root
    sub = sub
    bad = bad
    k1 = k1
    ask = ask
    leak = leak
    issue = issue
    pull = pull
    Moving <- AllParts
    Query <- Queries
    Item <- Items
    Fact <- Facts
    Run <- Runs1
    NoRun = noRun
    Actor <- Processes
    Score <- Scores
    MaxScored = 2
    MaxLog = 5
    MaxAged = 1
    File <- OneFile
    Dir <- Dirs
    Root = root
    Parent <- Tree
    Version <- Versions
    Refused <- BadVersions
    Gone = gone
    Walker <- Processes
    SliceFiles = 1
    MaxIncidents = 1
    Session <- Sessions
    User <- Users
    NoUser = noUser
    Approver <- Processes
    MaxKeys = 2
    FactKey <- Keys
    Caller <- Processes
    MaxFacts = 3
    Opener <- Processes
    Content <- Contents
    UserTurn <- UserTurns
    Unsafe <- Leaks
    Tokens <- Estimates
    TurnLimit = 3
    TokenLimit = 4
    MinTokens = 2
    Folder <- Processes
    MaxTurns = 4
    MaxScore = 2
    MaxPoints = 6
    Issue <- Issues
    Pull <- Pulls
    PageSize = 1
    MaxPages = 2
    Budget = 1
    Ingester <- Processes
    MaxVersion = 2
SYMMETRY Symmetry
INVARIANTS
    ShownIsLogged
    HelpfulWasShown
    HoldoutIsClean
    VerifiedMeansReported
    CreditStaysInRun
    OverridesOnlyRacers
    PartsTypeOK
    NothingElseForgotten
    LinkIsConsistent
    ErasedIffAudited
    SchemaIsWhole
    NoTurnFallsBetween
    FitFollowsListOrder
    BetterScoreServesBetter
    QuietIngestCatchesUp
PROPERTIES ExpiredStaysRetired KeysMoveOneWay
CHECK_DEADLOCK FALSE
