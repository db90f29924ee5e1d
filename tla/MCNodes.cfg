SPECIFICATION NodesSpec
CONSTANTS
    a = a
    b = b
    d1 = d1
    d2 = d2
    \* AuthorizationSnapshots
    Clients = {d1, d2}
    MaxGeneration = 2
    MaxFlips = 2
    MaxRevision = 5
    TornReads = FALSE
    \* NodeRevisions
    Nodes = {"n"}
    Pushes = {a, b}
    MaxNodeRevision = 3
    Keep = 2
    MaxAttempts = 2
    MaxDeaths = 1
    OneAtATime = TRUE
    NewestStays = TRUE
    \* StaticRevision
    Documents <- MCDocuments
    MAX_RESOLVERS_PER_FAMILY = 2
    \* Placement
    Movers = {d1, d2}
    Placers = {a, b}
    Ticks = {"t"}
    Groups <- MCGroups
    MaxScale = 2
    Sessions = 1
    CanarySessions = 1
    MaxEdits = 3
    OnePlacement = TRUE
    OneTick = TRUE
    WithinBudget = TRUE
    \* AgentEvents
    Agents = {"n"}
    Polls = {a, b}
    Loops = {d1, d2}
    MaxTokens = 1
    OverlappingPolls = FALSE
    PromptReads = TRUE
    \* NodeTraffic
    MaxBytes = 2
    MaxTime = 2
    DayLength = 2
    MaxRestarts = 1
    InOrder = TRUE
    SteadyClock = TRUE
    \* TelegramLinking
    Members = {"u"}
    Telegrams = {"t"}
    Codes = {"k"}
    Redeemers = {a, b}
    TTL = 2
    WINDOW = 2
    LIMIT = 2
    Retention = 1
    WriteAge = 1
    MaxAge = 2
    MaxNow = 4
    MaxFailures = 1
    LostAnswers = FALSE
SYMMETRY Symmetry
INVARIANTS
    NodesTypeOK
    SnapshotsHold
    
    ResolversAreJudgedByMeaning
    PlacementHolds
    HeldIsWatched
    TrafficIsTruthful
    
CHECK_DEADLOCK FALSE
