SPECIFICATION CustomerSpec
CONSTANTS
    a = a
    b = b
    \* StripeBilling
    Subs = {"s"}
    Deliveries = {a, b}
    MaxPeriod = 2
    MaxChanges = 3
    MaxTrouble = 1
    AtomicWrites = TRUE
    PromptMapping = TRUE
    \* TrialCheckout
    Requests = {a, b}
    MaxSessions = 2
    MaxCheckoutDeaths = 1
    \* CustomerAccounts
    s1 = s1
    d1 = d1
    d2 = d2
    AccountSubs = {s1}
    Devices = {d1, d2}
    Callers = {a, b}
    Included = 1
    MaxPacks = 1
    MaxActs = 2
    MaxCallDeaths = 1
    Admitted = {}
    \* AccessLinks
    LinkCallers = {a, b}
    MaxLinks = 2
    Places = 2
    MaxTokens = 3
    MaxLinkDeaths = 1
    EarlyUse = FALSE
    \* SharedAccounts
    o = o
    m1 = m1
    m2 = m2
    n = n
    p1 = p1
    p2 = p2
    p3 = p3
    p4 = p4
    i1 = i1
    i2 = i2
    People = {o, m1, m2, n}
    Plans = {p1, p2, p3, p4}
    Invites = {i1, i2}
    Guests = {a, b}
    IncludedSeats = 2
    MoreSeats = 1
    MaxDeals = 1
    Home <- MCHome
    SharedRaces = {}
    \* AppSessions
    x = x
    y = y
    Sessions = {x, y}
    SessionCalls = {a, b}
    MaxAppDeaths = 1
    MaxPasswords = 1
    \* Entitlement
    Questions <- MCQuestions
    Now = 2
    NODE_GRACE = 1
    PAST_DUE_GRACE = 2
SYMMETRY Symmetry
INVARIANTS
    CustomerTypeOK
    ServiceFollowsStripe
    OneTrial
    
    
    SharedPlansHold
    EntitlementHolds
PROPERTIES
    
    LinksKeepWorking
    SessionsHold
CHECK_DEADLOCK FALSE
